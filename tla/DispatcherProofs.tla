-------------------------- MODULE DispatcherProofs --------------------------
(***************************************************************************)
(* Machine-checked proofs about Dispatcher, for any number of posting      *)
(* threads, callbacks and objects: its types, its wake-ups, and that the   *)
(* post list and the two deferred lists implement the FIFO Mailbox, with   *)
(* the invariants of the double buffers that rests on.                     *)
(***************************************************************************)
EXTENDS Dispatcher, SequenceTheorems, TLAPS

(* The other buffer of a pair is a buffer of the pair.                     *)
LEMMA OtherType == \A b \in 1..2 : Other(b) \in 1..2 /\ Other(b) # b /\ Other(Other(b)) = b
BY DEF Other

(* Every step of the dispatcher keeps its state well typed.                *)
LEMMA TypeStep == TypeOK /\ [Next]_vars => TypeOK'
<1> SUFFICES ASSUME TypeOK, [Next]_vars PROVE TypeOK'
  OBVIOUS
<1> USE DEF TypeOK
<1>0. "post" \in Scbs /\ Lists \subseteq Scbs /\ Loop \in Threads
  BY ScbsAssumption DEF Lists, Threads
<1>1. ASSUME NEW t \in Threads, NEW c \in Callbacks, Post(t, c) PROVE TypeOK'
  BY <1>1 DEF Post, PostAppend, scbVars, runVars, listVars, PostPc
<1>2. ASSUME NEW t \in Threads, PostStep(t) PROVE TypeOK'
  <2>1. CASE PostCheck(t)
    BY <2>1 DEF PostCheck, scbVars, runVars, listVars, PostPc
  <2>2. CASE PostSet(t)
    BY <2>2, <1>0 DEF PostSet, SetEnabled, runVars, listVars, PostPc
  <2>3. CASE PostWrite(t)
    BY <2>3, <1>0 DEF PostWrite, EventfdWrite, runVars, listVars, PostPc
  <2> QED
    BY <1>2, <2>1, <2>2, <2>3 DEF PostStep
<1>3. ASSUME NEW k \in Lists, NEW o \in Objects, Defer(k, o) PROVE TypeOK'
  <2>1. buf' \in [Lists -> [1..2 -> Seq(Objects)]]
    BY <1>3 DEF Defer
  <2>2. m_enabled' \in [Scbs -> BOOLEAN] /\ wakeup_fd' \in [Scbs -> Nat] /\ raw_event' \in [Scbs -> RawStates]
    <3>1. CASE UNCHANGED scbVars
      BY <3>1 DEF scbVars
    <3>2. CASE /\ m_enabled' = [m_enabled EXCEPT ![k] = TRUE]
               /\ wakeup_fd' = [wakeup_fd EXCEPT ![k] = @ + 1]
               /\ UNCHANGED raw_event
      BY <3>2, <1>0
    <3> QED
      BY <1>3, <3>1, <3>2 DEF Defer, ScheduleCallbackCurrentIteration
  <2> QED
    BY <1>3, <2>1, <2>2 DEF Defer, postVars, runVars
<1>4. ASSUME NEW k \in Lists, ClearStep(k) PROVE TypeOK'
  <2>1. CASE DisposeNext(k)
    <3>1. Batch(k) \in Seq(Objects)
      BY OtherType DEF Batch
    <3>2. Batch(k)[pos[k] + 1] \in Objects
      BY <2>1, <3>1 DEF DisposeNext
    <3> QED
      BY <2>1, <3>2 DEF DisposeNext, scbVars, postVars, runVars
  <2>2. CASE EndClear(k)
    <3>1. buf' \in [Lists -> [1..2 -> Seq(Objects)]]
      <4> DEFINE b == Other(current[k])
      <4>1. b \in 1..2
        BY OtherType
      <4>2. buf' = [buf EXCEPT ![k][b] = <<>>]
        BY <2>2 DEF EndClear
      <4> HIDE DEF b
      <4> QED
        BY <4>1, <4>2
    <3> QED
      BY <2>2, <3>1 DEF EndClear, scbVars, postVars, runVars
  <2> QED
    BY <1>4, <2>1, <2>2 DEF ClearStep
<1>a. ASSUME NEW k \in Lists, StartClear(k)
      PROVE /\ buf' \in [Lists -> [1..2 -> Seq(Objects)]]
            /\ current' \in [Lists -> 1..2]
            /\ clearing' \in [Lists -> BOOLEAN]
            /\ pos' \in [Lists -> Nat]
            /\ disposed' \in [Lists -> Seq(Objects)]
  <2>1. CASE UNCHANGED listVars
    BY <2>1 DEF listVars
  <2>2. CASE /\ current' = [current EXCEPT ![k] = Other(@)]
             /\ clearing' = [clearing EXCEPT ![k] = TRUE]
             /\ pos' = [pos EXCEPT ![k] = 0]
             /\ UNCHANGED <<buf, disposed>>
    BY <2>2, OtherType
  <2> QED
    BY <1>a, <2>1, <2>2 DEF StartClear
<1>5. ASSUME NEW k \in Lists, ListCallback(k) PROVE TypeOK'
  BY <1>5, <1>a, <1>0 DEF ListCallback, TimerCb, RawStates, LoopPc, postVars, runVars
<1>6. CASE ClearDeferredDeleteList
  BY <1>6, <1>a DEF ClearDeferredDeleteList, Lists, scbVars, postVars, runVars
<1>7. CASE LoopStep
  <2>1. ASSUME NEW k \in Lists, RunClear(k) PROVE TypeOK'
    BY <2>1, <1>a DEF RunClear, scbVars, postVars, runVars, LoopPc
  <2>2. CASE Steal
    BY <2>2 DEF Steal, scbVars, listVars, LoopPc
  <2>3. CASE RunNext
    BY <2>3 DEF RunNext, scbVars, postVars, listVars, LoopPc
  <2> QED
    BY <1>7, <2>1, <2>2, <2>3
    DEF LoopStep, RunI, WorkerLoop, RunEnd, ListCallbackReturn, EventReturn,
        scbVars, postVars, runVars, listVars, LoopPc
<1>8. ASSUME NEW s \in Scbs, Wakeup(s) \/ NextIteration(s) PROVE TypeOK'
  <2>1. CASE Wakeup(s)
    BY <2>1 DEF Wakeup, WakeupCb, RawStates, postVars, runVars, listVars
  <2>2. CASE NextIteration(s)
    BY <2>2 DEF NextIteration, TimeoutExpires, RawStates, postVars, runVars, listVars
  <2> QED
    BY <1>8, <2>1, <2>2
<1>9. CASE PostCallback
  BY <1>9, <1>0 DEF PostCallback, TimerCb, RawStates, LoopPc, postVars, runVars, listVars
<1>10. CASE Event \/ ShutdownI
  BY <1>10 DEF Event, ShutdownI, LoopPc, scbVars, postVars, runVars, listVars
<1>11. CASE UNCHANGED vars
  BY <1>11 DEF vars, scbVars, postVars, runVars, listVars
<1> QED
  BY <1>1, <1>2, <1>3, <1>4, <1>5, <1>6, <1>7, <1>8, <1>9, <1>10, <1>11 DEF Next

(* The dispatcher starts with its type.                                    *)
LEMMA TypeInit == Init => TypeOK
BY DEF Init, TypeOK, SchedulableCallbackInit, RawStates, PostPc, LoopPc

(* The state of the dispatcher keeps its types: TypeOK holds in every      *)
(* reachable state of rp-dispatcher-impl.c's model.                        *)
THEOREM TypeCorrect == Spec => []TypeOK
BY TypeInit, TypeStep, PTL DEF Spec

-----------------------------------------------------------------------------
(* The wakeup of the post list.  NoLostWakeup is not inductive alone: a    *)
(* thread that finds m_enabled set goes away without scheduling anything,  *)
(* which is sound only because a set flag has an activation behind it.     *)
WakeupInv == TypeOK /\ EnabledMeansScheduled /\ NoLostWakeup

(* Steps that leave alone what the wakeup of the post list is made of.     *)
LEMMA WakeupFrame ==
    ASSUME WakeupInv, TypeOK',
           UNCHANGED <<m_post_callbacks, pc, m_enabled["post"], wakeup_fd["post"], raw_event["post"]>>,
           \/ UNCHANGED loop
           \/ ~BeforeSteal /\ loop # "down"
           \/ BeforeSteal' \/ loop' = "down"
    PROVE  EnabledMeansScheduled' /\ NoLostWakeup'
BY DEF WakeupInv, EnabledMeansScheduled, NoLostWakeup, Scheduled, BeforeSteal

(* Every step of a poster, of the loop and of libevent keeps the wakeup    *)
(* invariant.                                                              *)
LEMMA WakeupStep == WakeupInv /\ [Next]_vars => WakeupInv'
<1> SUFFICES ASSUME WakeupInv, [Next]_vars PROVE EnabledMeansScheduled' /\ NoLostWakeup'
  BY TypeStep DEF WakeupInv
<1>0. TypeOK /\ TypeOK'
  BY TypeStep DEF WakeupInv
<1>s. "post" \in Scbs /\ Lists \subseteq Scbs /\ "post" \notin Lists
  BY ScbsAssumption DEF Lists
<1>1. ASSUME NEW t \in Threads, NEW c \in Callbacks, Post(t, c)
      PROVE EnabledMeansScheduled' /\ NoLostWakeup'
  <2>1. EnabledMeansScheduled'
    BY <1>1, <1>0 DEF WakeupInv, TypeOK, EnabledMeansScheduled, Scheduled, Post, PostAppend, scbVars
  <2>2. CASE m_post_callbacks = <<>>
    <3>1. pc'[t] = "check"
      BY <1>1, <2>2, <1>0 DEF Post, PostAppend, TypeOK
    <3> QED
      BY <3>1, <2>1 DEF NoLostWakeup
  <2>3. CASE m_post_callbacks # <<>>
    <3>1. pc' = pc
      BY <1>1, <2>3, <1>0 DEF Post, PostAppend, TypeOK
    <3> QED
      BY <1>1, <2>1, <2>3, <3>1 DEF WakeupInv, NoLostWakeup, Scheduled, BeforeSteal, Post, PostAppend, scbVars
  <2> QED
    BY <2>2, <2>3
<1>2. ASSUME NEW t \in Threads, PostStep(t)
      PROVE EnabledMeansScheduled' /\ NoLostWakeup'
  <2>1. CASE PostCheck(t)
    <3>1. EnabledMeansScheduled'
      BY <2>1, <1>0 DEF WakeupInv, TypeOK, EnabledMeansScheduled, Scheduled, PostCheck, scbVars
    <3>2. CASE loop = "down"
      BY <2>1, <3>1, <3>2 DEF NoLostWakeup, PostCheck
    <3>3. CASE loop # "down" /\ m_enabled["post"]
      <4>1. Scheduled("post") \/ \E u \in Threads : pc[u] = "write"
        BY <3>3 DEF WakeupInv, EnabledMeansScheduled
      <4>2. \A u \in Threads : pc[u] = "write" => pc'[u] = "write"
        BY <2>1, <1>0 DEF PostCheck, TypeOK
      <4>3. Scheduled("post") => Scheduled("post")'
        BY <2>1 DEF PostCheck, Scheduled, scbVars
      <4> QED
        BY <3>1, <4>1, <4>2, <4>3 DEF NoLostWakeup
    <3>4. CASE loop # "down" /\ ~m_enabled["post"]
      <4>1. pc'[t] = "set"
        BY <2>1, <3>4, <1>0 DEF PostCheck, TypeOK
      <4> QED
        BY <3>1, <4>1 DEF NoLostWakeup
    <3> QED
      BY <3>2, <3>3, <3>4
  <2>2. CASE PostSet(t)
    <3>1. pc'[t] = "write"
      BY <2>2, <1>0 DEF PostSet, TypeOK
    <3> QED
      BY <3>1 DEF EnabledMeansScheduled, NoLostWakeup
  <2>3. CASE PostWrite(t)
    <3>1. Scheduled("post")'
      BY <2>3, <1>0, <1>s DEF PostWrite, EventfdWrite, Scheduled, TypeOK
    <3> QED
      BY <3>1 DEF EnabledMeansScheduled, NoLostWakeup
  <2> QED
    BY <1>2, <2>1, <2>2, <2>3 DEF PostStep
<1>3. ASSUME NEW k \in Lists, NEW o \in Objects, Defer(k, o)
      PROVE EnabledMeansScheduled' /\ NoLostWakeup'
  <2>1. UNCHANGED <<m_enabled["post"], wakeup_fd["post"], raw_event["post"]>>
    BY <1>3, <1>0, <1>s DEF Defer, ScheduleCallbackCurrentIteration, scbVars, TypeOK
  <2> QED
    BY <1>3, <1>0, <2>1, WakeupFrame DEF Defer, postVars
<1>4. ASSUME NEW k \in Lists, ClearStep(k)
      PROVE EnabledMeansScheduled' /\ NoLostWakeup'
  BY <1>4, <1>0, WakeupFrame DEF ClearStep, DisposeNext, EndClear, scbVars, postVars
<1>5. ASSUME NEW k \in Lists, ListCallback(k)
      PROVE EnabledMeansScheduled' /\ NoLostWakeup'
  <2>1. UNCHANGED <<m_enabled["post"], wakeup_fd["post"], raw_event["post"]>>
    BY <1>5, <1>0, <1>s DEF ListCallback, TimerCb, TypeOK
  <2>2. ~BeforeSteal /\ loop # "down"
    BY <1>5 DEF ListCallback, BeforeSteal
  <2> QED
    BY <1>5, <1>0, <2>1, <2>2, WakeupFrame DEF ListCallback, postVars
<1>6. CASE ClearDeferredDeleteList
  BY <1>6, <1>0, WakeupFrame DEF ClearDeferredDeleteList, scbVars, postVars
<1>7. CASE LoopStep
  <2>1. CASE Steal
    <3>1. m_post_callbacks' = <<>>
      BY <2>1 DEF Steal
    <3>2. EnabledMeansScheduled'
      BY <2>1 DEF WakeupInv, EnabledMeansScheduled, Scheduled, Steal, scbVars
    <3> QED
      BY <3>1, <3>2 DEF NoLostWakeup
  <2>2. ASSUME NEW k \in Lists, RunClear(k) PROVE EnabledMeansScheduled' /\ NoLostWakeup'
    BY <2>2, <1>0, WakeupFrame DEF RunClear, scbVars, postVars, BeforeSteal, Lists
  <2>3. CASE RunI
    BY <2>3, <1>0, WakeupFrame DEF RunI, scbVars, postVars, BeforeSteal
  <2>4. CASE WorkerLoop \/ RunEnd \/ ListCallbackReturn \/ EventReturn
    <3>1. ~BeforeSteal /\ loop # "down"
      BY <2>4 DEF WorkerLoop, RunEnd, ListCallbackReturn, EventReturn, BeforeSteal
    <3> QED
      BY <2>4, <1>0, <3>1, WakeupFrame
      DEF WorkerLoop, RunEnd, ListCallbackReturn, EventReturn, scbVars, postVars
  <2>5. CASE RunNext
    BY <2>5, <1>0, WakeupFrame DEF RunNext, scbVars, postVars, BeforeSteal
  <2> QED
    BY <1>7, <2>1, <2>2, <2>3, <2>4, <2>5 DEF LoopStep
<1>8. ASSUME NEW s \in Scbs, Wakeup(s) \/ NextIteration(s)
      PROVE EnabledMeansScheduled' /\ NoLostWakeup'
  <2>1. CASE s = "post"
    <3>1. raw_event'["post"] # "none"
      BY <1>8, <2>1, <1>0, <1>s DEF Wakeup, NextIteration, WakeupCb, TimeoutExpires, TypeOK
    <3> QED
      BY <3>1 DEF EnabledMeansScheduled, NoLostWakeup, Scheduled
  <2>2. CASE s # "post"
    <3>1. UNCHANGED <<m_enabled["post"], wakeup_fd["post"], raw_event["post"]>>
      BY <1>8, <2>2, <1>0, <1>s DEF Wakeup, NextIteration, WakeupCb, TimeoutExpires, TypeOK
    <3> QED
      BY <1>8, <1>0, <3>1, WakeupFrame DEF Wakeup, NextIteration, postVars
  <2> QED
    BY <2>1, <2>2
<1>9. CASE PostCallback
  <2>1. BeforeSteal'
    BY <1>9 DEF PostCallback, BeforeSteal
  <2>2. ~m_enabled'["post"]
    BY <1>9, <1>0, <1>s DEF PostCallback, TimerCb, TypeOK
  <2> QED
    BY <2>1, <2>2 DEF EnabledMeansScheduled, NoLostWakeup
<1>10. CASE Event \/ ShutdownI
  <2>1. ~BeforeSteal /\ loop # "down"
    BY <1>10 DEF Event, ShutdownI, BeforeSteal
  <2> QED
    BY <1>10, <1>0, <2>1, WakeupFrame DEF Event, ShutdownI, scbVars, postVars
<1>11. CASE UNCHANGED vars
  BY <1>11, <1>0, WakeupFrame DEF vars, scbVars, postVars
<1> QED
  BY <1>1, <1>2, <1>3, <1>4, <1>5, <1>6, <1>7, <1>8, <1>9, <1>10, <1>11 DEF Next

(* At the start nothing is posted and no callback is enabled.              *)
LEMMA WakeupInit == Init => WakeupInv
<1> SUFFICES ASSUME Init PROVE EnabledMeansScheduled /\ NoLostWakeup
  BY TypeInit DEF WakeupInv
<1> QED
  BY ScbsAssumption DEF Init, SchedulableCallbackInit, EnabledMeansScheduled, NoLostWakeup

(* No wakeup of rp_dispatcher_base_post is ever lost, whatever the number  *)
(* of posting threads: NoLostWakeup holds in every reachable state.        *)
THEOREM WakeupNeverLost == Spec => []NoLostWakeup
<1>1. Spec => []WakeupInv
  BY WakeupInit, WakeupStep, PTL DEF Spec
<1>2. WakeupInv => NoLostWakeup
  BY DEF WakeupInv
<1> QED
  BY <1>1, <1>2, PTL

(* The flag m_enabled of m_post_cb is never stale-true.                    *)
THEOREM EnabledNeverStale == Spec => []EnabledMeansScheduled
<1>1. Spec => []WakeupInv
  BY WakeupInit, WakeupStep, PTL DEF Spec
<1>2. WakeupInv => EnabledMeansScheduled
  BY DEF WakeupInv
<1> QED
  BY <1>1, <1>2, PTL

-----------------------------------------------------------------------------
(* The lists as mailboxes.                                                 *)

(* Appending to the second of two lists appends to their concatenation.    *)
LEMMA ConcatAppend ==
    ASSUME NEW S, NEW s \in Seq(S), NEW t \in Seq(S), NEW e \in S
    PROVE  s \o Append(t, e) = Append(s \o t, e)
<1> DEFINE l == s \o Append(t, e)
           r == Append(s \o t, e)
<1>1. /\ s \o t \in Seq(S)
      /\ Len(s \o t) = Len(s) + Len(t)
      /\ \A i \in 1..Len(s) + Len(t) : (s \o t)[i] = IF i <= Len(s) THEN s[i] ELSE t[i - Len(s)]
  BY ConcatProperties
<1>2. /\ Append(t, e) \in Seq(S)
      /\ Len(Append(t, e)) = Len(t) + 1
      /\ \A i \in 1..Len(t) : Append(t, e)[i] = t[i]
      /\ Append(t, e)[Len(t) + 1] = e
  BY AppendProperties
<1>3. /\ l \in Seq(S)
      /\ Len(l) = Len(s) + Len(t) + 1
      /\ \A i \in 1..Len(s) + Len(t) + 1 :
            l[i] = IF i <= Len(s) THEN s[i] ELSE Append(t, e)[i - Len(s)]
  <2> DEFINE u == Append(t, e)
  <2>1. u \in Seq(S) /\ Len(u) = Len(t) + 1
    BY <1>2
  <2> HIDE DEF u
  <2>2. /\ s \o u \in Seq(S)
        /\ Len(s \o u) = Len(s) + Len(u)
        /\ \A i \in 1..Len(s) + Len(u) : (s \o u)[i] = IF i <= Len(s) THEN s[i] ELSE u[i - Len(s)]
    BY <2>1, ConcatProperties
  <2>3. Len(s) + Len(u) = Len(s) + Len(t) + 1
    BY <2>1, LenProperties
  <2> QED
    BY <2>2, <2>3 DEF u
<1>4. /\ r \in Seq(S)
      /\ Len(r) = Len(s) + Len(t) + 1
      /\ \A i \in 1..Len(s) + Len(t) : r[i] = (s \o t)[i]
      /\ r[Len(s) + Len(t) + 1] = e
  BY <1>1, AppendProperties
<1>5. Len(s) \in Nat /\ Len(t) \in Nat
  BY LenProperties
<1>6. \A i \in 1..Len(l) : l[i] = r[i]
  <2> SUFFICES ASSUME NEW i \in 1..Len(s) + Len(t) + 1 PROVE l[i] = r[i]
    BY <1>3
  <2>1. CASE i <= Len(s)
    BY <2>1, <1>1, <1>3, <1>4, <1>5
  <2>2. CASE i > Len(s) /\ i <= Len(s) + Len(t)
    <3>1. i - Len(s) \in 1..Len(t)
      BY <2>2, <1>5
    <3> QED
      BY <2>2, <3>1, <1>1, <1>2, <1>3, <1>4, <1>5
  <2>3. CASE i = Len(s) + Len(t) + 1
    <3>1. i - Len(s) = Len(t) + 1 /\ ~(i <= Len(s))
      BY <2>3, <1>5
    <3> QED
      BY <2>3, <3>1, <1>2, <1>3, <1>4, <1>5
  <2> QED
    BY <2>1, <2>2, <2>3, <1>5
<1> HIDE DEF l, r
<1>7. l = r
  BY <1>3, <1>4, <1>6, SeqEqual
<1> QED
  BY <1>7 DEF l, r

(* What is in neither of two lists is not in their concatenation, nor in   *)
(* that of an end of the first with the second.                            *)
LEMMA ConcatFresh ==
    ASSUME NEW S, NEW s \in Seq(S), NEW t \in Seq(S), NEW e,
           e \notin Range(s), e \notin Range(t)
    PROVE  \A i \in DOMAIN (s \o t) : (s \o t)[i] # e
<1>1. e \notin Range(s \o t)
  BY RangeConcatenation
<1> QED
  BY <1>1 DEF Range

(* What is not in a batch is not in the rest of the batch.                 *)
LEMMA TailFresh ==
    ASSUME NEW S, NEW s \in Seq(S), NEW n \in Nat, NEW e, e \notin Range(s)
    PROVE  e \notin Range(SubSeq(s, n + 1, Len(s)))
<1>1. Len(s) \in Nat /\ DOMAIN s = 1..Len(s) /\ \A i \in 1..Len(s) : s[i] \in S
  BY ElementOfSeq, LenProperties
<1> DEFINE r == SubSeq(s, n + 1, Len(s))
<1>2. /\ r \in Seq(S)
      /\ Len(r) = IF n + 1 <= Len(s) THEN Len(s) - (n + 1) + 1 ELSE 0
      /\ \A i \in 1..Len(s) - (n + 1) + 1 : r[i] = s[n + 1 + i - 1]
  BY <1>1, SubSeqProperties
<1> HIDE DEF r
<1>3. DOMAIN r = 1..Len(r) /\ Len(r) \in Nat
  BY <1>2, LenProperties
<1>4. ASSUME NEW i \in DOMAIN r PROVE r[i] # e
  <2>1. i \in 1..Len(s) - (n + 1) + 1 /\ n + 1 + i - 1 \in 1..Len(s)
    <3>1. i \in 1..Len(r) /\ Len(s) \in Nat
      BY <1>1, <1>3
    <3> HIDE DEF r
    <3>2. n + 1 <= Len(s) /\ i \in Nat /\ 1 <= i /\ i <= Len(s) - (n + 1) + 1
      BY <3>1, <1>2
    <3> QED
      BY <3>1, <3>2
  <2>2. s[n + 1 + i - 1] # e
    BY <2>1, <1>1 DEF Range
  <2> QED
    BY <2>1, <2>2, <1>2
<1> QED
  BY <1>4 DEF Range, r

(* The head and the tail of a concatenation whose first list is not empty. *)
LEMMA ConcatHeadTail ==
    ASSUME NEW S, NEW s \in Seq(S), NEW t \in Seq(S), s # <<>>
    PROVE  /\ s \o t # <<>>
           /\ Head(s \o t) = Head(s)
           /\ Tail(s \o t) = Tail(s) \o t
<1> DEFINE l == Tail(s \o t)
           r == Tail(s) \o t
<1>1. /\ s \o t \in Seq(S)
      /\ Len(s \o t) = Len(s) + Len(t)
      /\ \A i \in 1..Len(s) + Len(t) : (s \o t)[i] = IF i <= Len(s) THEN s[i] ELSE t[i - Len(s)]
  BY ConcatProperties
<1>2. Len(s) \in Nat \ {0} /\ Len(t) \in Nat
  BY EmptySeq, LenProperties
<1>3. s \o t # <<>>
  BY <1>1, <1>2, EmptySeq
<1>4. Head(s \o t) = Head(s)
  BY <1>1, <1>2, <1>3
<1>5. /\ Tail(s) \in Seq(S)
      /\ Len(Tail(s)) = Len(s) - 1
      /\ \A i \in 1..Len(Tail(s)) : Tail(s)[i] = s[i + 1]
  BY HeadTailProperties
<1>6. /\ l \in Seq(S)
      /\ Len(l) = Len(s) + Len(t) - 1
      /\ \A i \in 1..Len(l) : l[i] = (s \o t)[i + 1]
  BY <1>1, <1>3, HeadTailProperties
<1>7. /\ r \in Seq(S)
      /\ Len(r) = Len(s) - 1 + Len(t)
      /\ \A i \in 1..Len(s) - 1 + Len(t) :
            r[i] = IF i <= Len(s) - 1 THEN Tail(s)[i] ELSE t[i - (Len(s) - 1)]
  BY <1>5, ConcatProperties
<1>8. \A i \in 1..Len(l) : l[i] = r[i]
  <2> SUFFICES ASSUME NEW i \in 1..Len(s) + Len(t) - 1 PROVE l[i] = r[i]
    BY <1>6
  <2>1. i + 1 \in 1..Len(s) + Len(t) /\ i \in 1..Len(l) /\ l[i] = (s \o t)[i + 1]
    BY <1>6, <1>2
  <2>2. CASE i <= Len(s) - 1
    BY <2>1, <2>2, <1>1, <1>2, <1>5, <1>7
  <2>3. CASE i > Len(s) - 1
    <3>1. i + 1 - Len(s) = i - (Len(s) - 1) /\ ~(i + 1 <= Len(s)) /\ ~(i <= Len(s) - 1)
      BY <2>3, <1>2
    <3> QED
      BY <2>1, <3>1, <1>1, <1>2, <1>7
  <2> QED
    BY <2>2, <2>3, <1>2
<1> HIDE DEF l, r
<1>9. l = r
  BY <1>6, <1>7, <1>8, <1>2, SeqEqual
<1> QED
  BY <1>3, <1>4, <1>9 DEF l, r

-----------------------------------------------------------------------------
(* The invariant of the deferred lists.  DeferredIsScheduled needs the     *)
(* flag of the list's callback (a Defer that finds it set schedules        *)
(* nothing), and that no clear is under way whenever the loop polls (the   *)
(* list's callback would consume its activation without clearing).         *)
ListOK(k) ==
    /\ ~clearing[k] => Batch(k) = <<>> /\ pos[k] = 0
    /\ pos[k] <= Len(Batch(k))
    /\ m_enabled[k] => Scheduled(k)
    /\ Filling(k) # <<>> => Scheduled(k) \/ loop = "down"

LoopOK ==
    /\ loop \in {"init", "poll", "down"} => \A k \in Lists : ~clearing[k]
    /\ loop \notin {"run", "in_cb"} => callbacks = <<>>

ListInv == TypeOK /\ (\A k \in Lists : ListOK(k)) /\ LoopOK

ListUnchanged(k) ==
    UNCHANGED <<buf[k], current[k], clearing[k], pos[k], m_enabled[k], wakeup_fd[k], raw_event[k]>>

(* A step that does not touch list k.                                      *)
LEMMA ListFrame ==
    ASSUME NEW k \in Lists, ListOK(k), ListUnchanged(k), UNCHANGED loop \/ loop # "down"
    PROVE  ListOK(k)'
BY DEF ListOK, ListUnchanged, Batch, Filling, Scheduled

(* internal_clear_deferred_*_list: the filled buffer becomes the batch and *)
(* the empty one is filled from now on; the list's callback is untouched.  *)
LEMMA StartClearList ==
    ASSUME NEW k \in Lists, ListInv, StartClear(k), UNCHANGED scbVars \/ TimerCb(k),
           TimerCb(k) => ~clearing[k], UNCHANGED loop \/ loop # "down"
    PROVE  /\ \A j \in Lists : ListOK(j)'
           /\ \A j \in Lists \ {k} : clearing'[j] = clearing[j]
<1>0. TypeOK /\ ListOK(k) /\ k \in Scbs
  BY ScbsAssumption DEF ListInv, Lists
<1>1. CASE clearing[k] \/ Filling(k) = <<>>
  <2>1. UNCHANGED listVars
    BY <1>1 DEF StartClear
  <2>2. CASE UNCHANGED scbVars
    BY <2>1, <2>2, ListFrame DEF ListInv, ListUnchanged, scbVars, listVars
  <2>3. CASE TimerCb(k)
    <3>1. ASSUME NEW j \in Lists, j # k PROVE ListUnchanged(j)
      BY <2>1, <2>3, <3>1, <1>0, ScbsAssumption DEF TimerCb, TypeOK, ListUnchanged, listVars, Lists
    <3>2. Filling(k) = <<>> /\ ~m_enabled'[k]
      BY <1>1, <2>3, <1>0 DEF TimerCb, TypeOK
    <3>3. ListOK(k)'
      BY <3>2, <2>1, <1>0 DEF ListOK, listVars, Batch, Filling
    <3> QED
      BY <2>1, <3>1, <3>3, ListFrame DEF ListInv, listVars
  <2> QED
    BY <2>2, <2>3
<1>2. CASE ~clearing[k] /\ Filling(k) # <<>>
  <2>1. /\ current' = [current EXCEPT ![k] = Other(@)]
        /\ clearing' = [clearing EXCEPT ![k] = TRUE]
        /\ pos' = [pos EXCEPT ![k] = 0]
        /\ UNCHANGED <<buf, disposed>>
    BY <1>2 DEF StartClear
  <2>2. /\ current'[k] = Other(current[k])
        /\ Other(current'[k]) = current[k]
        /\ clearing'[k] /\ pos'[k] = 0
    BY <2>1, <1>0, OtherType DEF TypeOK
  <2>3. Batch(k)' = Filling(k) /\ Filling(k)' = Batch(k)
    BY <2>1, <2>2 DEF Batch, Filling
  <2>4. Batch(k) = <<>>
    BY <1>2, <1>0 DEF ListOK
  <2>5. Len(Filling(k)) \in Nat
    BY <1>0 DEF TypeOK, Filling
  <2>6. m_enabled'[k] => Scheduled(k)'
    <3>1. CASE UNCHANGED scbVars
      BY <3>1, <1>0 DEF ListOK, Scheduled, scbVars
    <3>2. CASE TimerCb(k)
      BY <3>2, <1>0 DEF TimerCb, TypeOK
    <3> QED
      BY <3>1, <3>2
  <2>7. ListOK(k)'
    BY <2>2, <2>3, <2>4, <2>5, <2>6 DEF ListOK
  <2>8. ASSUME NEW j \in Lists, j # k PROVE ListUnchanged(j) /\ clearing'[j] = clearing[j]
    <3>1. UNCHANGED <<m_enabled[j], wakeup_fd[j], raw_event[j]>>
      BY <2>8, <1>0, ScbsAssumption DEF TimerCb, TypeOK, scbVars, Lists
    <3>2. UNCHANGED <<buf[j], current[j], clearing[j], pos[j]>>
      BY <2>1, <2>8, <1>0 DEF TypeOK
    <3> QED
      BY <3>1, <3>2 DEF ListUnchanged
  <2> QED
    BY <2>7, <2>8, ListFrame DEF ListInv
<1> QED
  BY <1>1, <1>2

(* Every step keeps the invariant of the double-buffered lists.            *)
LEMMA ListStep == ListInv /\ [Next]_vars => ListInv'
<1> SUFFICES ASSUME ListInv, [Next]_vars PROVE (\A k \in Lists : ListOK(k)') /\ LoopOK'
  BY TypeStep DEF ListInv
<1> DEFINE Goal == (\A k \in Lists : ListOK(k)') /\ LoopOK'
<1>0. TypeOK /\ TypeOK' /\ LoopOK /\ \A k \in Lists : ListOK(k)
  BY TypeStep DEF ListInv
<1>s. "post" \in Scbs /\ Lists \subseteq Scbs /\ "post" \notin Lists
  BY ScbsAssumption DEF Lists
<1>1. ASSUME NEW t \in Threads, NEW c \in Callbacks, Post(t, c) PROVE Goal
  BY <1>1, <1>0, ListFrame DEF Post, PostAppend, ListUnchanged, LoopOK, scbVars, listVars, runVars
<1>2. ASSUME NEW t \in Threads, PostStep(t) PROVE Goal
  <2>1. UNCHANGED <<listVars, runVars, loop>>
    BY <1>2 DEF PostStep, PostCheck, PostSet, PostWrite
  <2>2. \A k \in Lists : UNCHANGED <<m_enabled[k], wakeup_fd[k], raw_event[k]>>
    BY <1>2, <1>0, <1>s DEF PostStep, PostCheck, PostSet, PostWrite, SetEnabled, EventfdWrite, scbVars, TypeOK
  <2> QED
    BY <1>0, <2>1, <2>2, ListFrame DEF ListUnchanged, LoopOK, listVars, runVars
<1>3. ASSUME NEW k \in Lists, NEW o \in Objects, Defer(k, o) PROVE Goal
  <2> DEFINE b == current[k]
  <2>1. b \in 1..2 /\ Other(b) \in 1..2 /\ Other(b) # b /\ k \in Scbs
    BY <1>0, <1>s, OtherType DEF TypeOK
  <2>2. buf' = [buf EXCEPT ![k][b] = Append(@, o)] /\ UNCHANGED <<current, clearing, pos, loop, callbacks>>
    BY <1>3 DEF Defer, runVars
  <2>3. Batch(k)' = Batch(k)
    <3>1. buf'[k][Other(b)] = buf[k][Other(b)]
      BY <2>1, <2>2, <1>0 DEF TypeOK
    <3> QED
      BY <2>2, <3>1 DEF Batch
  <2>4. (m_enabled'[k] => Scheduled(k)') /\ (Scheduled(k)' \/ loop = "down")
    <3>1. CASE Filling(k) = <<>> /\ ~m_enabled[k]
      BY <3>1, <1>3, <1>0, <2>1 DEF Defer, ScheduleCallbackCurrentIteration, Scheduled, TypeOK
    <3>2. CASE Filling(k) # <<>> \/ m_enabled[k]
      <4>1. UNCHANGED scbVars
        BY <3>2, <1>3 DEF Defer, ScheduleCallbackCurrentIteration
      <4> QED
        BY <3>2, <4>1, <1>0 DEF ListOK, Scheduled, scbVars
    <3> QED
      BY <3>1, <3>2
  <2>5. ListOK(k)'
    BY <2>2, <2>3, <2>4, <1>0 DEF ListOK
  <2>6. ASSUME NEW j \in Lists, j # k PROVE ListUnchanged(j)
    <3>1. UNCHANGED <<m_enabled[j], wakeup_fd[j], raw_event[j]>>
      BY <2>6, <1>3, <1>0, <1>s DEF Defer, ScheduleCallbackCurrentIteration, scbVars, TypeOK
    <3>2. buf'[j] = buf[j]
      BY <2>6, <2>2, <1>0 DEF TypeOK
    <3> QED
      BY <2>2, <3>1, <3>2 DEF ListUnchanged
  <2> QED
    BY <1>0, <2>2, <2>5, <2>6, ListFrame DEF LoopOK
<1>4. ASSUME NEW k \in Lists, DisposeNext(k) PROVE Goal
  <2>1. UNCHANGED <<buf, current, clearing, loop, callbacks, m_enabled, wakeup_fd, raw_event>>
    BY <1>4 DEF DisposeNext, scbVars, runVars
  <2>2. pos'[k] = pos[k] + 1 /\ pos[k] < Len(Batch(k)) /\ clearing[k]
    BY <1>4, <1>0 DEF DisposeNext, TopClear, TypeOK
  <2>3. \A j \in Lists \ {k} : pos'[j] = pos[j]
    BY <1>4, <1>0 DEF DisposeNext, TypeOK
  <2>4. Batch(k) \in Seq(Objects) /\ pos[k] \in Nat
    BY <1>0, OtherType DEF TypeOK, Batch
  <2>5. ListOK(k)'
    BY <1>0, <2>1, <2>2, <2>4 DEF ListOK, Batch, Filling, Scheduled
  <2> QED
    BY <1>0, <2>1, <2>3, <2>5, ListFrame DEF ListUnchanged, LoopOK
<1>5. ASSUME NEW k \in Lists, EndClear(k) PROVE Goal
  <2> DEFINE b == Other(current[k])
  <2>1. b \in 1..2 /\ b # current[k] /\ current[k] \in 1..2
    BY <1>0, OtherType DEF TypeOK
  <2>2. /\ UNCHANGED <<current, loop, callbacks, m_enabled, wakeup_fd, raw_event>>
        /\ buf' = [buf EXCEPT ![k][b] = <<>>]
        /\ clearing' = [clearing EXCEPT ![k] = FALSE]
        /\ pos' = [pos EXCEPT ![k] = 0]
    BY <1>5 DEF EndClear, scbVars, runVars
  <2> HIDE DEF b
  <2>3. buf'[k][b] = <<>> /\ buf'[k][current[k]] = buf[k][current[k]]
    BY <2>1, <2>2, <1>0 DEF TypeOK
  <2>4. Batch(k)' = <<>> /\ Filling(k)' = Filling(k) /\ pos'[k] = 0 /\ Len(<<>>) = 0
    BY <2>2, <2>3, <1>0 DEF Batch, Filling, b, TypeOK
  <2>5. ListOK(k)'
    BY <1>0, <2>2, <2>4 DEF ListOK, Scheduled
  <2>6. \A j \in Lists \ {k} : ListUnchanged(j)
    BY <2>2, <1>0 DEF ListUnchanged, TypeOK
  <2>7. \A j \in Lists : clearing'[j] => clearing[j]
    BY <2>2, <1>0 DEF TypeOK
  <2> QED
    BY <1>0, <2>2, <2>5, <2>6, <2>7, ListFrame DEF LoopOK
<1>6. ASSUME NEW k \in Lists, ListCallback(k) PROVE Goal
  <2>1. loop = "poll" /\ TimerCb(k) /\ StartClear(k) /\ loop' \in {"delete_cb", "destroy_cb"} /\ callbacks' = callbacks
    BY <1>6 DEF ListCallback, runVars
  <2>2. ~clearing[k]
    BY <2>1, <1>0 DEF LoopOK
  <2>3. \A j \in Lists : ListOK(j)'
    BY <2>1, <2>2, StartClearList
  <2> QED
    BY <2>1, <2>3, <1>0 DEF LoopOK
<1>7. CASE ClearDeferredDeleteList
  <2>1. StartClear("delete") /\ UNCHANGED <<scbVars, loop, callbacks>> /\ InBody
    BY <1>7 DEF ClearDeferredDeleteList, runVars
  <2>2. loop \notin {"init", "poll", "down"}
    BY <2>1, <1>0 DEF InBody, TopClear, LoopOK
  <2>3. "delete" \in Lists /\ (TimerCb("delete") => ~clearing["delete"])
    <3>1. ~TimerCb("delete")
      BY <2>1, <1>0, <1>s DEF TimerCb, scbVars, TypeOK, Lists
    <3> QED
      BY <3>1 DEF Lists
  <2>4. \A j \in Lists : ListOK(j)'
    BY <2>1, <2>3, StartClearList
  <2> QED
    BY <2>1, <2>2, <2>4, <1>0 DEF LoopOK
<1>8. CASE LoopStep
  <2>1. ASSUME NEW k \in Lists, RunClear(k) PROVE Goal
    <3>1. /\ StartClear(k) /\ UNCHANGED <<scbVars, callbacks>> /\ loop = k
          /\ loop' \in {"destroy", "steal"} /\ ~clearing[k]
      BY <2>1 DEF RunClear, runVars, NoClear
    <3>2. loop # "down" /\ loop \notin {"run", "in_cb"}
      BY <3>1 DEF Lists
    <3>3. \A j \in Lists : ListOK(j)'
      BY <3>1, <3>2, StartClearList
    <3> QED
      BY <3>1, <3>2, <3>3, <1>0 DEF LoopOK
  <2>2. ASSUME UNCHANGED <<scbVars, listVars>>, loop # "down" PROVE \A k \in Lists : ListOK(k)'
    BY <2>2, <1>0, ListFrame DEF ListUnchanged, scbVars, listVars
  <2>3. CASE Steal
    BY <2>2, <2>3, <1>0 DEF Steal, LoopOK
  <2>4. CASE RunNext
    BY <2>2, <2>4, <1>0 DEF RunNext, LoopOK
  <2>5. CASE RunEnd
    <3>1. \A k \in Lists : ~clearing[k]
      BY <2>5 DEF RunEnd, NoClear
    <3> QED
      BY <2>2, <2>5, <3>1 DEF RunEnd, LoopOK, listVars, runVars
  <2>6. CASE ListCallbackReturn \/ EventReturn
    <3>1. \A k \in Lists : ~clearing[k]
      BY <2>6 DEF ListCallbackReturn, EventReturn, NoClear
    <3>2. callbacks = <<>>
      BY <2>6, <1>0 DEF ListCallbackReturn, EventReturn, LoopOK
    <3> QED
      BY <2>2, <2>6, <3>1, <3>2 DEF ListCallbackReturn, EventReturn, LoopOK, listVars, runVars
  <2>7. CASE RunI \/ WorkerLoop
    BY <2>2, <2>7, <1>0 DEF RunI, WorkerLoop, LoopOK, listVars, runVars
  <2> QED
    BY <1>8, <2>1, <2>3, <2>4, <2>5, <2>6, <2>7 DEF LoopStep
<1>9. ASSUME NEW s \in Scbs, Wakeup(s) \/ NextIteration(s) PROVE Goal
  <2>1. UNCHANGED <<listVars, runVars, loop, m_enabled>>
    BY <1>9 DEF Wakeup, NextIteration, WakeupCb, TimeoutExpires
  <2>2. \A k \in Lists : Scheduled(k) => Scheduled(k)'
    BY <1>9, <1>0, <1>s DEF Wakeup, NextIteration, WakeupCb, TimeoutExpires, Scheduled, TypeOK
  <2> QED
    BY <1>0, <2>1, <2>2 DEF ListOK, LoopOK, Batch, Filling, listVars, runVars
<1>10. CASE PostCallback
  <2>1. \A k \in Lists : ListUnchanged(k)
    BY <1>10, <1>0, <1>s DEF PostCallback, TimerCb, TypeOK, ListUnchanged, listVars
  <2> QED
    BY <1>0, <1>10, <2>1, ListFrame DEF PostCallback, LoopOK, runVars
<1>11. CASE Event \/ ShutdownI
  BY <1>11, <1>0, ListFrame DEF Event, ShutdownI, ListUnchanged, LoopOK, scbVars, listVars, runVars
<1>12. CASE UNCHANGED vars
  BY <1>12, <1>0, ListFrame DEF vars, ListUnchanged, LoopOK, scbVars, listVars, runVars
<1> QED
  BY <1>1, <1>2, <1>3, <1>4, <1>5, <1>6, <1>7, <1>8, <1>9, <1>10, <1>11, <1>12 DEF Next, ClearStep

(* At the start both buffers of both lists are empty.                      *)
LEMMA ListInit == Init => ListInv
<1> SUFFICES ASSUME Init PROVE (\A k \in Lists : ListOK(k)) /\ LoopOK
  BY TypeInit DEF ListInv
<1>1. \A k \in Lists : Batch(k) = <<>> /\ Filling(k) = <<>> /\ pos[k] = 0 /\ ~m_enabled[k]
  BY OtherType, ScbsAssumption DEF Init, SchedulableCallbackInit, Batch, Filling, Lists
<1> QED
  BY <1>1 DEF ListOK, LoopOK, Init

(* Every deferred object has its clear scheduled.                          *)
THEOREM DeferredNeverStranded == Spec => []DeferredIsScheduled
<1>1. Spec => []ListInv
  BY ListInit, ListStep, PTL DEF Spec
<1>2. ListInv => DeferredIsScheduled
  BY DEF ListInv, ListOK, DeferredIsScheduled
<1> QED
  BY <1>1, <1>2, PTL

(* Outside a clear the buffer that is not being filled is empty.           *)
THEOREM DoubleBufferCorrect == Spec => []DoubleBuffer
<1>1. Spec => []ListInv
  BY ListInit, ListStep, PTL DEF Spec
<1>2. ListInv => DoubleBuffer
  BY DEF ListInv, ListOK, DoubleBuffer
<1> QED
  BY <1>1, <1>2, PTL

-----------------------------------------------------------------------------
(* The refinements.                                                        *)

(* Every step of the dispatcher puts a callback into the abstract mailbox, *)
(* takes the first one out, closes it, or is a stutter.                    *)
LEMMA PostBoxStep == ListInv /\ [Next]_vars => [PostBox!Next]_(PostBox!vars)
<1> SUFFICES ASSUME ListInv, [Next]_vars PROVE PostBox!Next \/ UNCHANGED PostBox!vars
  OBVIOUS
<1>0. TypeOK /\ LoopOK
  BY DEF ListInv
<1>q. callbacks \in Seq(Callbacks) /\ m_post_callbacks \in Seq(Callbacks)
  BY <1>0 DEF TypeOK
<1>f. ASSUME UNCHANGED <<callbacks, m_post_callbacks, executed>>, (loop = "down") <=> (loop' = "down")
      PROVE  UNCHANGED PostBox!vars
  BY <1>f DEF PostBox!vars, closedDown
<1>1. ASSUME NEW t \in Threads, NEW c \in Callbacks, Post(t, c) PROVE PostBox!Put(c)
  <2>1. m_post_callbacks' = Append(m_post_callbacks, c) /\ UNCHANGED <<callbacks, executed, loop>>
    BY <1>1 DEF Post, PostAppend, runVars
  <2>2. callbacks \o Append(m_post_callbacks, c) = Append(callbacks \o m_post_callbacks, c)
    BY <1>q, ConcatAppend
  <2>3. PostBox!Fresh(c)
    <3>1. c \notin Range(callbacks) /\ c \notin Range(m_post_callbacks) /\ c \notin Range(executed)
      BY <1>1 DEF Post, PostAppend, FreshCallback
    <3>2. \A i \in DOMAIN (callbacks \o m_post_callbacks) : (callbacks \o m_post_callbacks)[i] # c
      BY <1>q, <3>1, ConcatFresh
    <3> QED
      BY <3>1, <3>2 DEF PostBox!Fresh, Range
  <2> QED
    BY <2>1, <2>2, <2>3 DEF PostBox!Put, closedDown
<1>2. CASE RunNext
  <2>1. /\ callbacks # <<>> /\ callbacks' = Tail(callbacks) /\ executed' = Append(executed, Head(callbacks))
        /\ m_post_callbacks' = m_post_callbacks /\ loop # "down" /\ loop' # "down"
    BY <1>2 DEF RunNext, postVars
  <2>2. /\ callbacks \o m_post_callbacks # <<>>
        /\ Head(callbacks \o m_post_callbacks) = Head(callbacks)
        /\ Tail(callbacks \o m_post_callbacks) = Tail(callbacks) \o m_post_callbacks
    BY <1>q, <2>1, ConcatHeadTail
  <2>3. PostBox!Take
    BY <2>1, <2>2 DEF PostBox!Take, closedDown
  <2> QED
    BY <2>3 DEF PostBox!Next
<1>3. CASE Steal
  <2>1. /\ callbacks = <<>> /\ callbacks' = m_post_callbacks /\ m_post_callbacks' = <<>>
        /\ executed' = executed /\ loop # "down" /\ loop' # "down"
    BY <1>3, <1>0 DEF Steal, LoopOK
  <2>2. callbacks' \o m_post_callbacks' = callbacks \o m_post_callbacks
    BY <2>1, <1>q, ConcatEmptySeq
  <2> QED
    BY <2>1, <2>2 DEF PostBox!vars, closedDown
<1>4. CASE ShutdownI
  <2>1. loop = "poll" /\ loop' = "down" /\ UNCHANGED <<callbacks, m_post_callbacks, executed>>
    BY <1>4 DEF ShutdownI, postVars, runVars
  <2>2. PostBox!Close
    BY <2>1 DEF PostBox!Close, closedDown
  <2> QED
    BY <2>2 DEF PostBox!Next
<1>5. ASSUME \/ \E t \in Threads : PostStep(t)
             \/ \E k \in Lists, o \in Objects : Defer(k, o)
             \/ \E k \in Lists : ClearStep(k)
             \/ ClearDeferredDeleteList
             \/ \E s \in Scbs : Wakeup(s) \/ NextIteration(s)
             \/ UNCHANGED vars
      PROVE  UNCHANGED PostBox!vars
  <2>1. UNCHANGED <<callbacks, m_post_callbacks, executed, loop>>
    BY <1>5 DEF PostStep, PostCheck, PostSet, PostWrite, Defer, ClearStep, DisposeNext, EndClear,
       ClearDeferredDeleteList, Wakeup, NextIteration, vars, postVars, runVars
  <2> QED
    BY <2>1, <1>f
<1>6. ASSUME \/ \E k \in Lists : ListCallback(k) \/ RunClear(k)
             \/ RunI \/ WorkerLoop \/ RunEnd \/ ListCallbackReturn \/ EventReturn
             \/ PostCallback \/ Event
      PROVE  UNCHANGED PostBox!vars
  <2>1. UNCHANGED <<callbacks, m_post_callbacks, executed>>
    BY <1>6 DEF ListCallback, RunClear, RunI, WorkerLoop, RunEnd, ListCallbackReturn, EventReturn,
       PostCallback, Event, postVars, runVars
  <2>2. loop # "down" /\ loop' # "down"
    BY <1>6 DEF ListCallback, RunClear, RunI, WorkerLoop, RunEnd, ListCallbackReturn, EventReturn,
       PostCallback, Event, Lists
  <2> QED
    BY <2>1, <2>2, <1>f
<1>7. (\E c \in Callbacks : PostBox!Put(c)) => PostBox!Next
  BY DEF PostBox!Next
<1> QED
  BY <1>1, <1>2, <1>3, <1>4, <1>5, <1>6, <1>7 DEF Next, LoopStep

(* Posting implements the FIFO mailbox: every callback is run at most      *)
(* once, and in the order of the appends of all threads together.          *)
THEOREM PostRefinesMailbox == Spec => PostIsMailbox
<1>1. Init => PostBox!Init
  BY ConcatEmptySeq, EmptySeq DEF Init, PostBox!Init, closedDown
<1>2. Spec => []ListInv
  BY ListInit, ListStep, PTL DEF Spec
<1> QED
  BY <1>1, <1>2, PostBoxStep, PTL DEF Spec, PostBox!Spec, PostIsMailbox

(* The rest of a batch after one more disposal.                            *)
LEMMA BatchTail ==
    ASSUME NEW S, NEW s \in Seq(S), NEW n \in Nat, n < Len(s)
    PROVE  /\ SubSeq(s, n + 1, Len(s)) \in Seq(S)
           /\ SubSeq(s, n + 1, Len(s)) # <<>>
           /\ Head(SubSeq(s, n + 1, Len(s))) = s[n + 1]
           /\ Tail(SubSeq(s, n + 1, Len(s))) = SubSeq(s, n + 2, Len(s))
<1>1. Len(s) \in Nat /\ \A i \in 1..Len(s) : s[i] \in S
  BY ElementOfSeq, LenProperties
<1> DEFINE r == SubSeq(s, n + 1, Len(s))
           q == SubSeq(s, n + 2, Len(s))
<1>2. /\ r \in Seq(S)
      /\ Len(r) = Len(s) - n
      /\ \A i \in 1..Len(s) - n : r[i] = s[n + i]
  BY <1>1
<1>3. /\ q \in Seq(S)
      /\ Len(q) = Len(s) - n - 1
      /\ \A i \in 1..Len(s) - n - 1 : q[i] = s[n + 1 + i]
  BY <1>1
<1> HIDE DEF r, q
<1>4. r # <<>>
  BY <1>1, <1>2, EmptySeq
<1>5. Head(r) = s[n + 1]
  BY <1>1, <1>2, <1>4
<1>6. /\ Tail(r) \in Seq(S)
      /\ Len(Tail(r)) = Len(r) - 1
      /\ \A i \in 1..Len(Tail(r)) : Tail(r)[i] = r[i + 1]
  BY <1>2, <1>4, HeadTailProperties
<1>7. \A i \in 1..Len(q) : Tail(r)[i] = q[i]
  <2> SUFFICES ASSUME NEW i \in 1..Len(s) - n - 1 PROVE Tail(r)[i] = q[i]
    BY <1>3
  <2>1. i + 1 \in 1..Len(s) - n /\ n + (i + 1) = n + 1 + i /\ i \in 1..Len(Tail(r))
    BY <1>1, <1>2, <1>6
  <2> QED
    BY <2>1, <1>2, <1>3, <1>6
<1>8. Tail(r) = q
  BY <1>1, <1>2, <1>3, <1>6, <1>7, SeqEqual
<1> QED
  BY <1>2, <1>4, <1>5, <1>8 DEF r, q

(* The rest of a batch is the whole of it before the first dispose and     *)
(* nothing after the last.                                                 *)
LEMMA WholeBatch ==
    ASSUME NEW S, NEW s \in Seq(S)
    PROVE  SubSeq(s, 0 + 1, Len(s)) = s /\ SubSeq(s, Len(s) + 1, Len(s)) = <<>>
<1>1. Len(s) \in Nat /\ \A i \in 1..Len(s) : s[i] \in S
  BY ElementOfSeq, LenProperties
<1> DEFINE r == SubSeq(s, 0 + 1, Len(s))
<1>2. r \in Seq(S) /\ Len(r) = Len(s) /\ \A i \in 1..Len(s) : r[i] = s[i]
  BY <1>1
<1> HIDE DEF r
<1>3. r = s
  BY <1>2, SeqEqual
<1>4. SubSeq(s, Len(s) + 1, Len(s)) = <<>>
  BY <1>1, SubSeqEmpty
<1> QED
  BY <1>3, <1>4 DEF r

(* What one step may do to what is pending in list k.                      *)
ListPut(k) ==
    \E o \in Objects :
        /\ \A i \in DOMAIN Pending(k) : Pending(k)[i] # o
        /\ \A i \in DOMAIN disposed[k] : disposed[k][i] # o
        /\ Pending(k)' = Append(Pending(k), o)
        /\ disposed'[k] = disposed[k]
ListTake(k) ==
    /\ Pending(k) # <<>>
    /\ disposed'[k] = Append(disposed[k], Head(Pending(k)))
    /\ Pending(k)' = Tail(Pending(k))
    /\ loop # "down" /\ loop' # "down"
ListSame(k) == Pending(k)' = Pending(k) /\ disposed'[k] = disposed[k]

(* Every step defers an object at the end of a list, disposes of the first *)
(* one that waits, or leaves the list as it is.                            *)
LEMMA ListBoxStep ==
    ASSUME NEW k \in Lists, ListInv, [Next]_vars
    PROVE  \/ ListPut(k) /\ UNCHANGED loop
           \/ ListTake(k)
           \/ ListSame(k) /\ (loop = "down" => loop' = "down")
<1>0. TypeOK /\ LoopOK /\ \A j \in Lists : ListOK(j)
  BY DEF ListInv
<1>b. /\ Batch(k) \in Seq(Objects) /\ Filling(k) \in Seq(Objects) /\ pos[k] \in Nat
      /\ Len(Batch(k)) \in Nat /\ current[k] \in 1..2 /\ Other(current[k]) \in 1..2
      /\ Other(current[k]) # current[k]
  BY <1>0, OtherType, LenProperties DEF TypeOK, Batch, Filling
<1>f. ASSUME UNCHANGED <<buf[k], current[k], pos[k], disposed[k]>> PROVE ListSame(k)
  BY <1>f DEF ListSame, Pending, Batch, Filling
<1>c. ASSUME NEW j \in Lists, StartClear(j) PROVE ListSame(k)
  <2>1. CASE j # k \/ clearing[j] \/ Filling(j) = <<>>
    <3>1. UNCHANGED <<buf[k], current[k], pos[k], disposed[k]>>
      BY <1>c, <2>1, <1>0 DEF StartClear, listVars, TypeOK
    <3> QED
      BY <3>1, <1>f
  <2>2. CASE j = k /\ ~clearing[k] /\ Filling(k) # <<>>
    <3>1. Batch(k) = <<>> /\ pos[k] = 0
      BY <2>2, <1>0 DEF ListOK
    <3>2. /\ current'[k] = Other(current[k]) /\ Other(current'[k]) = current[k]
          /\ pos'[k] = 0 /\ buf' = buf /\ disposed' = disposed
      BY <1>c, <2>2, <1>0, OtherType DEF StartClear, TypeOK
    <3>3. Batch(k)' = Filling(k) /\ Filling(k)' = <<>>
      BY <3>1, <3>2 DEF Batch, Filling
    <3>4. Pending(k) = Filling(k)
      <4>1. SubSeq(Batch(k), 0 + 1, Len(Batch(k))) = <<>>
        BY <3>1, <1>b, WholeBatch
      <4> QED
        BY <4>1, <3>1, <1>b, ConcatEmptySeq DEF Pending
    <3>5. Pending(k)' = Filling(k)
      <4>1. Pending(k)' = SubSeq(Filling(k), 0 + 1, Len(Filling(k))) \o <<>>
        BY <3>2, <3>3 DEF Pending
      <4> QED
        BY <4>1, <1>b, WholeBatch, ConcatEmptySeq
    <3> QED
      BY <3>2, <3>4, <3>5 DEF ListSame
  <2> QED
    BY <2>1, <2>2
<1>1. ASSUME NEW j \in Lists, NEW o \in Objects, Defer(j, o)
      PROVE  (ListPut(k) \/ ListSame(k)) /\ UNCHANGED loop
  <2>1. /\ buf' = [buf EXCEPT ![j][current[j]] = Append(@, o)]
        /\ UNCHANGED <<current, pos, disposed, loop>>
    BY <1>1 DEF Defer
  <2>2. CASE j # k
    <3>1. buf'[k] = buf[k]
      BY <2>1, <2>2, <1>0 DEF TypeOK
    <3> QED
      BY <2>1, <3>1, <1>f
  <2>3. CASE j = k
    <3> DEFINE b == current[k]
               r == SubSeq(Batch(k), pos[k] + 1, Len(Batch(k)))
    <3>1. buf'[k][b] = Append(buf[k][b], o) /\ buf'[k][Other(b)] = buf[k][Other(b)]
      BY <2>1, <2>3, <1>0, <1>b DEF TypeOK
    <3>2. Filling(k)' = Append(Filling(k), o) /\ Batch(k)' = Batch(k)
      BY <3>1, <2>1 DEF Filling, Batch
    <3>3. r \in Seq(Objects)
      BY <1>b, SubSeqProperties, ElementOfSeq
    <3>4. Pending(k)' = r \o Append(Filling(k), o)
      BY <3>2, <2>1 DEF Pending
    <3>5. Pending(k) = r \o Filling(k)
      BY DEF Pending
    <3> HIDE DEF r
    <3>6. r \o Append(Filling(k), o) = Append(r \o Filling(k), o)
      BY <3>3, <1>b, ConcatAppend
    <3>7. o \notin Range(Batch(k)) /\ o \notin Range(Filling(k)) /\ o \notin Range(disposed[k])
      BY <1>1, <1>b DEF Defer, FreshObject, Batch, Filling
    <3>8. \A i \in DOMAIN Pending(k) : Pending(k)[i] # o
      <4>1. o \notin Range(r)
        BY <3>7, <1>b, TailFresh DEF r
      <4> QED
        BY <3>3, <3>5, <3>7, <4>1, <1>b, ConcatFresh
    <3> QED
      BY <2>1, <3>4, <3>5, <3>6, <3>7, <3>8 DEF ListPut, Range
  <2> QED
    BY <2>2, <2>3
<1>2. ASSUME NEW j \in Lists, DisposeNext(j)
      PROVE  (ListTake(k) \/ ListSame(k)) /\ UNCHANGED loop
  <2>1. /\ pos' = [pos EXCEPT ![j] = @ + 1]
        /\ disposed' = [disposed EXCEPT ![j] = Append(@, Batch(j)[pos[j] + 1])]
        /\ clearing[j] /\ pos[j] < Len(Batch(j)) /\ UNCHANGED <<buf, current, loop>>
    BY <1>2 DEF DisposeNext, TopClear
  <2>2. CASE j # k
    <3>1. pos'[k] = pos[k] /\ disposed'[k] = disposed[k]
      BY <2>1, <2>2, <1>0 DEF TypeOK
    <3> QED
      BY <2>1, <3>1, <1>f
  <2>3. CASE j = k
    <3> DEFINE s == Batch(k)
               r == SubSeq(s, pos[k] + 1, Len(s))
    <3>1. /\ r \in Seq(Objects) /\ r # <<>> /\ Head(r) = s[pos[k] + 1]
          /\ Tail(r) = SubSeq(s, pos[k] + 2, Len(s))
      BY <2>1, <2>3, <1>b, BatchTail
    <3>2. pos'[k] + 1 = pos[k] + 2 /\ disposed'[k] = Append(disposed[k], s[pos[k] + 1])
      BY <2>1, <2>3, <1>0, <1>b DEF TypeOK
    <3>3. Batch(k)' = s /\ Filling(k)' = Filling(k)
      BY <2>1 DEF Batch, Filling
    <3>4. Pending(k)' = Tail(r) \o Filling(k)
      BY <3>1, <3>2, <3>3 DEF Pending
    <3>5. Pending(k) = r \o Filling(k)
      BY DEF Pending
    <3>6. disposed'[k] = Append(disposed[k], Head(r))
      BY <3>1, <3>2
    <3> HIDE DEF r, s
    <3>7. /\ r \o Filling(k) # <<>>
          /\ Head(r \o Filling(k)) = Head(r)
          /\ Tail(r \o Filling(k)) = Tail(r) \o Filling(k)
      BY <3>1, <1>b, ConcatHeadTail
    <3>8. loop # "down"
      BY <2>1, <1>0 DEF LoopOK
    <3> QED
      BY <2>1, <3>4, <3>5, <3>6, <3>7, <3>8 DEF ListTake
  <2> QED
    BY <2>2, <2>3
<1>3. ASSUME NEW j \in Lists, EndClear(j) PROVE ListSame(k) /\ UNCHANGED loop
  <2>1. /\ buf' = [buf EXCEPT ![j][Other(current[j])] = <<>>]
        /\ pos' = [pos EXCEPT ![j] = 0] /\ pos[j] = Len(Batch(j))
        /\ UNCHANGED <<current, disposed, loop>>
    BY <1>3 DEF EndClear
  <2>2. CASE j # k
    <3>1. buf'[k] = buf[k] /\ pos'[k] = pos[k]
      BY <2>1, <2>2, <1>0 DEF TypeOK
    <3> QED
      BY <2>1, <3>1, <1>f
  <2>3. CASE j = k
    <3> DEFINE b == Other(current[k])
    <3>1. b \in 1..2 /\ b # current[k] /\ buf' = [buf EXCEPT ![k][b] = <<>>]
      BY <2>1, <2>3, <1>b
    <3> HIDE DEF b
    <3>2. buf'[k][b] = <<>> /\ buf'[k][current[k]] = buf[k][current[k]]
      BY <3>1, <1>b, <1>0 DEF TypeOK
    <3>3. Batch(k)' = <<>> /\ Filling(k)' = Filling(k) /\ pos'[k] = 0
      BY <3>2, <2>1, <2>3, <1>0 DEF Batch, Filling, b, TypeOK
    <3>4. Pending(k) = <<>> \o Filling(k)
      <4>1. SubSeq(Batch(k), Len(Batch(k)) + 1, Len(Batch(k))) = <<>>
        BY <1>b, WholeBatch
      <4> QED
        BY <4>1, <2>1, <2>3 DEF Pending
    <3>5. Pending(k)' = <<>> \o Filling(k)
      <4>1. <<>> \in Seq(Objects) /\ SubSeq(<<>>, 0 + 1, Len(<<>>)) = <<>>
        BY EmptySeq, WholeBatch
      <4> QED
        BY <4>1, <3>3 DEF Pending
    <3> QED
      BY <2>1, <3>4, <3>5 DEF ListSame
  <2> QED
    BY <2>2, <2>3
<1>4. ASSUME NEW j \in Lists, ListCallback(j) \/ RunClear(j)
      PROVE  ListSame(k) /\ loop # "down"
  BY <1>4, <1>c DEF ListCallback, RunClear, Lists
<1>5. CASE ClearDeferredDeleteList
  BY <1>5, <1>c DEF ClearDeferredDeleteList, Lists
<1>6. ASSUME \/ \E t \in Threads, c \in Callbacks : Post(t, c)
             \/ \E t \in Threads : PostStep(t)
             \/ \E s \in Scbs : Wakeup(s) \/ NextIteration(s)
             \/ UNCHANGED vars
      PROVE  ListSame(k) /\ UNCHANGED loop
  <2>1. UNCHANGED <<listVars, loop>>
    BY <1>6 DEF Post, PostAppend, PostStep, PostCheck, PostSet, PostWrite, Wakeup, NextIteration, vars
  <2> QED
    BY <2>1, <1>f DEF listVars
<1>7. ASSUME \/ RunI \/ WorkerLoop \/ Steal \/ RunNext \/ RunEnd \/ ListCallbackReturn
             \/ EventReturn \/ PostCallback \/ Event \/ ShutdownI
      PROVE  ListSame(k) /\ loop # "down"
  <2>1. UNCHANGED listVars /\ loop # "down"
    BY <1>7 DEF RunI, WorkerLoop, Steal, RunNext, RunEnd, ListCallbackReturn, EventReturn,
       PostCallback, Event, ShutdownI
  <2> QED
    BY <2>1, <1>f DEF listVars
<1> QED
  BY <1>1, <1>2, <1>3, <1>4, <1>5, <1>6, <1>7 DEF Next, LoopStep, ClearStep

(* At the start nothing is deferred and nothing was disposed of.           *)
LEMMA ListBoxInit == ASSUME Init, NEW k \in Lists PROVE Pending(k) = <<>> /\ disposed[k] = <<>>
<1>1. Batch(k) = <<>> /\ Filling(k) = <<>> /\ pos[k] = 0 /\ disposed[k] = <<>>
  BY OtherType DEF Init, Batch, Filling
<1>2. <<>> \in Seq(Objects) /\ SubSeq(<<>>, 0 + 1, Len(<<>>)) = <<>>
  BY EmptySeq, WholeBatch
<1>3. <<>> \o <<>> = <<>>
  BY <1>2, ConcatEmptySeq
<1> QED
  BY <1>1, <1>2, <1>3 DEF Pending

(* Deferred deletion and deferred destruction implement the FIFO mailbox:  *)
(* every object is disposed of at most once, in the order of the           *)
(* hand-overs, whichever of the clears reaches it.                         *)
THEOREM DeferredRefinesMailbox == Spec => DeferredIsMailbox
<1>k. "delete" \in Lists /\ "destroy" \in Lists
  BY DEF Lists
<1>1. Init => DeleteBox!Init /\ DestroyBox!Init
  BY <1>k, ListBoxInit DEF Init, DeleteBox!Init, DestroyBox!Init, closedDown
<1>2. Spec => []ListInv
  BY ListInit, ListStep, PTL DEF Spec
<1>3. ListInv /\ [Next]_vars => [DeleteBox!Next]_(DeleteBox!vars)
  BY <1>k, ListBoxStep DEF ListPut, ListTake, ListSame, closedDown, DeleteBox!Next, DeleteBox!vars,
     DeleteBox!Put, DeleteBox!Fresh, DeleteBox!Take, DeleteBox!Close
<1>4. ListInv /\ [Next]_vars => [DestroyBox!Next]_(DestroyBox!vars)
  BY <1>k, ListBoxStep DEF ListPut, ListTake, ListSame, closedDown, DestroyBox!Next, DestroyBox!vars,
     DestroyBox!Put, DestroyBox!Fresh, DestroyBox!Take, DestroyBox!Close
<1> QED
  BY <1>1, <1>2, <1>3, <1>4, PTL DEF Spec, DeleteBox!Spec, DestroyBox!Spec, DeferredIsMailbox
=============================================================================
