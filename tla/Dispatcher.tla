----------------------------- MODULE Dispatcher -----------------------------
(***************************************************************************)
(* event/rp-dispatcher-impl.c: one dispatcher, the loop thread that runs   *)
(* it, and the threads that post to it.                                    *)
(*                                                                         *)
(*  - post_i may be called by every thread, the loop thread's own          *)
(*    callbacks included.  The list of post contexts is under a mutex; the *)
(*    scheduling of m_post_cb that follows is not.                         *)
(*  - deferred_delete(_take), deferred_destroy and the two lists they fill *)
(*    belong to the loop thread.  Each list is a pair of buffers: one      *)
(*    being filled, one being cleared.                                     *)
(*  - code of the rest of the proxy (a post callback, the dispose of a     *)
(*    deleted object, the handler of a socket event) is a body that may    *)
(*    call any of these operations, any number of times.                   *)
(***************************************************************************)
EXTENDS SchedulableCallback, Sequences, FiniteSets, Functions

CONSTANTS
    Posters,        \* threads other than the loop thread
    Loop,           \* the loop thread
    Callbacks,      \* RpPostCbCtx allocations: each is posted once
    Objects         \* objects and blocks handed over for deferred clearing

\* The two deferred lists: GObjects to unref, pointer nodes to destroy.
Lists == {"delete", "destroy"}

ASSUME ScbsAssumption == Scbs = {"post", "delete", "destroy"}
ASSUME LoopAssumption == Loop \notin Posters

Threads == Posters \cup {Loop}

VARIABLES
    m_post_callbacks,   \* Seq(Callbacks), guarded by m_post_lock
    pc,                 \* [Threads -> PostPc], progress within post_i
    loop,               \* what the loop thread is executing
    callbacks,          \* Seq(Callbacks), run_post_callbacks' stolen list
    executed,           \* Seq(Callbacks), history: callbacks that were run
    buf,                \* [Lists -> [1..2 -> Seq(Objects)]], m_to_delete_1/2
    current,            \* [Lists -> 1..2], m_current_to_delete / _destroy
    clearing,           \* [Lists -> BOOLEAN], m_deferred_deleting / _destroying
    pos,                \* [Lists -> Nat], objects of the batch disposed so far
    disposed            \* [Lists -> Seq(Objects)], history of the disposals

postVars == <<m_post_callbacks, pc>>
runVars  == <<callbacks, executed>>
listVars == <<buf, current, clearing, pos, disposed>>
vars     == <<scbVars, postVars, runVars, listVars, loop>>

\* Outside post_i; about to test, to set m_enabled, to write the eventfd.
PostPc == {"idle", "check", "set", "write"}

\* "init"      before the loop is started
\* "poll"      inside event_base_loop, no callback of ours on the stack
\* "event"     in the handler of some other libevent event
\* "delete", "destroy", "steal"   run_post_callbacks: about to clear the
\*             delete list, the destroy list, to take over m_post_callbacks
\* "run"       run_post_callbacks: before its first callback
\* "in_cb"     run_post_callbacks: in a callback
\* "delete_cb", "destroy_cb"      timer_cb of the list's own callback
\* "down"      after shutdown_i
LoopPc == {"init", "poll", "event", "delete", "destroy", "steal", "run",
           "in_cb", "delete_cb", "destroy_cb", "down"}

Other(b) == 3 - b
Filling(k) == buf[k][current[k]]
Batch(k) == buf[k][Other(current[k])]

TypeOK ==
    /\ m_enabled \in [Scbs -> BOOLEAN]
    /\ wakeup_fd \in [Scbs -> Nat]
    /\ raw_event \in [Scbs -> RawStates]
    /\ m_post_callbacks \in Seq(Callbacks)
    /\ pc \in [Threads -> PostPc]
    /\ loop \in LoopPc
    /\ callbacks \in Seq(Callbacks)
    /\ executed \in Seq(Callbacks)
    /\ buf \in [Lists -> [1..2 -> Seq(Objects)]]
    /\ current \in [Lists -> 1..2]
    /\ clearing \in [Lists -> BOOLEAN]
    /\ pos \in [Lists -> Nat]
    /\ disposed \in [Lists -> Seq(Objects)]

(* rp_dispatcher_impl_new / constructed.                                   *)
Init ==
    /\ SchedulableCallbackInit
    /\ m_post_callbacks = <<>>
    /\ pc = [t \in Threads |-> "idle"]
    /\ loop = "init"
    /\ callbacks = <<>>
    /\ executed = <<>>
    /\ buf = [k \in Lists |-> [b \in 1..2 |-> <<>>]]
    /\ current = [k \in Lists |-> 1]
    /\ clearing = [k \in Lists |-> FALSE]
    /\ pos = [k \in Lists |-> 0]
    /\ disposed = [k \in Lists |-> <<>>]

-----------------------------------------------------------------------------
(* The loop thread's stack.  A clear of the delete list can be on top of   *)
(* one of the destroy list (a destroy_cb may call                          *)
(* clear_deferred_delete_list), and both on top of what "loop" says.       *)

TopClear(k) ==
    /\ clearing[k]
    /\ k = "destroy" => ~clearing["delete"]
    /\ pc[Loop] = "idle"

NoClear == (\A k \in Lists : ~clearing[k]) /\ pc[Loop] = "idle"

\* The loop thread is executing code of the rest of the proxy.
InBody ==
    \/ \E k \in Lists : TopClear(k) /\ pos[k] > 0
    \/ NoClear /\ loop \in {"event", "in_cb"}

-----------------------------------------------------------------------------
(* post_i.                                                                 *)

\* Every post context is a fresh allocation.
FreshCallback(c) == c \notin Range(m_post_callbacks) \cup Range(callbacks) \cup Range(executed)

\* Mutant: g_list_prepend in place of the append.
PostPrepend(t, c) ==
    /\ pc[t] = "idle"
    /\ FreshCallback(c)
    /\ pc' = [pc EXCEPT ![t] = IF m_post_callbacks = <<>> THEN "check" ELSE "idle"]
    /\ m_post_callbacks' = <<c>> \o m_post_callbacks
    /\ UNCHANGED <<scbVars, runVars, listVars, loop>>

(* The critical section, and the value of do_post: the list was empty.     *)
PostAppend(t, c) ==
    /\ pc[t] = "idle"
    /\ FreshCallback(c)
    /\ pc' = [pc EXCEPT ![t] = IF m_post_callbacks = <<>> THEN "check" ELSE "idle"]
    /\ m_post_callbacks' = Append(m_post_callbacks, c)
    /\ UNCHANGED <<scbVars, runVars, listVars, loop>>

(* A poster thread, or a body on the loop thread, calls post_i.            *)
Post(t, c) == (t = Loop => InBody) /\ PostAppend(t, c)

(* schedule_callback_current_iteration(m_post_cb): nothing happens when    *)
(* m_post_cb has been cleared by shutdown_i or is already enabled.         *)
PostCheck(t) ==
    /\ pc[t] = "check"
    /\ pc' = [pc EXCEPT ![t] = IF loop = "down" \/ m_enabled["post"]
                               THEN "idle" ELSE "set"]
    /\ UNCHANGED <<scbVars, m_post_callbacks, runVars, listVars, loop>>

PostSet(t) ==
    /\ pc[t] = "set"
    /\ SetEnabled("post")
    /\ pc' = [pc EXCEPT ![t] = "write"]
    /\ UNCHANGED <<m_post_callbacks, runVars, listVars, loop>>

PostWrite(t) ==
    /\ pc[t] = "write"
    /\ EventfdWrite("post")
    /\ pc' = [pc EXCEPT ![t] = "idle"]
    /\ UNCHANGED <<m_post_callbacks, runVars, listVars, loop>>

-----------------------------------------------------------------------------
(* The deferred lists.                                                     *)

\* Ownership of an object is handed over once.
FreshObject(o) ==
    \A k \in Lists : o \notin Range(buf[k][1]) \cup Range(buf[k][2]) \cup Range(disposed[k])

\* Mutant: during a clear the callback is thought to be scheduled already.
DeferTrustsClear(k, o) ==
    /\ InBody
    /\ FreshObject(o)
    /\ buf' = [buf EXCEPT ![k][current[k]] = Append(@, o)]
    /\ IF Filling(k) = <<>> /\ ~clearing[k]
       THEN ScheduleCallbackCurrentIteration(k)
       ELSE UNCHANGED scbVars
    /\ UNCHANGED <<postVars, runVars, loop, current, clearing, pos, disposed>>

(* deferred_delete_take_i (enqueue_deferred_unref_) and deferred_destroy_i:*)
(* the first object of a buffer schedules the list's callback.             *)
Defer(k, o) ==
    /\ InBody
    /\ FreshObject(o)
    /\ buf' = [buf EXCEPT ![k][current[k]] = Append(@, o)]
    /\ IF Filling(k) = <<>>
       THEN ScheduleCallbackCurrentIteration(k)
       ELSE UNCHANGED scbVars
    /\ UNCHANGED <<postVars, runVars, loop, current, clearing, pos, disposed>>

\* Mutants: no guard against re-entry; the index of the buffer being filled
\* does not wrap around.
StartClearReentrant(k) ==
    IF Filling(k) = <<>>
    THEN UNCHANGED listVars
    ELSE /\ current' = [current EXCEPT ![k] = Other(@)]
         /\ clearing' = [clearing EXCEPT ![k] = TRUE]
         /\ pos' = [pos EXCEPT ![k] = 0]
         /\ UNCHANGED <<buf, disposed>>

StartClearNoWrap(k) ==
    IF clearing[k] \/ Filling(k) = <<>>
    THEN UNCHANGED listVars
    ELSE /\ current' = [current EXCEPT ![k] = @ + 1]
         /\ clearing' = [clearing EXCEPT ![k] = TRUE]
         /\ pos' = [pos EXCEPT ![k] = 0]
         /\ UNCHANGED <<buf, disposed>>

(* internal_clear_deferred_delete_list / _destroy_list, up to its loop.    *)
StartClear(k) ==
    IF clearing[k] \/ Filling(k) = <<>>
    THEN UNCHANGED listVars
    ELSE /\ current' = [current EXCEPT ![k] = Other(@)]
         /\ clearing' = [clearing EXCEPT ![k] = TRUE]
         /\ pos' = [pos EXCEPT ![k] = 0]
         /\ UNCHANGED <<buf, disposed>>

(* One turn of the loop: unref (or destroy_cb) of the next object, whose   *)
(* dispose is a body that lasts until the next turn.                       *)
DisposeNext(k) ==
    /\ TopClear(k)
    /\ pos[k] < Len(Batch(k))
    /\ pos' = [pos EXCEPT ![k] = @ + 1]
    /\ disposed' = [disposed EXCEPT ![k] = Append(@, Batch(k)[pos[k] + 1])]
    /\ UNCHANGED <<scbVars, postVars, runVars, loop, buf, current, clearing>>

(* g_array_set_size to 0 of the batch, m_deferred_deleting = false.        *)
EndClear(k) ==
    /\ TopClear(k)
    /\ pos[k] = Len(Batch(k))
    /\ buf' = [buf EXCEPT ![k][Other(current[k])] = <<>>]
    /\ clearing' = [clearing EXCEPT ![k] = FALSE]
    /\ pos' = [pos EXCEPT ![k] = 0]
    /\ UNCHANGED <<scbVars, postVars, runVars, loop, current, disposed>>

(* rp_dispatcher_clear_deferred_delete_list, called by a body: a no-op     *)
(* inside a dispose.                                                       *)
ClearDeferredDeleteList ==
    /\ InBody
    /\ StartClear("delete")
    /\ UNCHANGED <<scbVars, postVars, runVars, loop>>

(* timer_cb of m_deferred_delete_cb or m_deferred_destroy_cb, then the     *)
(* return from its clear.                                                  *)
ListCallback(k) ==
    /\ loop = "poll"
    /\ TimerCb(k)
    /\ StartClear(k)
    /\ loop' = IF k = "delete" THEN "delete_cb" ELSE "destroy_cb"
    /\ UNCHANGED <<postVars, runVars>>

ListCallbackReturn ==
    /\ loop \in {"delete_cb", "destroy_cb"}
    /\ NoClear
    /\ loop' = "poll"
    /\ UNCHANGED <<scbVars, postVars, runVars, listVars>>

-----------------------------------------------------------------------------
(* The loop.                                                               *)

(* run_i calls run_post_callbacks before it enters the loop.               *)
RunI ==
    /\ loop = "init"
    /\ loop' = "delete"
    /\ UNCHANGED <<scbVars, postVars, runVars, listVars>>

(* Worker threads do not use run_i: libevhtp enters event_base_loop.       *)
WorkerLoop ==
    /\ loop = "init"
    /\ loop' = "poll"
    /\ UNCHANGED <<scbVars, postVars, runVars, listVars>>

Wakeup(s) ==
    /\ loop = "poll"
    /\ WakeupCb(s)
    /\ UNCHANGED <<postVars, runVars, listVars, loop>>

NextIteration(s) ==
    /\ loop = "poll"
    /\ TimeoutExpires(s)
    /\ UNCHANGED <<postVars, runVars, listVars, loop>>

(* timer_cb of m_post_cb calls run_post_callbacks.                         *)
PostCallback ==
    /\ loop = "poll"
    /\ TimerCb("post")
    /\ loop' = "delete"
    /\ UNCHANGED <<postVars, runVars, listVars>>

(* run_post_callbacks: both lists are cleared first...                     *)
RunClear(k) ==
    /\ loop = k
    /\ NoClear
    /\ StartClear(k)
    /\ loop' = IF k = "delete" THEN "destroy" ELSE "steal"
    /\ UNCHANGED <<scbVars, postVars, runVars>>

(* ... then the list is taken over, under the lock...                      *)
Steal ==
    /\ loop = "steal"
    /\ NoClear
    /\ callbacks' = m_post_callbacks
    /\ m_post_callbacks' = <<>>
    /\ loop' = "run"
    /\ UNCHANGED <<scbVars, pc, executed, listVars>>

(* ... and its callbacks are run in order.                                 *)
RunNext ==
    /\ loop \in {"run", "in_cb"}
    /\ NoClear
    /\ callbacks # <<>>
    /\ executed' = Append(executed, Head(callbacks))
    /\ callbacks' = Tail(callbacks)
    /\ loop' = "in_cb"
    /\ UNCHANGED <<scbVars, postVars, listVars>>

RunEnd ==
    /\ loop \in {"run", "in_cb"}
    /\ NoClear
    /\ callbacks = <<>>
    /\ loop' = "poll"
    /\ UNCHANGED <<scbVars, postVars, runVars, listVars>>

(* Any other event of the loop: a socket, a timer, a signal.               *)
Event ==
    /\ loop = "poll"
    /\ loop' = "event"
    /\ UNCHANGED <<scbVars, postVars, runVars, listVars>>

EventReturn ==
    /\ loop = "event"
    /\ NoClear
    /\ loop' = "poll"
    /\ UNCHANGED <<scbVars, postVars, runVars, listVars>>

(* exit_i, then shutdown_i: the three schedulable callbacks are gone and   *)
(* what is still queued is never run.                                      *)
ShutdownI ==
    /\ loop = "poll"
    /\ loop' = "down"
    /\ UNCHANGED <<scbVars, postVars, runVars, listVars>>

-----------------------------------------------------------------------------
PostStep(t) == PostCheck(t) \/ PostSet(t) \/ PostWrite(t)

ClearStep(k) == DisposeNext(k) \/ EndClear(k)

\* Steps the loop thread takes on its own once it has left the poll.
LoopStep ==
    \/ RunI
    \/ WorkerLoop
    \/ \E k \in Lists : RunClear(k)
    \/ Steal
    \/ RunNext
    \/ RunEnd
    \/ ListCallbackReturn
    \/ EventReturn

Next ==
    \/ \E t \in Threads, c \in Callbacks : Post(t, c)
    \/ \E t \in Threads : PostStep(t)
    \/ \E k \in Lists, o \in Objects : Defer(k, o)
    \/ \E k \in Lists : ClearStep(k) \/ ListCallback(k)
    \/ ClearDeferredDeleteList
    \/ LoopStep
    \/ \E s \in Scbs : Wakeup(s) \/ NextIteration(s)
    \/ PostCallback
    \/ Event
    \/ ShutdownI

Spec == Init /\ [][Next]_vars

(* A thread inside post_i goes on; bodies return; the loop finishes what   *)
(* it has begun.  libevent visits every pending event in each iteration,   *)
(* so a wakeup, a timeout or an activation that is pending whenever the    *)
(* loop is polling is not passed over for ever, however many other events  *)
(* there are.                                                              *)
Fairness ==
    /\ \A t \in Threads : WF_vars(PostStep(t))
    /\ \A k \in Lists : WF_vars(ClearStep(k)) /\ SF_vars(ListCallback(k))
    /\ WF_vars(LoopStep)
    /\ \A s \in Scbs : SF_vars(Wakeup(s)) /\ SF_vars(NextIteration(s))
    /\ SF_vars(PostCallback)

FairSpec == Spec /\ Fairness

-----------------------------------------------------------------------------
(* Properties.                                                             *)

(* Posted work is never stranded: while the list is not empty, either the  *)
(* loop is going to run m_post_cb, or it is in run_post_callbacks before   *)
(* the steal, or a thread is still inside post_i on its way to schedule    *)
(* it.  (Races of post_i's unlocked scheduling with timer_cb's reset of    *)
(* m_enabled and with other posters.)                                      *)
BeforeSteal == loop \in {"delete", "destroy", "steal"}

NoLostWakeup ==
    m_post_callbacks # <<>> =>
        \/ Scheduled("post")
        \/ BeforeSteal
        \/ \E t \in Threads : pc[t] # "idle"
        \/ loop = "down"

(* m_enabled of m_post_cb is never left true without an activation on its  *)
(* way: a true flag makes every later schedule return early, so a stale    *)
(* one would silence the dispatcher for good.                              *)
EnabledMeansScheduled ==
    m_enabled["post"] => Scheduled("post") \/ \E t \in Threads : pc[t] = "write"

(* A deferred object is never left behind: a buffer being filled that is   *)
(* not empty has its callback scheduled, also when its objects arrived     *)
(* during a clear, or after an explicit clear that left m_enabled set.     *)
DeferredIsScheduled ==
    \A k \in Lists : Filling(k) # <<>> => Scheduled(k) \/ loop = "down"

(* The double buffer: outside a clear the other buffer is empty, so that   *)
(* the swap of the next clear starts from a fresh one.                     *)
DoubleBuffer ==
    \A k \in Lists : ~clearing[k] => Batch(k) = <<>> /\ pos[k] = 0

(* The three mailboxes of the dispatcher.                                  *)
closedDown == loop = "down"

PostBox == INSTANCE Mailbox WITH
    Items <- Callbacks, queue <- callbacks \o m_post_callbacks,
    done <- executed, closed <- closedDown

Pending(k) == SubSeq(Batch(k), pos[k] + 1, Len(Batch(k))) \o Filling(k)

DeleteBox == INSTANCE Mailbox WITH
    Items <- Objects, queue <- Pending("delete"),
    done <- disposed["delete"], closed <- closedDown

DestroyBox == INSTANCE Mailbox WITH
    Items <- Objects, queue <- Pending("destroy"),
    done <- disposed["destroy"], closed <- closedDown

(* Callbacks run once each, in the order in which the threads' critical    *)
(* sections appended them.                                                 *)
PostIsMailbox == PostBox!Spec

(* Objects are unref'ed, and blocks destroyed, once each, in the order of  *)
(* their hand-over, over any interleaving of implicit and explicit clears. *)
DeferredIsMailbox == DeleteBox!Spec /\ DestroyBox!Spec

(* Every posted callback is run and every deferred object disposed of,     *)
(* unless the dispatcher is shut down.                                     *)
PostDelivers == PostBox!FairSpec
DeferredDelivers == DeleteBox!FairSpec /\ DestroyBox!FairSpec

(* Both: whatever is handed to a dispatcher is run or disposed of.         *)
EverythingDelivered == PostDelivers /\ DeferredDelivers
=============================================================================
