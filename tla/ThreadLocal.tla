---------------------------- MODULE ThreadLocal ----------------------------
(***************************************************************************)
(* thread_local/ and the life of the worker threads in rproxy.c: the       *)
(* registration of the workers' dispatchers, the start-up barrier, the     *)
(* thread-local slot of the cluster manager (rp_slot_set), updates of it   *)
(* on all threads with a completion on the main thread                     *)
(* (rp_slot_run_on_all_threads_completed, RpCbGuard), and the shutdown.    *)
(*                                                                         *)
(* A dispatcher is what module Dispatcher proves it to be, a FIFO mailbox: *)
(* queue[w] is the mailbox of worker w, queue[Main] that of the main       *)
(* thread.  rproxy_init starts the workers before it initializes the       *)
(* cluster manager and only then waits for them, so that a worker may      *)
(* register while the main thread is walking m_registered_threads, which   *)
(* it does without the lock: every element of a walk is a step.            *)
(***************************************************************************)
EXTENDS Naturals, Sequences, FiniteSets, SequencesExt

CONSTANTS
    Workers,        \* worker threads
    Main,           \* the main thread
    Updates         \* calls of run_on_all_threads_completed

ASSUME WorkersAssumption == IsFiniteSet(Workers) /\ Main \notin Workers

\* The names of updates are no thread and no other message.
ASSUME UpdatesAssumption == Updates \cap {Main, "set", "continue"} = {}

Threads == Workers \cup {Main}

VARIABLES
    m_registered_threads,   \* Seq(Workers)
    thread,         \* [Workers -> ThreadPc]
    ready_workers,  \* Nat, under thread_waiter_mutex
    go_ahead,       \* BOOLEAN, under thread_waiter_mutex
    main,           \* what the main thread is executing
    walk,           \* Nat, elements of the list the current walk has visited
    update,         \* the update whose guard is being posted, or Main
    m_shutdown,     \* BOOLEAN
    queue,          \* [Threads -> Seq(Messages)]
    m_data,         \* [Threads -> BOOLEAN], the thread has the slot's object
    refs,           \* [Updates -> Nat], references to the update's RpCbGuard
    holding,        \* [Workers -> Updates \cup {Main}], in rp_cb_guard_cb
    applied,        \* [Threads -> Seq(Updates)], history: callbacks run
    guarded,        \* [Updates -> SUBSET Workers], history: sent the guard
    completed,      \* Seq(Updates), history: completions run
    late,           \* SUBSET Workers, history: registered after the set's walk
    counted         \* [Updates -> Nat], history: references the guard got

startVars == <<m_registered_threads, thread, ready_workers, go_ahead, late>>
mainVars  == <<main, walk, update, m_shutdown>>
dataVars  == <<m_data, applied, completed>>
guardVars == <<refs, holding, guarded, counted>>
vars      == <<startVars, mainVars, dataVars, guardVars, queue>>

\* set_cb, continue_thread_init_cb; rp_cb_guard_cb, or the completion, of u.
Messages == {"set", "continue"} \cup Updates

\* "starting"  before register_thread
\* "waiting"   in the barrier of rproxy_thread_init
\* "running"   in the event loop;  "ready" once continue_thread_init_cb ran
\* "stopped"   after rproxy_thread_exit
ThreadPc == {"starting", "waiting", "running", "ready", "stopped"}

\* "set"       rproxy_init, in rp_slot_set's walk
\* "init"      rproxy_init, cluster manager initialized or being initialized
\* "barrier"   in wait_for_all_workers_initialized_and_signal
\* "run"       in the event loop, after the barrier
\* "guard_init", "guard_run"   run_on_all_threads_completed, in its walk
\* "down"      after terminate, stopping the workers
\* "exit"      after wait_for_all_workers_stopped
\* "crashed"   a thread used a guard or an object that is not there
MainPc == {"set", "init", "barrier", "run", "guard_init", "guard_run", "down", "exit", "crashed"}

TypeOK ==
    /\ m_registered_threads \in Seq(Workers)
    /\ thread \in [Workers -> ThreadPc]
    /\ ready_workers \in 0..Cardinality(Workers)
    /\ go_ahead \in BOOLEAN
    /\ main \in MainPc
    /\ walk \in Nat
    /\ update \in Updates \cup {Main}
    /\ m_shutdown \in BOOLEAN
    /\ queue \in [Threads -> Seq(Messages)]
    /\ m_data \in [Threads -> BOOLEAN]
    /\ refs \in [Updates -> Nat]
    /\ holding \in [Workers -> Updates \cup {Main}]
    /\ applied \in [Threads -> Seq(Updates)]
    /\ guarded \in [Updates -> SUBSET Workers]
    /\ completed \in Seq(Updates)
    /\ late \subseteq Workers
    /\ counted \in [Updates -> Nat]

(* The main thread is registered, the slot is allocated and the worker     *)
(* pools are started; rp_cluster_manager_initialize is called.             *)
Init ==
    /\ m_registered_threads = <<>>
    /\ thread = [w \in Workers |-> "starting"]
    /\ ready_workers = 0
    /\ go_ahead = FALSE
    /\ main = "set"
    /\ walk = 0
    /\ update = Main
    /\ m_shutdown = FALSE
    /\ queue = [t \in Threads |-> <<>>]
    /\ m_data = [t \in Threads |-> FALSE]
    /\ refs = [u \in Updates |-> 0]
    /\ holding = [w \in Workers |-> Main]
    /\ applied = [t \in Threads |-> <<>>]
    /\ guarded = [u \in Updates |-> {}]
    /\ completed = <<>>
    /\ late = {}
    /\ counted = [u \in Updates |-> 0]

Alive == main # "crashed"

(* rp_dispatcher_base_post.                                                *)
Post(t, m) == queue' = [queue EXCEPT ![t] = Append(@, m)]

-----------------------------------------------------------------------------
(* Worker threads: rproxy_thread_init.                                     *)

(* register_thread_i of a worker, then ++ready_workers.                    *)
RegisterThread(w) ==
    /\ Alive
    /\ thread[w] = "starting"
    /\ m_registered_threads' = Append(m_registered_threads, w)
    /\ thread' = [thread EXCEPT ![w] = "waiting"]
    /\ ready_workers' = ready_workers + 1
    /\ late' = IF main = "set" THEN late ELSE late \cup {w}
    /\ UNCHANGED <<go_ahead, mainVars, dataVars, guardVars, queue>>

(* The barrier opens: the rest of the initialization is posted to the      *)
(* worker's own dispatcher and the event loop is entered.                  *)
PassBarrier(w) ==
    /\ Alive
    /\ thread[w] = "waiting"
    /\ go_ahead
    /\ thread' = [thread EXCEPT ![w] = "running"]
    /\ Post(w, "continue")
    /\ UNCHANGED <<m_registered_threads, ready_workers, go_ahead, late, mainVars, dataVars, guardVars>>

-----------------------------------------------------------------------------
(* The main thread.                                                        *)

InWalk == walk < Len(m_registered_threads)

\* Mutant: the walk skips every other thread.
SetPostSkips ==
    /\ main = "set"
    /\ InWalk
    /\ Post(m_registered_threads[walk + 1], "set")
    /\ walk' = walk + 2
    /\ UNCHANGED <<startVars, main, update, m_shutdown, dataVars, guardVars>>

(* set_i: set_cb is posted to every registered thread...                   *)
SetPost ==
    /\ main = "set"
    /\ InWalk
    /\ Post(m_registered_threads[walk + 1], "set")
    /\ walk' = walk + 1
    /\ UNCHANGED <<startVars, main, update, m_shutdown, dataVars, guardVars>>

(* ... and the main thread's object is created.                            *)
SetMain ==
    /\ main = "set"
    /\ ~InWalk
    /\ m_data' = [m_data EXCEPT ![Main] = TRUE]
    /\ main' = "init"
    /\ walk' = 0
    /\ UNCHANGED <<startVars, update, m_shutdown, applied, completed, guardVars, queue>>

\* Mutants: the first reference is taken for that of a thread and dropped; it
\* is not dropped at all.
CbGuardNewOneShort(u) ==
    /\ refs' = [refs EXCEPT ![u] = IF m_registered_threads = <<>>
                                   THEN 0 ELSE Len(m_registered_threads) - 1]
    /\ IF Len(m_registered_threads) < 2 THEN Post(Main, u) ELSE UNCHANGED queue

CbGuardNewKeepsRef(u) ==
    /\ refs' = [refs EXCEPT ![u] = Len(m_registered_threads) + 1]
    /\ UNCHANGED queue

(* rp_cb_guard_new: a reference for every registered thread, and the one   *)
(* it was created with dropped.  Without a registered thread the guard is  *)
(* disposed of at once, which posts the completion.                        *)
CbGuardNew(u) ==
    /\ refs' = [refs EXCEPT ![u] = Len(m_registered_threads)]
    /\ IF m_registered_threads = <<>> THEN Post(Main, u) ELSE UNCHANGED queue

(* run_on_all_threads_completed: the callback is run on the main thread    *)
(* and the guard created...                                                *)
RunOnAllThreadsCompleted(u) ==
    /\ main \in {"init", "run"}
    /\ u \notin Range(applied[Main])
    /\ applied' = [applied EXCEPT ![Main] = Append(@, u)]
    /\ CbGuardNew(u)
    /\ counted' = [counted EXCEPT ![u] = Len(m_registered_threads)]
    /\ update' = u
    /\ walk' = 0
    /\ main' = IF main = "init" THEN "guard_init" ELSE "guard_run"
    /\ UNCHANGED <<startVars, m_shutdown, m_data, completed, holding, guarded>>

(* ... then the guard is posted to every thread that is registered now.    *)
GuardPost ==
    /\ main \in {"guard_init", "guard_run"}
    /\ InWalk
    /\ LET w == m_registered_threads[walk + 1] IN
         /\ Post(w, update)
         /\ guarded' = [guarded EXCEPT ![update] = @ \cup {w}]
    /\ walk' = walk + 1
    /\ UNCHANGED <<startVars, main, update, m_shutdown, dataVars, refs, holding, counted>>

GuardPosted ==
    /\ main \in {"guard_init", "guard_run"}
    /\ ~InWalk
    /\ main' = IF main = "guard_init" THEN "init" ELSE "run"
    /\ update' = Main
    /\ walk' = 0
    /\ UNCHANGED <<startVars, m_shutdown, dataVars, guardVars, queue>>

(* wait_for_all_workers_initialized_and_signal.                            *)
Initialized ==
    /\ main = "init"
    /\ main' = "barrier"
    /\ UNCHANGED <<startVars, walk, update, m_shutdown, dataVars, guardVars, queue>>

OpenBarrier ==
    /\ main = "barrier"
    /\ ready_workers >= Cardinality(Workers)
    /\ go_ahead' = TRUE
    /\ main' = "run"
    /\ UNCHANGED <<m_registered_threads, thread, ready_workers, late, walk, update, m_shutdown,
                   dataVars, guardVars, queue>>

(* internal_all_threads_complete_cb: the completion frees the context.     *)
Complete ==
    /\ main = "run"
    /\ queue[Main] # <<>>
    /\ completed' = Append(completed, Head(queue[Main]))
    /\ queue' = [queue EXCEPT ![Main] = Tail(@)]
    /\ UNCHANGED <<startVars, mainVars, m_data, applied, guardVars>>

(* The loop has been told to exit: terminate, which also shuts the main    *)
(* dispatcher down, then rproxy_exit stops the thread pools.               *)
Terminate ==
    /\ main = "run"
    /\ m_shutdown' = TRUE
    /\ m_data' = [m_data EXCEPT ![Main] = FALSE]
    /\ main' = "down"
    /\ UNCHANGED <<startVars, walk, update, applied, completed, guardVars, queue>>

(* wait_for_all_workers_stopped.                                           *)
Exit ==
    /\ main = "down"
    /\ ready_workers = 0
    /\ main' = "exit"
    /\ UNCHANGED <<startVars, walk, update, m_shutdown, dataVars, guardVars, queue>>

-----------------------------------------------------------------------------
(* Worker threads: the event loop.                                         *)

Looping(w) == Alive /\ thread[w] \in {"running", "ready"} /\ holding[w] = Main

Receive(w, m) ==
    /\ Looping(w)
    /\ queue[w] # <<>>
    /\ Head(queue[w]) = m
    /\ queue' = [queue EXCEPT ![w] = Tail(@)]

(* set_cb: the initialize callback's object is stored.                     *)
SetCb(w) ==
    /\ Receive(w, "set")
    /\ m_data' = [m_data EXCEPT ![w] = TRUE]
    /\ UNCHANGED <<startVars, mainVars, applied, completed, guardVars>>

(* continue_thread_init_cb; it posts itself once more and then runs the    *)
(* embedder's hook, which is not modelled.                                 *)
ContinueThreadInitCb(w) ==
    /\ Receive(w, "continue")
    /\ thread' = [thread EXCEPT ![w] = "ready"]
    /\ UNCHANGED <<m_registered_threads, ready_workers, go_ahead, late, mainVars, dataVars, guardVars>>

\* The guard is still there and the slot's object is, too.
Defined(w, u) == refs[u] > 0 /\ m_data[w]

(* rp_cb_guard_cb: the update callback of guard u, on the slot's object.   *)
GuardCb(w, u) ==
    /\ Receive(w, u)
    /\ Defined(w, u)
    /\ applied' = [applied EXCEPT ![w] = Append(@, u)]
    /\ holding' = [holding EXCEPT ![w] = u]
    /\ UNCHANGED <<startVars, mainVars, m_data, completed, refs, guarded, counted>>

(* The unref at its end.  The last one disposes of the guard, which posts  *)
(* the completion to the main thread; g_object_unref ignores an object     *)
(* without references.                                                     *)
GuardUnref(w) ==
    /\ Alive
    /\ holding[w] # Main
    /\ LET u == holding[w] IN
         /\ refs' = [refs EXCEPT ![u] = IF @ > 0 THEN @ - 1 ELSE 0]
         /\ IF refs[u] = 1 THEN Post(Main, u) ELSE UNCHANGED queue
    /\ holding' = [holding EXCEPT ![w] = Main]
    /\ UNCHANGED <<startVars, mainVars, dataVars, guarded, counted>>

(* A guard that has been freed, or an element of m_data that was never     *)
(* written: the process crashes; or the memory is still intact and the     *)
(* callback is run; or it belongs by now to another guard, whose callback  *)
(* is run and whose reference is dropped.                                  *)
GuardCbUndefined(w, u) ==
    /\ Receive(w, u)
    /\ ~Defined(w, u)
    /\ \/ main' = "crashed" /\ UNCHANGED <<applied, holding>>
       \/ /\ applied' = [applied EXCEPT ![w] = Append(@, u)]
          /\ holding' = [holding EXCEPT ![w] = IF refs[u] > 0 THEN u ELSE Main]
          /\ UNCHANGED main
       \/ \E v \in Updates :
            /\ refs[u] = 0 /\ refs[v] > 0
            /\ applied' = [applied EXCEPT ![w] = Append(@, v)]
            /\ holding' = [holding EXCEPT ![w] = v]
            /\ UNCHANGED main
    /\ UNCHANGED <<startVars, walk, update, m_shutdown, m_data, completed, refs, guarded, counted>>

(* The pool is stopped: rproxy_thread_exit, with shutdown_thread_i.  What  *)
(* is still queued is dropped with the dispatcher.                         *)
ThreadExit(w) ==
    /\ Looping(w)
    /\ main = "down"
    /\ thread' = [thread EXCEPT ![w] = "stopped"]
    /\ m_data' = [m_data EXCEPT ![w] = FALSE]
    /\ queue' = [queue EXCEPT ![w] = <<>>]
    /\ ready_workers' = ready_workers - 1
    /\ UNCHANGED <<m_registered_threads, go_ahead, late, mainVars, applied, completed, guardVars>>

-----------------------------------------------------------------------------
MainStep ==
    \/ SetPost \/ SetMain
    \/ GuardPost \/ GuardPosted
    \/ Initialized \/ OpenBarrier
    \/ Complete
    \/ Exit

StartStep(w) == RegisterThread(w) \/ PassBarrier(w)

LoopStep(w) ==
    \/ SetCb(w)
    \/ ContinueThreadInitCb(w)
    \/ \E u \in Updates : GuardCb(w, u) \/ GuardCbUndefined(w, u)
    \/ GuardUnref(w)

Next ==
    \/ \E u \in Updates : RunOnAllThreadsCompleted(u)
    \/ MainStep
    \/ Terminate
    \/ \E w \in Workers : StartStep(w) \/ LoopStep(w) \/ ThreadExit(w)

Spec == Init /\ [][Next]_vars

(* Every thread goes on with what it is doing, the loops run what is       *)
(* posted to them (Dispatcher's PostDelivers), and a worker whose pool is  *)
(* being stopped exits.  Terminating is nobody's duty.                     *)
Fairness ==
    /\ WF_vars(MainStep)
    /\ \A w \in Workers : WF_vars(StartStep(w)) /\ WF_vars(LoopStep(w)) /\ SF_vars(ThreadExit(w))

FairSpec == Spec /\ Fairness

-----------------------------------------------------------------------------
(* Properties.  A worker that registers after the set's walk is late; an   *)
(* update whose guard was posted to a thread it had no reference for has   *)
(* raced with a registration.                                              *)
Raced == \E u \in Updates : Cardinality(guarded[u]) > counted[u]

(* The completion, which frees what the callbacks use, runs at most once   *)
(* ("This is only called once when CbGuard is destroyed"), and, unless a   *)
(* worker registered while a guard was being posted, after the callback    *)
(* has returned on every thread it was sent to.                            *)
CompletionAfterAll ==
    /\ \A i, j \in DOMAIN completed : completed[i] = completed[j] => i = j
    /\ ~Raced => \A u \in Range(completed) :
        /\ \A w \in guarded[u] : u \in Range(applied[w]) /\ holding[w] # u
        /\ Cardinality(guarded[u]) = counted[u]

(* No worker runs an update without the slot's object or with a guard that *)
(* is gone, provided it was registered in time for both walks: the object  *)
(* is always ahead of the updates in its mailbox.                          *)
UpdatesAreDefined ==
    \A w \in Workers \ late :
        Looping(w) /\ queue[w] # <<>> /\ Head(queue[w]) \in Updates /\ ~Raced
            => Defined(w, Head(queue[w]))

(* Every worker applies the updates in the main thread's order, without a  *)
(* gap.                                                                    *)
SameOrder ==
    \A w \in Workers \ late : ~Raced => IsPrefix(applied[w], applied[Main])

(* A worker that is ready to serve has the slot's object, unless it was    *)
(* late or is shut down.                                                   *)
ReadyHasData ==
    \A w \in Workers \ late : thread[w] = "ready" => m_data[w]

(* What a worker reads through a slot is there, and the same everywhere.   *)
SlotsAgree == TypeOK /\ UpdatesAreDefined /\ ReadyHasData /\ SameOrder

(* Every update is eventually completed, unless the server is terminated   *)
(* (or an update was raced by a registration).                             *)
UpdatesComplete ==
    \A u \in Updates :
        u \in Range(applied[Main]) ~> (u \in Range(completed) \/ m_shutdown \/ Raced \/ ~Alive)

(* The start-up barrier opens for every worker.                            *)
WorkersStart == \A w \in Workers : <>(thread[w] = "ready" \/ m_shutdown \/ ~Alive)

(* A termination ends: every worker stops, then the main thread exits.     *)
ShutdownEnds == m_shutdown ~> (main = "exit" \/ ~Alive)

(* No thread waits for ever for the others: the completion of an update,   *)
(* the start-up barrier and the wait at the end, which all count on the    *)
(* messages and the reference counts of every thread, come to their end.   *)
ThreadsMakeProgress == UpdatesComplete /\ WorkersStart /\ ShutdownEnds
=============================================================================
