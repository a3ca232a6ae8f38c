------------------------------ MODULE Mailbox ------------------------------
(***************************************************************************)
(* What the dispatcher promises for everything that is handed to it: work  *)
(* put into the mailbox by any thread is performed exactly once, in the    *)
(* order in which it was put, and every piece of it is eventually          *)
(* performed, unless the dispatcher is shut down first.                    *)
(*                                                                         *)
(* rp_dispatcher_base_post, rp_dispatcher_deferred_delete(_take) and       *)
(* rp_dispatcher_deferred_destroy are the three mailboxes of one           *)
(* dispatcher (see module Dispatcher for the refinement mappings).         *)
(***************************************************************************)
EXTENDS Sequences

CONSTANT Items      \* what can be put: post contexts, or objects

VARIABLES
    queue,          \* accepted and not yet performed, oldest first
    done,           \* performed, oldest first
    closed          \* the dispatcher has been shut down

vars == <<queue, done, closed>>

Init == queue = <<>> /\ done = <<>> /\ closed = FALSE

\* A piece of work is put once.
Fresh(x) ==
    /\ \A i \in DOMAIN queue : queue[i] # x
    /\ \A i \in DOMAIN done : done[i] # x

(* Any thread, at any time, also after the shutdown (the work is then      *)
(* accepted and never performed).                                          *)
Put(x) ==
    /\ Fresh(x)
    /\ queue' = Append(queue, x)
    /\ UNCHANGED <<done, closed>>

(* The loop thread performs the oldest piece of work.                      *)
Take ==
    /\ ~closed
    /\ queue # <<>>
    /\ done' = Append(done, Head(queue))
    /\ queue' = Tail(queue)
    /\ UNCHANGED closed

Close ==
    /\ ~closed
    /\ closed' = TRUE
    /\ UNCHANGED <<queue, done>>

Next == (\E x \in Items : Put(x)) \/ Take \/ Close

Spec == Init /\ [][Next]_vars

FairSpec == Spec /\ WF_vars(Take)
============================================================================
