------------------------ MODULE SchedulableCallback ------------------------
(***************************************************************************)
(* event/rp-schedulable-cb-impl.c: a callback that can be scheduled on the *)
(* event loop of a dispatcher from any thread.  Scheduling sets the plain  *)
(* boolean m_enabled and writes to an eventfd; the loop's wakeup_cb turns  *)
(* the eventfd's counter into an activation (or a zero timeout) of the raw *)
(* libevent event, whose timer_cb clears m_enabled and runs the callback.  *)
(*                                                                         *)
(* The module has no Next of its own: Dispatcher EXTENDS it and takes its  *)
(* actions.  The test of m_enabled, the assignment and the eventfd write   *)
(* are separate steps, because m_enabled is shared by unsynchronised       *)
(* threads.                                                                *)
(***************************************************************************)
EXTENDS Naturals

CONSTANT Scbs       \* the schedulable callbacks of one event loop

VARIABLES
    m_enabled,      \* [Scbs -> BOOLEAN]
    wakeup_fd,      \* [Scbs -> Nat], the eventfd's counter
    raw_event       \* [Scbs -> RawStates], the libevent event m_raw_event

scbVars == <<m_enabled, wakeup_fd, raw_event>>

\* Not pending; pending with a zero timeout; in libevent's active queue.
RawStates == {"none", "timeout", "active"}

SchedulableCallbackInit ==
    /\ m_enabled = [s \in Scbs |-> FALSE]
    /\ wakeup_fd = [s \in Scbs |-> 0]
    /\ raw_event = [s \in Scbs |-> "none"]

(* me->m_enabled = true                                                    *)
SetEnabled(s) ==
    /\ m_enabled' = [m_enabled EXCEPT ![s] = TRUE]
    /\ UNCHANGED <<wakeup_fd, raw_event>>

(* eventfd_write(me->m_wakeup_fd, 1): the counter accumulates.             *)
EventfdWrite(s) ==
    /\ wakeup_fd' = [wakeup_fd EXCEPT ![s] = @ + 1]
    /\ UNCHANGED <<m_enabled, raw_event>>

(* schedule_callback_current_iteration_i where only the loop thread uses   *)
(* s, so that no other thread can be between its three steps.              *)
ScheduleCallbackCurrentIteration(s) ==
    IF m_enabled[s]
    THEN UNCHANGED scbVars
    ELSE /\ m_enabled' = [m_enabled EXCEPT ![s] = TRUE]
         /\ wakeup_fd' = [wakeup_fd EXCEPT ![s] = @ + 1]
         /\ UNCHANGED raw_event

\* Mutant: only a counter of exactly 1 schedules the event.
WakeupCbOnlyOne(s) ==
    /\ wakeup_fd[s] > 0
    /\ raw_event' = [raw_event EXCEPT ![s] = IF wakeup_fd[s] = 1 THEN "active" ELSE @]
    /\ wakeup_fd' = [wakeup_fd EXCEPT ![s] = 0]
    /\ UNCHANGED m_enabled

(* wakeup_cb: the eventfd is readable; the read returns the counter and    *)
(* resets it.  A counter of 1 is current_iteration (event_active); writes  *)
(* of several threads that have added up are taken for next_iteration      *)
(* (event_add with a zero timeout, which moves an event that is already    *)
(* active back to the timeouts).                                           *)
WakeupCb(s) ==
    /\ wakeup_fd[s] > 0
    /\ raw_event' = [raw_event EXCEPT
                        ![s] = IF wakeup_fd[s] = 1 THEN "active" ELSE "timeout"]
    /\ wakeup_fd' = [wakeup_fd EXCEPT ![s] = 0]
    /\ UNCHANGED m_enabled

(* libevent: the zero timeout has expired when the next iteration starts.  *)
TimeoutExpires(s) ==
    /\ raw_event[s] = "timeout"
    /\ raw_event' = [raw_event EXCEPT ![s] = "active"]
    /\ UNCHANGED <<m_enabled, wakeup_fd>>

\* Mutant: m_enabled is not reset before the callback runs.
TimerCbStaysEnabled(s) ==
    /\ raw_event[s] = "active"
    /\ raw_event' = [raw_event EXCEPT ![s] = "none"]
    /\ UNCHANGED <<wakeup_fd, m_enabled>>

(* timer_cb, up to its call of m_cb.                                       *)
TimerCb(s) ==
    /\ raw_event[s] = "active"
    /\ raw_event' = [raw_event EXCEPT ![s] = "none"]
    /\ m_enabled' = [m_enabled EXCEPT ![s] = FALSE]
    /\ UNCHANGED wakeup_fd

(* The loop will run s without anybody's help.                             *)
Scheduled(s) == wakeup_fd[s] > 0 \/ raw_event[s] # "none"
============================================================================
