---------------------------- MODULE DelayedQueue ----------------------------
(***************************************************************************)
(* What the delayed index promises (spec section 4.4, scenario S5), with  *)
(* no locks, processes or Redis commands: a task created with a future     *)
(* scheduled_at waits in the index; once its time has come it is either    *)
(* released, which puts exactly one message for it on its stream, or       *)
(* dropped (it was cancelled, or is no longer scheduled); nothing leaves    *)
(* the index before its time, and every task whose time has come leaves    *)
(* it.  Scheduler implements this specification.                          *)
(***************************************************************************)
EXTENDS Naturals

CONSTANT Tasks

VARIABLES
    phase,   \* task -> "none" | "waiting" | "released" | "dropped"
    queued,  \* task -> messages put on its stream by the scheduler
    due      \* tasks whose scheduled_at has passed

vars == <<phase, queued, due>>

Init == /\ phase = [t \in Tasks |-> "none"]
        /\ queued = [t \in Tasks |-> 0]
        /\ due = {}

\* Schedule(task, scheduled_at): the task enters the index.
Schedule(t) ==
    /\ phase[t] = "none"
    /\ phase' = [phase EXCEPT ![t] = "waiting"]
    /\ UNCHANGED <<queued, due>>

\* The clock passes the task's scheduled_at.
BecomeDue(t) ==
    /\ t \notin due
    /\ due' = due \cup {t}
    /\ UNCHANGED <<phase, queued>>

\* A due task is promoted: one message on its stream.
Release(t) ==
    /\ phase[t] = "waiting" /\ t \in due
    /\ phase' = [phase EXCEPT ![t] = "released"]
    /\ queued' = [queued EXCEPT ![t] = 1]
    /\ UNCHANGED due

\* A due task is taken out of the index without a message.
Drop(t) ==
    /\ phase[t] = "waiting" /\ t \in due
    /\ phase' = [phase EXCEPT ![t] = "dropped"]
    /\ UNCHANGED <<queued, due>>

Next == \E t \in Tasks : Schedule(t) \/ BecomeDue(t) \/ Release(t) \/ Drop(t)

\* A due task does not stay in the index for ever.
Spec == /\ Init /\ [][Next]_vars
        /\ \A t \in Tasks : WF_vars(Release(t) \/ Drop(t))
=============================================================================
