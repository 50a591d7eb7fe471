----------------------------- MODULE TaskState -----------------------------
(***************************************************************************)
(* The task state machine of internal/task/state.go and the retry helpers *)
(* of internal/task/retry.go, as pure operators over a task record.        *)
(*                                                                         *)
(* A task record keeps the fields the core reads or writes: state,         *)
(* attempts, whether error and result are set, the worker id and the two   *)
(* timestamps StartedAt and CompletedAt.  Payload, type, metadata and      *)
(* UpdatedAt are left out: no decision of the core depends on them.        *)
(* Every Go method that may fail with ErrInvalidTransition is split into   *)
(* a guard (...OK) and the record it produces when the guard holds.        *)
(***************************************************************************)
EXTENDS Naturals, TLC

CONSTANTS MaxRetries,  \* Task.MaxRetries (the same for every task in a model)
          NoWorker,    \* WorkerID == ""
          NoTime       \* a nil *time.Time

States == {"pending", "scheduled", "running", "completed",
           "failed", "retrying", "cancelled", "dead_letter"}

\* State.IsFinal
IsFinal(s) == s \in {"completed", "failed", "cancelled", "dead_letter"}

\* The ValidTransitions table.
ValidTransitions ==
       ("pending"     :> {"scheduled", "running", "cancelled"})
    @@ ("scheduled"   :> {"pending", "running", "cancelled"})
    @@ ("running"     :> {"completed", "failed", "retrying", "cancelled"})
    @@ ("retrying"    :> {"running", "failed", "dead_letter", "cancelled"})
    @@ ("failed"      :> {"retrying", "dead_letter", "pending"})
    @@ ("completed"   :> {})
    @@ ("cancelled"   :> {})
    @@ ("dead_letter" :> {"pending"})

\* State.CanTransitionTo
CanTransitionTo(s, target) == target \in ValidTransitions[s]

\* The record New() produces (attempts 0, no error, no result).
NewTask(state) ==
    [state |-> state, attempts |-> 0, err |-> FALSE, result |-> FALSE,
     worker |-> NoWorker, startedAt |-> NoTime, completedAt |-> NoTime]

\* StateMachine.Transition, when CanTransitionTo holds: the new state and
\* the timestamp the target state stamps.
Transition(r, target, now) ==
    [r EXCEPT !.state       = target,
              !.startedAt   = IF target = "running" THEN now ELSE @,
              !.completedAt = IF IsFinal(target) THEN now ELSE @]

\* A call whose error the caller ignores: the record is left as it was
\* when the transition is invalid.
TryTransition(r, target, now) ==
    IF CanTransitionTo(r.state, target) THEN Transition(r, target, now) ELSE r

\* StateMachine.Start: Transition(running), then WorkerID and attempts++.
StartOK(r) == CanTransitionTo(r.state, "running")
Start(r, w, now) ==
    [Transition(r, "running", now) EXCEPT !.worker = w, !.attempts = @ + 1]

\* StateMachine.Complete: result set, error cleared.
Complete(r, now) ==
    [Transition(r, "completed", now) EXCEPT !.result = TRUE, !.err = FALSE]

\* StateMachine.Fail: error set.
Fail(r, now) == [Transition(r, "failed", now) EXCEPT !.err = TRUE]

\* Task.CanRetry (CanRetryInclusive, a mutant: <= for <)
CanRetryInclusive(r) == r.attempts <= MaxRetries
CanRetry(r) == r.attempts < MaxRetries

\* StateMachine.Retry: retrying while the budget lasts, else dead_letter.
RetryTarget(r) == IF CanRetry(r) THEN "retrying" ELSE "dead_letter"
RetryOK(r) == CanTransitionTo(r.state, RetryTarget(r))
Retry(r, now) == Transition(r, RetryTarget(r), now)

\* StateMachine.Cancel and StateMachine.MoveToDLQ
Cancel(r, now) == Transition(r, "cancelled", now)
MoveToDLQ(r, now) == Transition(r, "dead_letter", now)

\* StateMachine.Requeue resets the fields before it tries the transition,
\* so a rejected Requeue still leaves them reset on the in-memory task.
RequeueReset(r) ==
    [r EXCEPT !.worker = NoWorker, !.attempts = 0, !.err = FALSE,
              !.startedAt = NoTime, !.completedAt = NoTime]
RequeueOK(r) == CanTransitionTo(r.state, "pending")
Requeue(r, now) == Transition(RequeueReset(r), "pending", now)

\* Retryer.PrepareForRequeue: sm.Retry() with its error ignored, then the
\* state is forced to pending whatever it was.
PrepareForRequeue(r, now) ==
    [TryTransition(r, RetryTarget(r), now) EXCEPT !.state = "pending"]

\* DLQ.Add: MoveToDLQ, or the state forced to dead_letter when the
\* transition is invalid.
ForceDeadLetter(r, now) ==
    IF CanTransitionTo(r.state, "dead_letter") THEN MoveToDLQ(r, now)
    ELSE [r EXCEPT !.state = "dead_letter"]

TaskRecs(Workers, Times) ==
    [state : States, attempts : Nat, err : BOOLEAN, result : BOOLEAN,
     worker : Workers \cup {NoWorker}, startedAt : Times \cup {NoTime},
     completedAt : Times \cup {NoTime}]
=============================================================================
