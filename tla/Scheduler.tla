------------------------------ MODULE Scheduler -----------------------------
(***************************************************************************)
(* Delayed tasks: TaskHandler.Create with a future scheduled_at            *)
(* (ScheduleTaskFunc: SET task:{id}, ZADD tasks:scheduled), the            *)
(* Scheduler of internal/queue/scheduler.go run by every API server        *)
(* (processDueTasks under the scheduler:lock key, activateTask per due     *)
(* task) and the Cancel handler, which accepts scheduled tasks.            *)
(*                                                                         *)
(* The stream side is reduced to the number of XADDs made for each task:   *)
(* what workers do with the messages is the subject of Broker.  Scores     *)
(* are reduced to the set of tasks whose scheduled time has passed.        *)
(***************************************************************************)
EXTENDS Naturals, Sequences, SequencesExt, TaskState

CONSTANTS Tasks,         \* ids of tasks created with a future scheduled_at
          Schedulers,    \* API server processes, each running a Scheduler
          CancelTasks,   \* tasks a client sends DELETE /tasks/{id} for
          MaxCrashes,    \* bound on API server exits (crash or SIGTERM)
          LockCanExpire, \* TRUE: a tick may outlast schedulerLockTTL (5s)
          XAddCanFail,   \* TRUE: activateTask's XADD may return an error
          SubSecond,     \* TRUE: a scheduled_at may have a fraction of a second
          NoRecord,      \* GET task:{id} returns redis.Nil
          NoHolder       \* scheduler:lock does not exist

ASSUME CancelTasks \subseteq Tasks

VARIABLES
    record,   \* task:{id}
    zset,     \* members of tasks:scheduled
    due,      \* tasks whose score, scheduled_at.Unix(), is <= time.Now().Unix()
    passed,   \* tasks whose scheduled_at instant has passed
    enq,      \* task -> number of XADDs made for it
    lock,     \* the scheduler that set scheduler:lock, or NoHolder
    hpc,      \* task -> where its Create handler is
    spc,      \* scheduler -> where processDueTasks is
    sitems,   \* scheduler -> due task ids still to activate this tick
    scopy,    \* scheduler -> activateTask's copy of the task
    salive,   \* scheduler -> process running
    crashes,
    cpc,      \* task -> where the Cancel handler for it is
    ctask     \* task -> the Cancel handler's copy

vars == <<record, zset, due, passed, enq, lock, hpc, spc, sitems, scopy, salive,
          crashes, cpc, ctask>>

Now == 0

-----------------------------------------------------------------------------
(* TaskHandler.Create with scheduled_at in the future                      *)

\* t.State = scheduled; scheduleTask: SET task:{id} ...
CreateSet(t) ==
    /\ hpc[t] = "none"
    /\ record' = [record EXCEPT ![t] = NewTask("scheduled")]
    /\ hpc' = [hpc EXCEPT ![t] = "zadd"]
    /\ UNCHANGED <<zset, due, passed, enq, lock, spc, sitems, scopy, salive, crashes, cpc, ctask>>

\* ... then ZADD tasks:scheduled with score scheduled_at.
CreateZAdd(t) ==
    /\ hpc[t] = "zadd"
    /\ zset' = zset \cup {t}
    /\ hpc' = [hpc EXCEPT ![t] = "done"]
    /\ UNCHANGED <<record, due, passed, enq, lock, spc, sitems, scopy, salive, crashes, cpc, ctask>>

\* Cancel: GET; only pending or scheduled tasks may be cancelled.
CancelRead(t) ==
    /\ cpc[t] = "idle" /\ record[t] # NoRecord
    /\ IF record[t].state \in {"pending", "scheduled"}
         THEN /\ cpc' = [cpc EXCEPT ![t] = "write"]
              /\ ctask' = [ctask EXCEPT ![t] = record[t]]
         ELSE /\ cpc' = [cpc EXCEPT ![t] = "done"]
              /\ UNCHANGED ctask
    /\ UNCHANGED <<record, zset, due, passed, enq, lock, hpc, spc, sitems, scopy, salive, crashes>>

\* Cancel: sm.Cancel() on the copy, then UpdateTask.  The zset entry is
\* left in place.
CancelWrite(t) ==
    /\ cpc[t] = "write"
    /\ record' = [record EXCEPT ![t] = Cancel(ctask[t], Now)]
    /\ cpc' = [cpc EXCEPT ![t] = "done"]
    /\ UNCHANGED <<zset, due, passed, enq, lock, hpc, spc, sitems, scopy, salive, crashes, ctask>>

-----------------------------------------------------------------------------
(* Scheduler.processDueTasks and activateTask                              *)

\* Mutant of AcquireLock: ZRANGEBYSCORE with max +inf, not now.
AcquireLockAllScores(s) ==
    /\ salive[s] /\ spc[s] = "idle"
    /\ lock = NoHolder
    /\ lock' = s
    /\ sitems' = [sitems EXCEPT ![s] = SetToSeq(zset)]
    /\ spc' = [spc EXCEPT ![s] = IF zset = {} THEN "release" ELSE "get"]
    /\ UNCHANGED <<record, zset, due, passed, enq, hpc, scopy, salive, crashes, cpc, ctask>>

\* The ticker fires: SETNX scheduler:lock; on success ZRANGEBYSCORE
\* tasks:scheduled -inf now.  A failed SETNX returns at once.
AcquireLock(s) ==
    /\ salive[s] /\ spc[s] = "idle"
    /\ lock = NoHolder
    /\ lock' = s
    /\ sitems' = [sitems EXCEPT ![s] = SetToSeq(zset \cap due)]
    /\ spc' = [spc EXCEPT ![s] = IF zset \cap due = {} THEN "release" ELSE "get"]
    /\ UNCHANGED <<record, zset, due, passed, enq, hpc, scopy, salive, crashes, cpc, ctask>>

\* Mutant of NextItem: the end of the loop is tested before the task
\* just handled is dropped.
NextItemEarlyTest(s) ==
    /\ sitems' = [sitems EXCEPT ![s] = Tail(@)]
    /\ spc' = [spc EXCEPT ![s] = IF sitems[s] = <<>> THEN "release" ELSE "get"]

\* After one task: on to the next, or to the deferred DEL.
NextItem(s) ==
    /\ sitems' = [sitems EXCEPT ![s] = Tail(@)]
    /\ spc' = [spc EXCEPT ![s] = IF Tail(sitems[s]) = <<>> THEN "release" ELSE "get"]

\* Mutant of ActGet: a task no longer scheduled is skipped without its
\* ZREM.
ActGetKeepsEntry(s) ==
    LET t == Head(sitems[s]) IN
    /\ salive[s] /\ spc[s] = "get"
    /\ IF record[t] = NoRecord \/ record[t].state # "scheduled"
         THEN /\ NextItem(s)
              /\ UNCHANGED <<zset, scopy>>
         ELSE /\ scopy' = [scopy EXCEPT ![s] = Transition(record[t], "pending", Now)]
              /\ spc' = [spc EXCEPT ![s] = "set"]
              /\ UNCHANGED <<zset, sitems>>
    /\ UNCHANGED <<record, due, passed, enq, lock, hpc, salive, crashes, cpc, ctask>>

\* activateTask: GET the task.  Missing, or no longer scheduled: ZREM it
\* and go on.  Otherwise Transition(pending) on the copy.
ActGet(s) ==
    LET t == Head(sitems[s]) IN
    /\ salive[s] /\ spc[s] = "get"
    /\ IF record[t] = NoRecord \/ record[t].state # "scheduled"
         THEN /\ zset' = zset \ {t}
              /\ NextItem(s)
              /\ UNCHANGED scopy
         ELSE /\ scopy' = [scopy EXCEPT ![s] = Transition(record[t], "pending", Now)]
              /\ spc' = [spc EXCEPT ![s] = "set"]
              /\ UNCHANGED <<zset, sitems>>
    /\ UNCHANGED <<record, due, passed, enq, lock, hpc, salive, crashes, cpc, ctask>>

\* UpdateTask: SET the pending copy.
ActSet(s) ==
    /\ salive[s] /\ spc[s] = "set"
    /\ record' = [record EXCEPT ![Head(sitems[s])] = scopy[s]]
    /\ spc' = [spc EXCEPT ![s] = "xadd"]
    /\ UNCHANGED <<zset, due, passed, enq, lock, hpc, sitems, scopy, salive, crashes, cpc, ctask>>

\* XADD to the task's stream.  On an error activateTask returns it and
\* processDueTasks goes on with the next task: the zset entry stays.
ActXAdd(s) ==
    LET t == Head(sitems[s]) IN
    /\ salive[s] /\ spc[s] = "xadd"
    /\ \E ok \in IF XAddCanFail THEN BOOLEAN ELSE {TRUE} :
         IF ok THEN /\ enq' = [enq EXCEPT ![t] = @ + 1]
                    /\ spc' = [spc EXCEPT ![s] = "zrem"]
                    /\ UNCHANGED sitems
               ELSE /\ NextItem(s)
                    /\ UNCHANGED enq
    /\ UNCHANGED <<record, zset, due, passed, lock, hpc, scopy, salive, crashes, cpc, ctask>>

\* ZREM tasks:scheduled <id>.
ActZRem(s) ==
    /\ salive[s] /\ spc[s] = "zrem"
    /\ zset' = zset \ {Head(sitems[s])}
    /\ NextItem(s)
    /\ UNCHANGED <<record, due, passed, enq, lock, hpc, scopy, salive, crashes, cpc, ctask>>

\* The deferred DEL scheduler:lock, whoever holds it now.
Release(s) ==
    /\ salive[s] /\ spc[s] = "release"
    /\ lock' = NoHolder
    /\ spc' = [spc EXCEPT ![s] = "idle"]
    /\ UNCHANGED <<record, zset, due, passed, enq, hpc, sitems, scopy, salive, crashes, cpc, ctask>>

-----------------------------------------------------------------------------
(* Environment                                                             *)

\* The clock moves on.  Both Unix() calls truncate to whole seconds: the
\* score of a task becomes <= now when the second of its scheduled_at
\* begins, and only then, or later if scheduled_at has a fraction, does
\* scheduled_at itself pass.
BecomeDue(t) ==
    /\ hpc[t] # "none" /\ t \notin passed
    /\ due' = due \cup {t}
    /\ passed' = IF SubSecond /\ t \notin due THEN passed ELSE passed \cup {t}
    /\ UNCHANGED <<record, zset, enq, lock, hpc, spc, sitems, scopy, salive, crashes, cpc, ctask>>

\* A scheduler between its SETNX and its DEL.
InTick(s) == salive[s] /\ spc[s] \in {"get", "set", "xadd", "zrem", "release"}

\* schedulerLockTTL elapses: always possible once the holder's tick is
\* over (it crashed), and during the tick only if a tick can outlast the
\* TTL.
LockExpires ==
    /\ lock # NoHolder
    /\ ~InTick(lock) \/ LockCanExpire
    /\ lock' = NoHolder
    /\ UNCHANGED <<record, zset, due, passed, enq, hpc, spc, sitems, scopy, salive, crashes, cpc, ctask>>

\* An API server process dies ...
Crash(s) ==
    /\ salive[s] /\ crashes < MaxCrashes
    /\ salive' = [salive EXCEPT ![s] = FALSE]
    /\ crashes' = crashes + 1
    /\ spc' = [spc EXCEPT ![s] = "idle"]
    /\ sitems' = [sitems EXCEPT ![s] = <<>>]
    /\ scopy' = [scopy EXCEPT ![s] = NoRecord]
    /\ UNCHANGED <<record, zset, due, passed, enq, lock, hpc, cpc, ctask>>

\* SIGTERM: main calls scheduler.Stop, which closes stopCh and waits for
\* the loop; the loop reads stopCh only in its select, between two ticks.
\* The hub and the HTTP server stop next and the process exits.
Shutdown(s) ==
    /\ salive[s] /\ spc[s] = "idle" /\ crashes < MaxCrashes
    /\ salive' = [salive EXCEPT ![s] = FALSE]
    /\ crashes' = crashes + 1
    /\ UNCHANGED <<record, zset, due, passed, enq, lock, hpc, spc, sitems, scopy, cpc, ctask>>

\* The API server is started again: main builds a fresh Scheduler and
\* starts its loop.
Restart(s) ==
    /\ ~salive[s]
    /\ salive' = [salive EXCEPT ![s] = TRUE]
    /\ UNCHANGED <<record, zset, due, passed, enq, lock, hpc, spc, sitems, scopy, crashes, cpc, ctask>>

-----------------------------------------------------------------------------

Init ==
    /\ record = [t \in Tasks |-> NoRecord]
    /\ zset = {} /\ due = {} /\ passed = {}
    /\ enq = [t \in Tasks |-> 0]
    /\ lock = NoHolder
    /\ hpc = [t \in Tasks |-> "none"]
    /\ spc = [s \in Schedulers |-> "idle"]
    /\ sitems = [s \in Schedulers |-> <<>>]
    /\ scopy = [s \in Schedulers |-> NoRecord]
    /\ salive = [s \in Schedulers |-> TRUE]
    /\ crashes = 0
    /\ cpc = [t \in CancelTasks |-> "idle"]
    /\ ctask = [t \in CancelTasks |-> NoRecord]

SchedulerStep(s) ==
    \/ AcquireLock(s) \/ ActGet(s) \/ ActSet(s) \/ ActXAdd(s) \/ ActZRem(s)
    \/ Release(s)

Next ==
    \/ \E t \in Tasks : CreateSet(t) \/ CreateZAdd(t) \/ BecomeDue(t)
    \/ \E t \in CancelTasks : CancelRead(t) \/ CancelWrite(t)
    \/ \E s \in Schedulers : SchedulerStep(s) \/ Crash(s) \/ Shutdown(s)
                             \/ Restart(s)
    \/ LockExpires

\* The ticker of a running scheduler fires every second, a handler runs
\* to its end, time passes, a lock's TTL runs out and an exited API server
\* is restarted.
Fairness ==
    /\ \A s \in Schedulers : WF_vars(SchedulerStep(s)) /\ WF_vars(Restart(s))
    /\ \A t \in Tasks : WF_vars(CreateZAdd(t)) /\ WF_vars(BecomeDue(t))
    /\ \A t \in CancelTasks : WF_vars(CancelWrite(t))
    /\ WF_vars(LockExpires)

Spec == Init /\ [][Next]_vars
FairSpec == Spec /\ Fairness

-----------------------------------------------------------------------------
(* Refinement: the scheduler implements DelayedQueue.  A task is waiting  *)
(* from its ZADD until it leaves tasks:scheduled; it is released by the    *)
(* XADD of activateTask (the ZREM that follows changes nothing abstract),  *)
(* and dropped when it leaves the zset without an XADD.  The abstract      *)
(* message count is the number of XADDs, so a second promotion is a step   *)
(* DelayedQueue does not allow.                                            *)

DQPhase(t) ==
    CASE enq[t] > 0      -> "released"
      [] hpc[t] # "done" -> "none"
      [] t \in zset      -> "waiting"
      [] OTHER           -> "dropped"

DQ == INSTANCE DelayedQueue
        WITH phase <- [t \in Tasks |-> DQPhase(t)], queued <- enq, due <- passed

-----------------------------------------------------------------------------
(* Properties                                                              *)

\* Types, and a scheduler is inside processDueTasks exactly while it has
\* tasks left or is about to DEL the lock.
TypeOK ==
    /\ record \in [Tasks -> TaskRecs({NoWorker}, {Now}) \cup {NoRecord}]
    /\ zset \subseteq Tasks /\ due \subseteq Tasks /\ passed \subseteq due
    /\ enq \in [Tasks -> Nat]
    /\ lock \in Schedulers \cup {NoHolder}
    /\ \A s \in Schedulers :
         (sitems[s] = <<>>) <=> (spc[s] \in {"idle", "release"})

\* The SETNX lock keeps processDueTasks to one API server at a time (the
\* comment at scheduler.go:78), even across a crash of the holder.  With
\* LockCanExpire FALSE it holds by NX alone; it is the property the
\* lock-expiry variant (LockCanExpire TRUE) breaks.
LockExclusion ==
    \A s1, s2 \in Schedulers : (InTick(s1) /\ InTick(s2)) => s1 = s2

\* The scheduler keeps the promise of the delayed index (DelayedQueue):
\* processDueTasks promotes only tasks whose score has passed, at most
\* once each (two API servers, a crash of the lock holder between XADD and
\* ZREM, a Cancel between GET and SET), never promotes a task it dropped,
\* and every task whose time has come leaves the index.
DelayedQueueSpec == DQ!Spec

\* A task the scheduler has made pending and taken out of the zset has
\* been added to its stream: the SET / XADD / ZREM order of activateTask
\* must not leave a pending task that no worker will ever read.
PendingIsQueued ==
    \A t \in Tasks :
        (record[t] # NoRecord /\ record[t].state = "pending" /\ t \notin zset)
            => enq[t] >= 1

\* Every created scheduled task is eventually activated or dropped: it
\* leaves tasks:scheduled and its record is no longer scheduled.
EventuallyActivated ==
    \A t \in Tasks :
        (hpc[t] = "done")
            ~> (t \notin zset /\ record[t] # NoRecord /\ record[t].state # "scheduled")
=============================================================================
