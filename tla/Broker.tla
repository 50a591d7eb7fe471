------------------------------- MODULE Broker -------------------------------
(***************************************************************************)
(* The delivery core of task-queue-go: the Redis store (task records,      *)
(* one stream per priority, the consumer group's pending entry list),      *)
(* RedisQueue's Enqueue / DequeueBlocking / Acknowledge /                  *)
(* ClaimOrphanedTasks (internal/queue/queue.go), the worker pool's task    *)
(* fibers and recovery loop (internal/worker/pool.go), DLQ.Add             *)
(* (internal/queue/dlq.go) and the API's Create and Cancel handlers        *)
(* (internal/api/handlers/task.go).                                        *)
(*                                                                         *)
(* Every Redis command is atomic; an action is one command, or a command   *)
(* together with the local computation before it.  A stream message is     *)
(* <<task, k>>: k tells apart the messages of one task that are live at    *)
(* the same time (Redis gives each XADD a fresh id).                       *)
(***************************************************************************)
EXTENDS Naturals, Sequences, FiniteSets, SequencesExt, TaskState

CONSTANTS Tasks,          \* task ids
          Pools,          \* worker pool ids = consumer names in the group
          Concurrency,    \* WorkerConfig.Concurrency: task fibers per pool
          PriorityOrder,  \* the streams, highest priority first
          TaskPriority,   \* Task.Priority of each task
          CancelTasks,    \* tasks a client sends DELETE /tasks/{id} for
          MaxCrashes,     \* bound on pool process crashes
          MaxMsgId,       \* bound on k in a message <<task, k>>
          LiveReclaim,    \* TRUE: a PEL entry may pass ClaimMinIdle while
                          \* its fiber still works on it (handler slower
                          \* than claimMinIdle, e.g. Timeout 5m > 30s)
          MaxQueueSize,   \* QueueConfig.MaxQueueSize (0: no capacity check)
          NoRecord,       \* GET task:{id} returns redis.Nil
          NoMsg           \* a fiber holding no stream message

Priorities == {PriorityOrder[i] : i \in DOMAIN PriorityOrder}
Fibers == Pools \X (1..Concurrency)
Msgs == Tasks \X (1..MaxMsgId)
Now == 0   \* time.Now(): timestamps are only told apart from nil here

ASSUME /\ TaskPriority \in [Tasks -> Priorities]
       /\ CancelTasks \subseteq Tasks
       /\ MaxCrashes < Cardinality(Pools)
       /\ MaxQueueSize \in Nat

VARIABLES
    record,   \* task:{id} -> the stored Task, or NoRecord
    stream,   \* priority -> messages not yet delivered to the group
    pel,      \* pending entry list: delivered, unacked message -> owner
    aged,     \* PEL entries idle for at least claimMinIdle
    fpc,      \* fiber -> where it is in worker()/processNextTask
    fmsg,     \* fiber -> the stream message it holds
    ftask,    \* fiber -> its in-memory copy of the task
    rpc,      \* pool -> where its recoveryLoop is
    ritems,   \* pool -> claimed <<message, task>> still to re-enqueue
    alive,    \* pool -> process running
    crashes,  \* number of pool crashes so far
    cpc,      \* task -> where the Cancel handler for it is
    ctask,    \* task -> the Cancel handler's copy of the task
    dlq,      \* tasks:dlq stream entries [task, snap]
    dlqSet    \* tasks:dlq:set

storeVars == <<record, stream, pel, aged, dlq, dlqSet>>
poolVars == <<fpc, fmsg, ftask, rpc, ritems, alive, crashes>>
apiVars == <<cpc, ctask>>
vars == <<storeVars, poolVars, apiVars>>

-----------------------------------------------------------------------------
(* Store helpers                                                           *)

\* Messages a task id may still be referred to by: queued, pending or held.
LiveMsgs ==
    UNION {{stream[p][i] : i \in DOMAIN stream[p]} : p \in Priorities}
    \cup DOMAIN pel
    \cup {fmsg[f] : f \in Fibers} \cup
    UNION {{ritems[p][i][1] : i \in DOMAIN ritems[p]} : p \in Pools}

\* The id the next XADD for task t gets.
FreshMsg(t) ==
    LET used == {m[2] : m \in {x \in LiveMsgs : x # NoMsg /\ x[1] = t}}
        free == (1..(Cardinality(used) + 1)) \ used
    IN  <<t, CHOOSE k \in free : \A j \in free : k <= j>>

\* XADD {prefix}:{priority} task_id=<t>
XAdd(t) == stream' = [stream EXCEPT ![TaskPriority[t]] = Append(@, FreshMsg(t))]

\* XACK: removes the entry from the PEL whoever owns it; a no-op otherwise.
AckMsg(m) == /\ pel' = [x \in DOMAIN pel \ {m} |-> pel[x]]
             /\ aged' = aged \ {m}

SetRecord(t, r) == record' = [record EXCEPT ![t] = r]

PoolOf(f) == f[1]

\* GetQueueDepth summed over the priorities: XINFO GROUPS reports the
\* group's pending count, the delivered and unacked entries, whatever
\* still waits undelivered in the stream.
QueueDepth == Cardinality(DOMAIN pel)

-----------------------------------------------------------------------------
(* API server: TaskHandler.Create (non-scheduled) and TaskHandler.Cancel   *)

\* Create: when MaxQueueSize is set and the summed depth has reached it,
\* answer 503 and leave the store alone (the request is a no-op step);
\* else queue.Enqueue: SET task:{id}, then XADD its stream.
Submit(t) ==
    /\ record[t] = NoRecord
    /\ MaxQueueSize > 0 => QueueDepth < MaxQueueSize
    /\ SetRecord(t, NewTask("pending"))
    /\ XAdd(t)
    /\ UNCHANGED <<pel, aged, dlq, dlqSet, poolVars, apiVars>>

\* Cancel: GET the task; only pending or scheduled tasks may be cancelled,
\* any other state answers 409.
CancelRead(t) ==
    /\ cpc[t] = "idle"
    /\ record[t] # NoRecord
    /\ IF record[t].state \in {"pending", "scheduled"}
         THEN /\ cpc' = [cpc EXCEPT ![t] = "write"]
              /\ ctask' = [ctask EXCEPT ![t] = record[t]]
         ELSE /\ cpc' = [cpc EXCEPT ![t] = "done"]
              /\ UNCHANGED ctask
    /\ UNCHANGED <<storeVars, poolVars>>

\* Cancel: sm.Cancel() on the copy read, then UpdateTask (SET).
CancelWrite(t) ==
    /\ cpc[t] = "write"
    /\ SetRecord(t, Cancel(ctask[t], Now))
    /\ cpc' = [cpc EXCEPT ![t] = "done"]
    /\ UNCHANGED <<stream, pel, aged, dlq, dlqSet, poolVars, ctask>>

-----------------------------------------------------------------------------
(* Worker pool: the task fibers                                            *)

\* worker() loop + DequeueBlocking: one XREADGROUP over all streams with
\* COUNT 1 and ">" delivers the next message of EVERY non-empty stream to
\* this consumer; the code takes result[0], the highest priority one, and
\* GETs its task.  A missing record is acked and the fiber loops.
Dequeue(f) ==
    LET p      == PoolOf(f)
        avail  == {q \in Priorities : stream[q] # <<>>}
        top    == PriorityOrder[CHOOSE i \in DOMAIN PriorityOrder :
                      /\ PriorityOrder[i] \in avail
                      /\ \A j \in DOMAIN PriorityOrder :
                            PriorityOrder[j] \in avail => i <= j]
        m      == Head(stream[top])
        got    == {Head(stream[q]) : q \in avail}
        pel1   == [x \in DOMAIN pel \cup got |-> IF x \in got THEN p ELSE pel[x]]
    IN
    /\ alive[p] /\ fpc[f] = "idle"
    /\ avail # {}
    /\ stream' = [q \in Priorities |-> IF q \in avail THEN Tail(stream[q])
                                                       ELSE stream[q]]
    /\ IF record[m[1]] = NoRecord
         THEN /\ pel' = [x \in DOMAIN pel1 \ {m} |-> pel1[x]]
              /\ UNCHANGED <<fpc, fmsg, ftask>>
         ELSE /\ pel' = pel1
              /\ fpc' = [fpc EXCEPT ![f] = "start"]
              /\ fmsg' = [fmsg EXCEPT ![f] = m]
              /\ ftask' = [ftask EXCEPT ![f] = record[m[1]]]
    /\ UNCHANGED <<record, aged, dlq, dlqSet, rpc, ritems, alive, crashes, apiVars>>

\* DequeueBlocking times out (redis.Nil after blockTimeout) on empty
\* streams: processNextTask returns nil and the fiber loops.
DequeueTimeout(f) ==
    /\ alive[PoolOf(f)] /\ fpc[f] = "idle"
    /\ \A q \in Priorities : stream[q] = <<>>
    /\ UNCHANGED vars

\* processNextTask: sm.Start(p.id) on the copy, then UpdateTask (SET).
\* A rejected Start returns the error: the message is neither acked nor
\* handed back, it stays in the PEL under this consumer.
StartTask(f) ==
    LET t == fmsg[f][1] IN
    /\ alive[PoolOf(f)] /\ fpc[f] = "start"
    /\ IF StartOK(ftask[f])
         THEN /\ ftask' = [ftask EXCEPT ![f] = Start(ftask[f], PoolOf(f), Now)]
              /\ SetRecord(t, ftask'[f])
              /\ fpc' = [fpc EXCEPT ![f] = "run"]
              /\ UNCHANGED fmsg
         ELSE /\ fpc' = [fpc EXCEPT ![f] = "idle"]
              /\ fmsg' = [fmsg EXCEPT ![f] = NoMsg]
              /\ ftask' = [ftask EXCEPT ![f] = NoRecord]
              /\ UNCHANGED record
    /\ UNCHANGED <<stream, pel, aged, dlq, dlqSet, rpc, ritems, alive, crashes, apiVars>>

\* What the worker's registered handlers return, TRUE for a result:
\* echo, sleep and compute succeed (sleep and compute fail once ctx is
\* done), fail always returns an error.
ExecResults == BOOLEAN

\* Executor.Execute returns, then handleTaskSuccess / handleTaskFailure
\* update the copy and SET it:
\*   success            -> sm.Complete(result)
\*   error, CanRetry    -> sm.Retry() (error logged), t.Error = err
\*   error, no retries  -> sm.Fail(err)
\* Timeouts, cancellation, panics and a missing handler are all errors.
Finish(f) ==
    LET t == fmsg[f][1]
        r == ftask[f]
    IN
    /\ alive[PoolOf(f)] /\ fpc[f] = "run"
    /\ \E ok \in ExecResults :
         LET r2 == IF ok THEN Complete(r, Now)
                   ELSE IF CanRetry(r)
                        THEN [TryTransition(r, RetryTarget(r), Now) EXCEPT !.err = TRUE]
                        ELSE Fail(r, Now)
         IN /\ ftask' = [ftask EXCEPT ![f] = r2]
            /\ SetRecord(t, r2)
            /\ fpc' = [fpc EXCEPT ![f] = IF ok THEN "ack"
                                          ELSE IF CanRetry(r) THEN "enq_set"
                                          ELSE "dlq_add"]
    /\ UNCHANGED <<stream, pel, aged, dlq, dlqSet, fmsg, rpc, ritems, alive, crashes, apiVars>>

\* Mutant of RetryEnqueueSet: the old message is acked before the new one
\* is added.
RetryEnqueueSetAcksFirst(f) ==
    /\ alive[PoolOf(f)] /\ fpc[f] = "enq_set"
    /\ ftask' = [ftask EXCEPT ![f] = PrepareForRequeue(ftask[f], Now)]
    /\ SetRecord(fmsg[f][1], ftask'[f])
    /\ AckMsg(fmsg[f])
    /\ fpc' = [fpc EXCEPT ![f] = "enq_xadd"]
    /\ UNCHANGED <<stream, dlq, dlqSet, fmsg, rpc, ritems, alive, crashes, apiVars>>

\* Retry path: retryer.PrepareForRequeue(t), then Enqueue's SET ...
RetryEnqueueSet(f) ==
    /\ alive[PoolOf(f)] /\ fpc[f] = "enq_set"
    /\ ftask' = [ftask EXCEPT ![f] = PrepareForRequeue(ftask[f], Now)]
    /\ SetRecord(fmsg[f][1], ftask'[f])
    /\ fpc' = [fpc EXCEPT ![f] = "enq_xadd"]
    /\ UNCHANGED <<stream, pel, aged, dlq, dlqSet, fmsg, rpc, ritems, alive, crashes, apiVars>>

\* ... and Enqueue's XADD of a new message for the task.
RetryEnqueueXAdd(f) ==
    /\ alive[PoolOf(f)] /\ fpc[f] = "enq_xadd"
    /\ XAdd(fmsg[f][1])
    /\ fpc' = [fpc EXCEPT ![f] = "ack"]
    /\ UNCHANGED <<record, pel, aged, dlq, dlqSet, fmsg, ftask, rpc, ritems, alive, crashes, apiVars>>

\* DLQ.Add: MoveToDLQ on the copy (forced when invalid), XADD tasks:dlq
\* and SADD tasks:dlq:set.  The task record itself is not written.
DLQAdd(f) ==
    LET t == fmsg[f][1]
        r == ForceDeadLetter(ftask[f], Now)
    IN
    /\ alive[PoolOf(f)] /\ fpc[f] = "dlq_add"
    /\ ftask' = [ftask EXCEPT ![f] = r]
    /\ dlq' = dlq \cup {[task |-> t, snap |-> r]}
    /\ dlqSet' = dlqSet \cup {t}
    /\ fpc' = [fpc EXCEPT ![f] = "ack"]
    /\ UNCHANGED <<record, stream, pel, aged, fmsg, rpc, ritems, alive, crashes, apiVars>>

\* Mutant of AckTask: the fiber keeps the message id it acked.
AckTaskKeepsMsg(f) ==
    /\ alive[PoolOf(f)] /\ fpc[f] = "ack"
    /\ AckMsg(fmsg[f])
    /\ fpc' = [fpc EXCEPT ![f] = "idle"]
    /\ UNCHANGED <<fmsg, ftask, record, stream, dlq, dlqSet, rpc, ritems, alive, crashes, apiVars>>

\* queue.Acknowledge of the message the fiber dequeued; the fiber releases
\* its semaphore slot and loops.
AckTask(f) ==
    /\ alive[PoolOf(f)] /\ fpc[f] = "ack"
    /\ AckMsg(fmsg[f])
    /\ fpc' = [fpc EXCEPT ![f] = "idle"]
    /\ fmsg' = [fmsg EXCEPT ![f] = NoMsg]
    /\ ftask' = [ftask EXCEPT ![f] = NoRecord]
    /\ UNCHANGED <<record, stream, dlq, dlqSet, rpc, ritems, alive, crashes, apiVars>>

-----------------------------------------------------------------------------
(* Worker pool: the recovery loop                                          *)

\* recoverOrphanedTasks -> ClaimOrphanedTasks: XPENDING each stream, XCLAIM
\* every entry idle >= claimMinIdle (ownership moves to this consumer and
\* its idle time restarts), GET its task; entries whose task is missing
\* stay claimed and unacked.  XCLAIMs of distinct entries commute, so the
\* scan is one step.  (RecoverClaimOwn, a mutant: XPENDING restricted to
\* this pool's own consumer.)
RecoverClaimOwn(p) ==
    LET claim == {m \in aged \cap DOMAIN pel : pel[m] = p}
        found == {m \in claim : record[m[1]] # NoRecord}
    IN
    /\ alive[p] /\ rpc[p] = "idle"
    /\ claim # {}
    /\ aged' = aged \ claim
    /\ ritems' = [ritems EXCEPT ![p] =
                    LET order == SetToSeq(found)
                    IN  [i \in DOMAIN order |-> <<order[i], record[order[i][1]]>>]]
    /\ rpc' = [rpc EXCEPT ![p] = IF found = {} THEN "idle" ELSE "set"]
    /\ UNCHANGED <<pel, record, stream, dlq, dlqSet, fpc, fmsg, ftask, alive, crashes, apiVars>>

RecoverClaim(p) ==
    LET claim == aged \cap DOMAIN pel
        found == {m \in claim : record[m[1]] # NoRecord}
    IN
    /\ alive[p] /\ rpc[p] = "idle"
    /\ claim # {}
    /\ pel' = [x \in DOMAIN pel |-> IF x \in claim THEN p ELSE pel[x]]
    /\ aged' = aged \ claim
    /\ ritems' = [ritems EXCEPT ![p] =
                    LET order == SetToSeq(found)
                    IN  [i \in DOMAIN order |-> <<order[i], record[order[i][1]]>>]]
    /\ rpc' = [rpc EXCEPT ![p] = IF found = {} THEN "idle" ELSE "set"]
    /\ UNCHANGED <<record, stream, dlq, dlqSet, fpc, fmsg, ftask, alive, crashes, apiVars>>

\* Mutant of RecoverSet: the old message is acked together with the SET,
\* before the new one is added.
RecoverSetAcksFirst(p) ==
    LET it == Head(ritems[p])
        r  == PrepareForRequeue(it[2], Now)
    IN
    /\ alive[p] /\ rpc[p] = "set"
    /\ SetRecord(it[1][1], r)
    /\ AckMsg(it[1])
    /\ ritems' = [ritems EXCEPT ![p][1] = <<it[1], r>>]
    /\ rpc' = [rpc EXCEPT ![p] = "xadd"]
    /\ UNCHANGED <<stream, dlq, dlqSet, fpc, fmsg, ftask, alive, crashes, apiVars>>

\* For each claimed task: PrepareForRequeue, then Enqueue's SET ...
RecoverSet(p) ==
    LET it == Head(ritems[p])
        r  == PrepareForRequeue(it[2], Now)
    IN
    /\ alive[p] /\ rpc[p] = "set"
    /\ SetRecord(it[1][1], r)
    /\ ritems' = [ritems EXCEPT ![p][1] = <<it[1], r>>]
    /\ rpc' = [rpc EXCEPT ![p] = "xadd"]
    /\ UNCHANGED <<stream, pel, aged, dlq, dlqSet, fpc, fmsg, ftask, alive, crashes, apiVars>>

\* ... Enqueue's XADD ...
RecoverXAdd(p) ==
    /\ alive[p] /\ rpc[p] = "xadd"
    /\ XAdd(Head(ritems[p])[1][1])
    /\ rpc' = [rpc EXCEPT ![p] = "ack"]
    /\ UNCHANGED <<record, pel, aged, dlq, dlqSet, fpc, fmsg, ftask, ritems, alive, crashes, apiVars>>

\* ... and Acknowledge of the old message.
RecoverAck(p) ==
    /\ alive[p] /\ rpc[p] = "ack"
    /\ AckMsg(Head(ritems[p])[1])
    /\ ritems' = [ritems EXCEPT ![p] = Tail(@)]
    /\ rpc' = [rpc EXCEPT ![p] = IF Tail(ritems[p]) = <<>> THEN "idle" ELSE "set"]
    /\ UNCHANGED <<record, stream, dlq, dlqSet, fpc, fmsg, ftask, alive, crashes, apiVars>>

-----------------------------------------------------------------------------
(* Environment: time and crashes                                           *)

\* The message is held by a running fiber or recovery loop.
Held(m) ==
    \/ \E f \in Fibers : alive[PoolOf(f)] /\ fmsg[f] = m
    \/ \E p \in Pools : alive[p] /\ \E i \in DOMAIN ritems[p] : ritems[p][i][1] = m

\* claimMinIdle elapses for a PEL entry.  Unless LiveReclaim, only for an
\* entry nobody alive is working on.
Age(m) ==
    /\ m \in DOMAIN pel \ aged
    /\ LiveReclaim \/ ~Held(m)
    /\ aged' = aged \cup {m}
    /\ UNCHANGED <<record, stream, pel, dlq, dlqSet, poolVars, apiVars>>

\* A pool process dies: its goroutines and in-memory copies are gone, its
\* PEL entries stay in Redis.
Crash(p) ==
    /\ alive[p] /\ crashes < MaxCrashes
    /\ alive' = [alive EXCEPT ![p] = FALSE]
    /\ crashes' = crashes + 1
    /\ fpc' = [f \in Fibers |-> IF PoolOf(f) = p THEN "dead" ELSE fpc[f]]
    /\ fmsg' = [f \in Fibers |-> IF PoolOf(f) = p THEN NoMsg ELSE fmsg[f]]
    /\ ftask' = [f \in Fibers |-> IF PoolOf(f) = p THEN NoRecord ELSE ftask[f]]
    /\ rpc' = [rpc EXCEPT ![p] = "dead"]
    /\ ritems' = [ritems EXCEPT ![p] = <<>>]
    /\ UNCHANGED <<storeVars, apiVars>>

-----------------------------------------------------------------------------

\* NewRedisQueue: initStreams creates each priority stream with the
\* consumer group at id 0 (BUSYGROUP, when it exists, is not an error).
\* The DLQ stream and set do not exist until the first Add.
InitStore ==
    /\ record = [t \in Tasks |-> NoRecord]
    /\ stream = [q \in Priorities |-> <<>>]
    /\ pel = <<>>
    /\ aged = {}
    /\ dlq = {}
    /\ dlqSet = {}

Init ==
    /\ InitStore
    /\ fpc = [f \in Fibers |-> "idle"]
    /\ fmsg = [f \in Fibers |-> NoMsg]
    /\ ftask = [f \in Fibers |-> NoRecord]
    /\ rpc = [p \in Pools |-> "idle"]
    /\ ritems = [p \in Pools |-> <<>>]
    /\ alive = [p \in Pools |-> TRUE]
    /\ crashes = 0
    /\ cpc = [t \in CancelTasks |-> "idle"]
    /\ ctask = [t \in CancelTasks |-> NoRecord]

FiberStep(f) ==
    \/ Dequeue(f) \/ DequeueTimeout(f) \/ StartTask(f) \/ Finish(f) \/ RetryEnqueueSet(f)
    \/ RetryEnqueueXAdd(f) \/ DLQAdd(f) \/ AckTask(f)

RecoveryStep(p) ==
    RecoverClaim(p) \/ RecoverSet(p) \/ RecoverXAdd(p) \/ RecoverAck(p)

Next ==
    \/ \E t \in Tasks : Submit(t)
    \/ \E t \in CancelTasks : CancelRead(t) \/ CancelWrite(t)
    \/ \E f \in Fibers : FiberStep(f)
    \/ \E p \in Pools : RecoveryStep(p) \/ Crash(p)
    \/ \E m \in DOMAIN pel : Age(m)

\* Goroutines are scheduled, tickers fire and idle time grows: every step
\* of a running fiber, recovery loop or open Cancel request is weakly fair,
\* and so is the passing of claimMinIdle.  Submits, cancels and crashes
\* are the environment's choice.
Fairness ==
    /\ \A f \in Fibers : WF_vars(FiberStep(f))
    /\ \A p \in Pools : WF_vars(RecoveryStep(p))
    /\ \A t \in CancelTasks : WF_vars(CancelWrite(t))
    /\ \A m \in Msgs : WF_vars(Age(m))

Spec == Init /\ [][Next]_vars
FairSpec == Spec /\ Fairness

-----------------------------------------------------------------------------
(* Properties                                                              *)

TypeOK ==
    /\ record \in [Tasks -> TaskRecs(Pools, {Now}) \cup {NoRecord}]
    /\ stream \in [Priorities -> Seq(Msgs)]
    /\ DOMAIN pel \subseteq Msgs /\ \A m \in DOMAIN pel : pel[m] \in Pools
    /\ aged \subseteq DOMAIN pel
    /\ fmsg \in [Fibers -> Msgs \cup {NoMsg}]
    /\ ftask \in [Fibers -> TaskRecs(Pools, {Now}) \cup {NoRecord}]
    /\ \A p \in Pools : ritems[p] \in Seq(Msgs \X TaskRecs(Pools, {Now}))
    /\ crashes \in 0..MaxCrashes
    /\ \A f \in Fibers : (fmsg[f] = NoMsg) <=> (fpc[f] \in {"idle", "dead"})

\* A message of t is still queued or pending in the consumer group.
Queued(t) ==
    \/ \E q \in Priorities : \E i \in DOMAIN stream[q] : stream[q][i][1] = t
    \/ \E m \in DOMAIN pel : m[1] = t

\* A running fiber or recovery loop is about to XADD a message for t.
WillEnqueue(t) ==
    \/ \E f \in Fibers : /\ alive[PoolOf(f)]
                         /\ fpc[f] \in {"enq_set", "enq_xadd"}
                         /\ fmsg[f][1] = t
    \/ \E p \in Pools : /\ alive[p] /\ rpc[p] \in {"set", "xadd"}
                        /\ Head(ritems[p])[1][1] = t

\* At-least-once delivery (spec sections 1 and 5): a task whose stored state
\* is not final always has a message in its stream or the PEL, or a live
\* worker about to add one, so some worker will get it again.  The retry
\* path and the recovery loop must XADD the new message before they XACK
\* the old one, and a crash between any two of their steps must leave one.
AtLeastOnce ==
    \A t \in Tasks :
        (record[t] # NoRecord /\ ~IsFinal(record[t].state))
            => Queued(t) \/ WillEnqueue(t)

\* Every submitted task eventually settles: its stored state is final and
\* no message of it is left queued or pending.  Needs the pool fibers,
\* the recovery ticker and the passing of claimMinIdle to keep going.
EventuallySettled ==
    <>[](\A t \in Tasks : record[t] # NoRecord =>
            (IsFinal(record[t].state) /\ ~Queued(t)))

\* Spec section 3: a task is owned by at most one worker at a time; no two
\* fibers execute the same task at once.
ExclusiveExecution ==
    \A f, g \in Fibers :
        (f # g /\ fpc[f] = "run" /\ fpc[g] = "run") => fmsg[f][1] # fmsg[g][1]

\* Spec section 3: completed and cancelled are terminal, the stored state
\* of such a task never changes again.
TerminalStable ==
    [][\A t \in Tasks :
         (record[t] # NoRecord /\ record[t].state \in {"completed", "cancelled"})
            => record'[t].state = record[t].state]_vars

\* Spec section 4.3: ClaimNext reads with count=1 and returns the one message
\* it read; every message a read delivers to the group is held by the
\* fiber that read it (or acked at once when its task is missing).
DeliveredIsHeld ==
    [][\A m \in DOMAIN pel' \ DOMAIN pel : \E f \in Fibers : fmsg'[f] = m]_vars

\* Spec section 4.7 (DLQ.Add persists the task in state dead_letter) and
\* scenario S3 (max_retries=1, a handler that always fails: state
\* dead_letter, attempts 2): a task the worker has put in tasks:dlq:set is
\* stored as dead_letter after max_retries + 1 executions.
DeadLetteredAsSpecified ==
    \A t \in dlqSet : /\ record[t] # NoRecord
                     /\ record[t].state = "dead_letter"
                     /\ record[t].attempts = MaxRetries + 1
=============================================================================
