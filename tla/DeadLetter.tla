----------------------------- MODULE DeadLetter -----------------------------
(***************************************************************************)
(* The dead letter queue (internal/queue/dlq.go) and the admin API that    *)
(* operates on it and on the task queue (internal/api/handlers/admin.go):  *)
(* DLQ.Add from the worker's failure path, DLQ.List / Retry / RetryAll /   *)
(* Remove / Clear, and the admin handlers RetryTask, RetryDLQ, ClearDLQ    *)
(* and PurgeQueue, run by API server processes that may crash.             *)
(*                                                                         *)
(* One worker fiber runs processNextTask, one step per Redis write.  Its   *)
(* pending entry list and recovery loop are left out: their interleavings  *)
(* are checked in Broker, and an XACK changes nothing modelled here, so    *)
(* it is folded into the step before it.  Priorities are left out too: a   *)
(* stream is a count of messages per task.                                 *)
(***************************************************************************)
EXTENDS Naturals, Sequences, FiniteSets, SequencesExt, TaskState

CONSTANTS Tasks,        \* task ids, all submitted pending at start
          Admins,       \* concurrent admin HTTP requests (handler goroutines)
          MaxCrashes,   \* bound on API server crashes during a request
          XAddCanFail,  \* TRUE: Enqueue's XADD may return an error
          NoRecord,     \* GET task:{id} returns redis.Nil
          NoTask        \* a process holding no task

Now == 0   \* time.Now(): timestamps are only told apart from nil here

\* The admin requests a client may send, each at most once.
Requests == ({"retry_task", "retry_dlq"} \X Tasks)
            \cup {<<"retry_all", NoTask>>, <<"clear_dlq", NoTask>>,
                  <<"purge", NoTask>>}

VARIABLES
    record,     \* task:{id} -> the stored Task, or NoRecord
    queue,      \* task -> undelivered messages for it in its stream
    dlq,        \* tasks:dlq entries [id, task, snap], in stream order
    dlqNext,    \* the id the next XADD tasks:dlq gets
    dlqSet,     \* tasks:dlq:set
    wpc,        \* where the worker fiber is in processNextTask
    wtask,      \* the task the fiber works on
    wcopy,      \* the fiber's in-memory copy of it
    apc,        \* admin request -> where its handler is
    aitems,     \* admin request -> tasks still to DLQ.Retry (RetryAll)
    atask,      \* admin request -> the task it works on
    acopy,      \* admin request -> its in-memory copy of that task
    aentry,     \* admin request -> id of the DLQ entry it retries
                \* (0: none, the handler serves RetryTask)
                \* (0: none, the handler serves RetryTask)
    issued,     \* requests sent so far
    crashes,    \* API server crashes so far
    discarded,  \* history: tasks whose messages or DLQ entries an admin
                \* deleted on purpose (PurgeQueue, ClearDLQ)
    succeeded   \* history: tasks a handler has run to success

storeVars == <<record, queue, dlq, dlqNext, dlqSet>>
workerVars == <<wpc, wtask, wcopy>>
adminVars == <<apc, aitems, atask, acopy, aentry, issued, crashes>>
vars == <<storeVars, workerVars, adminVars, discarded, succeeded>>

\* Task ids of the entries of the DLQ stream, and whether t has one.
EntryTasks == {dlq[i].task : i \in DOMAIN dlq}
HasEntry(t) == t \in EntryTasks

-----------------------------------------------------------------------------
(* The worker fiber (pool.go processNextTask)                              *)

\* DequeueBlocking: XREADGROUP one message, GET its task; a missing
\* record is acked and the fiber loops.
WDequeue(t) ==
    /\ wpc = "idle" /\ queue[t] > 0
    /\ queue' = [queue EXCEPT ![t] = @ - 1]
    /\ IF record[t] = NoRecord
         THEN UNCHANGED workerVars
         ELSE /\ wpc' = "start" /\ wtask' = t /\ wcopy' = record[t]
    /\ UNCHANGED <<record, dlq, dlqNext, dlqSet, adminVars, discarded, succeeded>>

\* Empty streams: XREADGROUP times out and the fiber loops.
WDequeueTimeout ==
    /\ wpc = "idle" /\ \A t \in Tasks : queue[t] = 0
    /\ UNCHANGED vars

\* Mutant of WStart: the error return of a rejected Start skips the
\* release of the fiber's semaphore slot, so the fiber never reads again.
WStartLeaksSlot ==
    /\ wpc = "start"
    /\ IF StartOK(wcopy)
         THEN /\ wcopy' = Start(wcopy, "w", Now)
              /\ record' = [record EXCEPT ![wtask] = wcopy']
              /\ wpc' = "run" /\ UNCHANGED wtask
         ELSE UNCHANGED <<wpc, wtask, wcopy, record>>
    /\ UNCHANGED <<queue, dlq, dlqNext, dlqSet, adminVars, discarded, succeeded>>

\* sm.Start + UpdateTask; a rejected Start returns, leaving the message
\* unacked (reclaimed by recovery, see Broker).
WStart ==
    /\ wpc = "start"
    /\ IF StartOK(wcopy)
         THEN /\ wcopy' = Start(wcopy, "w", Now)
              /\ record' = [record EXCEPT ![wtask] = wcopy']
              /\ wpc' = "run" /\ UNCHANGED wtask
         ELSE /\ wpc' = "idle" /\ wtask' = NoTask /\ wcopy' = NoRecord
              /\ UNCHANGED record
    /\ UNCHANGED <<queue, dlq, dlqNext, dlqSet, adminVars, discarded, succeeded>>

\* Execute, then handleTaskSuccess (Complete, SET, XACK) or
\* handleTaskFailure (Retry or Fail, SET).
WFinish ==
    /\ wpc = "run"
    /\ \E ok \in BOOLEAN :
         LET r  == wcopy
             r2 == IF ok THEN Complete(r, Now)
                   ELSE IF CanRetry(r)
                        THEN [TryTransition(r, RetryTarget(r), Now) EXCEPT !.err = TRUE]
                        ELSE Fail(r, Now)
         IN /\ record' = [record EXCEPT ![wtask] = r2]
            /\ wcopy' = IF ok THEN NoRecord ELSE r2
            /\ wtask' = IF ok THEN NoTask ELSE wtask
            /\ wpc' = IF ok THEN "idle"
                      ELSE IF CanRetry(r) THEN "enq_set" ELSE "dlq_xadd"
            /\ succeeded' = IF ok THEN succeeded \cup {wtask} ELSE succeeded
    /\ UNCHANGED <<queue, dlq, dlqNext, dlqSet, adminVars, discarded>>

\* Retry path: PrepareForRequeue, then Enqueue's SET ...
WEnqueueSet ==
    /\ wpc = "enq_set"
    /\ wcopy' = PrepareForRequeue(wcopy, Now)
    /\ record' = [record EXCEPT ![wtask] = wcopy']
    /\ wpc' = "enq_xadd"
    /\ UNCHANGED <<queue, dlq, dlqNext, dlqSet, wtask, adminVars, discarded, succeeded>>

\* ... and its XADD; on an XADD error Enqueue DELs the record.  The old
\* message is acked either way.
WEnqueueXAdd ==
    /\ wpc = "enq_xadd"
    /\ \E ok \in IF XAddCanFail THEN BOOLEAN ELSE {TRUE} :
         IF ok THEN /\ queue' = [queue EXCEPT ![wtask] = @ + 1]
                    /\ UNCHANGED record
               ELSE /\ record' = [record EXCEPT ![wtask] = NoRecord]
                    /\ UNCHANGED queue
    /\ wpc' = "idle" /\ wtask' = NoTask /\ wcopy' = NoRecord
    /\ UNCHANGED <<dlq, dlqNext, dlqSet, adminVars, discarded, succeeded>>

\* DLQ.Add: MoveToDLQ on the copy (forced when invalid), XADD tasks:dlq
\* with the copy embedded; the task record is not written ...
WDLQXAdd ==
    /\ wpc = "dlq_xadd"
    /\ dlq' = Append(dlq, [id |-> dlqNext, task |-> wtask,
                           snap |-> ForceDeadLetter(wcopy, Now)])
    /\ dlqNext' = dlqNext + 1
    /\ wpc' = "dlq_sadd"
    /\ UNCHANGED <<record, queue, dlqSet, wtask, wcopy, adminVars, discarded, succeeded>>

\* Mutant of WDLQSAdd: the fiber keeps the task it finished.
WDLQSAddKeepsTask ==
    /\ wpc = "dlq_sadd"
    /\ dlqSet' = dlqSet \cup {wtask}
    /\ wpc' = "idle" /\ wcopy' = NoRecord
    /\ UNCHANGED <<record, queue, dlq, dlqNext, wtask, adminVars, discarded, succeeded>>

\* ... then SADD tasks:dlq:set, and the fiber acks its message.
WDLQSAdd ==
    /\ wpc = "dlq_sadd"
    /\ dlqSet' = dlqSet \cup {wtask}
    /\ wpc' = "idle" /\ wtask' = NoTask /\ wcopy' = NoRecord
    /\ UNCHANGED <<record, queue, dlq, dlqNext, adminVars, discarded, succeeded>>

-----------------------------------------------------------------------------
(* Admin handlers (handlers/admin.go) and the DLQ methods they call        *)

Idle(a) == apc[a] = "idle"

\* A request arrives at an idle handler goroutine; it is sent once.
Issue(a, req) == /\ Idle(a) /\ req \notin issued
                 /\ issued' = issued \cup {req}

\* The handler returns (any status) and its goroutine is free again.
Done(a) == /\ apc' = [apc EXCEPT ![a] = "idle"]
           /\ atask' = [atask EXCEPT ![a] = NoTask]
           /\ acopy' = [acopy EXCEPT ![a] = NoRecord]
           /\ aitems' = [aitems EXCEPT ![a] = <<>>]
           /\ aentry' = [aentry EXCEPT ![a] = 0]

\* After one DLQ.Retry, successful or not: RetryAll goes on with the rest
\* of its list, RetryDLQ returns.
NextItem(a, rest) ==
    IF rest = <<>> THEN Done(a)
    ELSE /\ apc' = [apc EXCEPT ![a] = "find"]
         /\ aitems' = [aitems EXCEPT ![a] = rest]
         /\ atask' = [atask EXCEPT ![a] = NoTask]
         /\ acopy' = [acopy EXCEPT ![a] = NoRecord]
         /\ aentry' = [aentry EXCEPT ![a] = 0]

\* RetryTask: GET the task; only failed or dead_letter tasks pass; then
\* sm.Requeue on the copy (valid from both states).
RetryTaskGet(a, t) ==
    /\ Issue(a, <<"retry_task", t>>)
    /\ IF record[t] # NoRecord /\ record[t].state \in {"failed", "dead_letter"}
         THEN /\ apc' = [apc EXCEPT ![a] = "rt_update"]
              /\ atask' = [atask EXCEPT ![a] = t]
              /\ acopy' = [acopy EXCEPT ![a] = Requeue(record[t], Now)]
              /\ UNCHANGED <<aitems, aentry>>
         ELSE Done(a)
    /\ UNCHANGED <<storeVars, workerVars, crashes, discarded, succeeded>>

\* RetryTask: UpdateTask (SET), then Enqueue.
RetryTaskUpdate(a) ==
    /\ apc[a] = "rt_update"
    /\ record' = [record EXCEPT ![atask[a]] = acopy[a]]
    /\ apc' = [apc EXCEPT ![a] = "enq_set"]
    /\ UNCHANGED <<queue, dlq, dlqNext, dlqSet, workerVars, aitems,
                   atask, acopy, aentry, issued, crashes, discarded, succeeded>>

\* DLQ.Retry(t): List the whole stream (XRANGE - +), take the first entry
\* of task t, sm.Requeue its embedded task.  No entry: ErrTaskNotFound.
FindEntry(a, t, rest) ==
    LET idx == {i \in DOMAIN dlq : dlq[i].task = t}
        e   == dlq[CHOOSE i \in idx : \A j \in idx : i <= j]
    IN
    IF idx = {} \/ ~RequeueOK(e.snap)
      THEN NextItem(a, rest)
      ELSE /\ apc' = [apc EXCEPT ![a] = "enq_set"]
           /\ atask' = [atask EXCEPT ![a] = t]
           /\ acopy' = [acopy EXCEPT ![a] = Requeue(e.snap, Now)]
           /\ aitems' = [aitems EXCEPT ![a] = rest]
           /\ aentry' = [aentry EXCEPT ![a] = e.id]

\* RetryDLQ with a task_id: one DLQ.Retry.
RetryDLQ(a, t) ==
    /\ Issue(a, <<"retry_dlq", t>>)
    /\ FindEntry(a, t, <<>>)
    /\ UNCHANGED <<storeVars, workerVars, crashes, discarded, succeeded>>

\* RetryDLQ with retry_all: DLQ.RetryAll lists the stream, then calls
\* DLQ.Retry for the task of every entry, in order.
RetryAllList(a) ==
    LET items == [i \in DOMAIN dlq |-> dlq[i].task] IN
    /\ Issue(a, <<"retry_all", NoTask>>)
    /\ IF items = <<>> THEN Done(a)
       ELSE /\ apc' = [apc EXCEPT ![a] = "find"]
            /\ aitems' = [aitems EXCEPT ![a] = items]
            /\ UNCHANGED <<atask, acopy, aentry>>
    /\ UNCHANGED <<storeVars, workerVars, crashes, discarded, succeeded>>

\* The next DLQ.Retry of RetryAll.
RetryNext(a) ==
    /\ apc[a] = "find"
    /\ FindEntry(a, Head(aitems[a]), Tail(aitems[a]))
    /\ UNCHANGED <<storeVars, workerVars, issued, crashes, discarded, succeeded>>

\* queue.Enqueue's SET of the requeued copy (RetryTask and DLQ.Retry) ...
AdminEnqueueSet(a) ==
    /\ apc[a] = "enq_set"
    /\ record' = [record EXCEPT ![atask[a]] = acopy[a]]
    /\ apc' = [apc EXCEPT ![a] = "enq_xadd"]
    /\ UNCHANGED <<queue, dlq, dlqNext, dlqSet, workerVars, aitems,
                   atask, acopy, aentry, issued, crashes, discarded, succeeded>>

\* ... and its XADD.  RetryTask then returns; DLQ.Retry goes on to
\* Remove.  On an XADD error Enqueue DELs the record and the error is
\* returned: RetryTask answers 500, DLQ.Retry fails (RetryAll goes on).
AdminEnqueueXAdd(a) ==
    LET t == atask[a] IN
    /\ apc[a] = "enq_xadd"
    /\ \E ok \in IF XAddCanFail THEN BOOLEAN ELSE {TRUE} :
         IF ok THEN /\ queue' = [queue EXCEPT ![t] = @ + 1]
                    /\ UNCHANGED record
                    /\ IF aentry[a] = 0 THEN Done(a)
                       ELSE /\ apc' = [apc EXCEPT ![a] = "rm_xdel"]
                            /\ UNCHANGED <<aitems, atask, acopy, aentry>>
               ELSE /\ record' = [record EXCEPT ![t] = NoRecord]
                    /\ UNCHANGED queue
                    /\ IF aentry[a] = 0 THEN Done(a)
                       ELSE NextItem(a, aitems[a])
    /\ UNCHANGED <<dlq, dlqNext, dlqSet, workerVars, issued,
                   crashes, discarded, succeeded>>

\* Mutant of RemoveXDel: every entry of the task is deleted, not only the
\* one retried.
RemoveXDelByTask(a) ==
    /\ apc[a] = "rm_xdel"
    /\ dlq' = SelectSeq(dlq, LAMBDA e : e.task # atask[a])
    /\ apc' = [apc EXCEPT ![a] = "rm_srem"]
    /\ UNCHANGED <<record, queue, dlqNext, dlqSet, workerVars, aitems,
                   atask, acopy, aentry, issued, crashes, discarded, succeeded>>

\* DLQ.Remove: XDEL tasks:dlq of the entry found ...
RemoveXDel(a) ==
    /\ apc[a] = "rm_xdel"
    /\ dlq' = SelectSeq(dlq, LAMBDA e : e.id # aentry[a])
    /\ apc' = [apc EXCEPT ![a] = "rm_srem"]
    /\ UNCHANGED <<record, queue, dlqNext, dlqSet, workerVars, aitems,
                   atask, acopy, aentry, issued, crashes, discarded, succeeded>>

\* ... then SREM tasks:dlq:set of the task id.
RemoveSRem(a) ==
    /\ apc[a] = "rm_srem"
    /\ dlqSet' = dlqSet \ {atask[a]}
    /\ NextItem(a, aitems[a])
    /\ UNCHANGED <<record, queue, dlq, dlqNext, workerVars,
                   issued, crashes, discarded, succeeded>>

\* ClearDLQ -> DLQ.Clear: DEL tasks:dlq ...
ClearStream(a) ==
    /\ Issue(a, <<"clear_dlq", NoTask>>)
    /\ dlq' = <<>>
    /\ discarded' = discarded \cup EntryTasks
    /\ apc' = [apc EXCEPT ![a] = "clear_set"]
    /\ UNCHANGED <<record, queue, dlqNext, dlqSet, workerVars, aitems, atask,
                   acopy, aentry, crashes, succeeded>>

\* ... then DEL tasks:dlq:set.
ClearSet(a) ==
    /\ apc[a] = "clear_set"
    /\ dlqSet' = {}
    /\ Done(a)
    /\ UNCHANGED <<record, queue, dlq, dlqNext, workerVars,
                   issued, crashes, discarded, succeeded>>

\* PurgeQueue: DEL the stream (its messages and its consumer group), then
\* XGROUP CREATE it again; a worker reading in between gets an error and
\* loops, so the two are one step here.
PurgeQueue(a) ==
    /\ Issue(a, <<"purge", NoTask>>)
    /\ queue' = [t \in Tasks |-> 0]
    /\ discarded' = discarded \cup {t \in Tasks : queue[t] > 0}
    /\ Done(a)
    /\ UNCHANGED <<record, dlq, dlqNext, dlqSet, workerVars, crashes,
                   succeeded>>

\* The API server process dies in the middle of a request.
Crash(a) ==
    /\ ~Idle(a) /\ crashes < MaxCrashes
    /\ crashes' = crashes + 1
    /\ Done(a)
    /\ UNCHANGED <<storeVars, workerVars, issued, discarded, succeeded>>

-----------------------------------------------------------------------------

Init ==
    /\ record = [t \in Tasks |-> NewTask("pending")]
    /\ queue = [t \in Tasks |-> 1]
    /\ dlq = <<>> /\ dlqNext = 1 /\ dlqSet = {}
    /\ wpc = "idle" /\ wtask = NoTask /\ wcopy = NoRecord
    /\ apc = [a \in Admins |-> "idle"]
    /\ aitems = [a \in Admins |-> <<>>]
    /\ atask = [a \in Admins |-> NoTask]
    /\ acopy = [a \in Admins |-> NoRecord]
    /\ aentry = [a \in Admins |-> 0]
    /\ issued = {} /\ crashes = 0 /\ discarded = {} /\ succeeded = {}

WorkerStep == \/ \E t \in Tasks : WDequeue(t)
              \/ WStart \/ WFinish \/ WEnqueueSet \/ WEnqueueXAdd
              \/ WDLQXAdd \/ WDLQSAdd

\* The steps of a request once it has arrived.
AdminStep(a) == \/ RetryTaskUpdate(a) \/ RetryNext(a)
                \/ AdminEnqueueSet(a) \/ AdminEnqueueXAdd(a)
                \/ RemoveXDel(a) \/ RemoveSRem(a) \/ ClearSet(a)

\* A request arrives.
AdminRequest(a) == \/ \E t \in Tasks : RetryTaskGet(a, t) \/ RetryDLQ(a, t)
                   \/ RetryAllList(a) \/ ClearStream(a) \/ PurgeQueue(a)

Next == \/ WorkerStep \/ WDequeueTimeout
        \/ \E a \in Admins : AdminStep(a) \/ AdminRequest(a) \/ Crash(a)

Spec == Init /\ [][Next]_vars

\* The fiber goroutine and every handler goroutine that has a request keep
\* running to their next step.  Requests and crashes are the environment's.
Fairness == WF_vars(WorkerStep) /\ \A a \in Admins : WF_vars(AdminStep(a))

FairSpec == Spec /\ Fairness

-----------------------------------------------------------------------------

Entry == [id : Nat, task : Tasks, snap : TaskRecs({"w"}, {Now})]
Pcs == {"idle", "rt_update", "find", "enq_set", "enq_xadd", "rm_xdel",
        "rm_srem", "clear_set"}

\* The variables have their types; an entry's id is below dlqNext.
TypeOK ==
    /\ record \in [Tasks -> TaskRecs({"w"}, {Now}) \cup {NoRecord}]
    /\ queue \in [Tasks -> Nat]
    /\ dlq \in Seq(Entry) /\ dlqSet \subseteq Tasks
    /\ \A i \in DOMAIN dlq : dlq[i].id < dlqNext
    /\ wpc \in {"idle", "start", "run", "enq_set", "enq_xadd", "dlq_xadd", "dlq_sadd"}
    /\ (wpc = "idle") <=> (wtask = NoTask)
    /\ apc \in [Admins -> Pcs]
    /\ issued \subseteq Requests /\ discarded \subseteq Tasks

Completed(t) == record[t] # NoRecord /\ record[t].state = "completed"

\* A handler goroutine between its SET of t and the XADD that follows.
Enqueuing(t) ==
    \E a \in Admins : apc[a] \in {"rt_update", "enq_set", "enq_xadd"} /\ atask[a] = t

\* At-least-once through the DLQ and admin paths: unless an admin purged
\* its messages or cleared the DLQ, a task that has not yet run to success
\* has a message in its stream, an entry in the DLQ stream (so DLQ.Retry
\* can bring it back), or is in the hands of the worker or of a handler
\* about to enqueue it.  DLQ.Retry enqueues before it removes the entry and
\* RetryTask leaves the entry in place, so an API server crash between two
\* steps leaves one of them.
Recoverable ==
    \A t \in Tasks \ (discarded \cup succeeded) :
        \/ queue[t] > 0
        \/ HasEntry(t)
        \/ wpc # "idle" /\ wtask = t
        \/ Enqueuing(t)

\* The retry budget holds across the worker's retry path and the admin
\* requeues: handleTaskFailure retries only while Task.CanRetry, and
\* Requeue resets the count, so neither the stored record nor any DLQ
\* snapshot has run more than MaxRetries times since its last requeue.
AttemptsWithinBudget ==
    /\ \A t \in Tasks : record[t] # NoRecord => record[t].attempts <= MaxRetries
    /\ \A i \in DOMAIN dlq : dlq[i].snap.attempts <= MaxRetries

\* No task is stranded by the worker's retry and dead-letter paths, the
\* admin requeues and the API server crashes between their steps: in the
\* end every task has run to success, sits in the DLQ stream (where
\* DLQ.Retry can take it), or was deliberately discarded.  Recoverable
\* says one of its messages or entries exists at each step; this says
\* those messages are consumed and the handlers finish.
EventuallyAtRest ==
    <>[](\A t \in Tasks : t \in succeeded \cup discarded \/ HasEntry(t))

\* Spec section 2: no transition leaves a final state except
\* dead_letter -> pending.  A completed task stays completed, whatever the
\* admin API is asked to do.
CompletedIsFinal ==
    [][\A t \in Tasks : Completed(t) => Completed(t)']_vars
=============================================================================
