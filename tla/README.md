# TLA+ models of task-queue-go

This directory holds TLA+ models of the task broker in `src/`. They are checked with TLC.
The models cover the part of the system where concurrency, crashes and Redis
semantics decide correctness: the task state machine, and the delivery
core. The delivery core is made of Redis streams, the consumer group's pending entry
list (PEL), the worker pools' task fibers and recovery loops, the DLQ and the
API's Cancel and admin handlers. They also cover the scheduler, and the
worker process's lifecycle: start, pause, stop and the heartbeat registry,
and the API server's event pipeline: the Redis pattern subscription, the
WebSocket hub, its connections, and the Go client library at the other end.

## The system

* **API server** (`cmd/api-server`, `internal/api/handlers/task.go`, admin
  handlers in `unnamed/part_004`).
  * `Create` writes the task record `task:{id}` and appends
    `{task_id}` to the stream of its priority (`RedisQueue.Enqueue`). A task
    with a future `scheduled_at` goes into the zset `tasks:scheduled` instead.
  * `Cancel` reads the record, checks for pending or scheduled, and writes it
    back cancelled.
  * The API server also runs the **Scheduler** (`internal/queue/scheduler.go`).
    Every second, under a SETNX lock, it moves due tasks from the zset to their
    streams.
* **Worker process** (`cmd/worker`, `internal/worker/pool.go`). A `Pool` runs
  `Concurrency` fibers (`worker()`), plus a recovery loop.
  * Each fiber loops: `DequeueBlocking` (one XREADGROUP over all four streams
    with COUNT 1), GET the record, `sm.Start` + SET, `Executor.Execute`.
  * On success, the fiber runs `Complete` + SET + XACK.
  * On an error with retries left, it runs `Retry` + SET, then
    `PrepareForRequeue` + `Enqueue` (SET + XADD), then XACK.
  * On an error with no retries left, it runs `Fail` + SET, then `DLQ.Add`
    (XADD `tasks:dlq` + SADD `tasks:dlq:set`), then XACK.
  * The recovery loop (`recoverOrphanedTasks`, every 2 × heartbeat interval)
    XCLAIMs every PEL entry idle for `claimMinIdle`, GETs its record, then runs
    `PrepareForRequeue`, `Enqueue` and XACKs the old entry.
  * A heartbeat goroutine SETs `worker:{id}:heartbeat` (TTL 15 s) and
    `worker:{id}:info` (TTL 30 s) and SADDs the id to `workers:active`
    every 5 s. `Pool.Stop` closes the stop channel and waits for the fibers up to
    `ShutdownTimeout`. Then the heartbeat stops and deregisters, and the process exits.
  * Before each claim a fiber checks the local pause (`Pool.Pause`/`Resume`)
    and the admin's flag `worker:{id}:paused`.
* **Event pipeline** (API server: `internal/events/redis_pubsub.go`,
  `internal/api/websocket/hub.go` and `client.go`; the `/ws` handler
  `ServeWS` sits in `examples/go/main.go`).
  * `Server.Start` runs `go Hub.Run(ctx)`. Run PSUBSCRIBEs `taskqueue:events:*`;
    a subscriber goroutine parses each message and offers it to `eventCh`
    (buffer 100), dropping it when full. A forwarder goroutine moves events
    into `Hub.broadcast` (buffer 256) with a blocking send.
  * The hub's main loop selects on stop, register, unregister and broadcast.
    `broadcastEvent` offers each event to every client's `send` channel
    (buffer 256); a full buffer spawns a goroutine that unregisters the client.
  * Per connection, `ServeWS` upgrades, registers the client (a blocking send)
    and starts `WritePump` (writes what is queued as one frame, pings) and
    `ReadPump` (reads until an error, then unregisters).
  * `Hub.Stop` (from main on SIGTERM) closes `stopCh` and waits for the two
    goroutines. The main loop then closes every client's send channel.
  * The Go client library (`pkg/client`) dials `/ws`, runs a `readLoop` that
    decodes each frame as one event into `events` (buffer 100, dropping the
    oldest when full), and `Close` closes `done` and the connection.
  * Nothing in the repository calls `Publish`: events come from outside.
* **Redis** holds all shared state. Every command is atomic. Processes share
  nothing else.

## Modules

| module | models | state / actions |
|---|---|---|
| `TaskState` | `internal/task/state.go`, `Task.CanRetry`/`New` (`internal/task/retry_test.go`, which holds task.go), `Retryer.PrepareForRequeue` (`unnamed/part_008`), the forced transition of `DLQ.Add` | pure operators on a task record. It keeps state, attempts, whether error and result are set, worker id, and StartedAt/CompletedAt. Each method that can return `ErrInvalidTransition` is split into a guard `...OK` and its result. |
| `Broker` | the delivery core | `record` (task:{id}), `stream` (undelivered messages per priority), `pel` (delivered message → owner), `aged` (entries past claimMinIdle). Per fiber: `fpc`/`fmsg`/`ftask`. Per pool: `rpc`/`ritems` (recovery loop), `alive`. Per cancelled task: `cpc`/`ctask` (Cancel handler). Also `dlq`, `dlqSet`. |
| `MCBroker` | model values for `Broker` | two priorities (`critical` above `low`) or one (`normal`). |
| `DeadLetter` | the DLQ (`unnamed/part_011`: Add, List, Retry, RetryAll, Remove, Clear) and the admin handlers that act on it and on the queue (`unnamed/part_004`: RetryTask, RetryDLQ, ClearDLQ, PurgeQueue), against one worker fiber | `record`, `queue` (undelivered messages per task), `dlq` (the `tasks:dlq` entries in stream order, each with the task snapshot DLQ.Add embedded), `dlqNext`, `dlqSet`. The worker fiber has `wpc`/`wtask`/`wcopy`. Each admin handler goroutine has `apc`/`aitems`/`atask`/`acopy`/`aentry`. Also `issued` (requests sent) and `crashes`. There are two history variables: `discarded` (tasks an admin purged or cleared) and `succeeded` (tasks run to success). |
| `Workers` | one worker process. It covers `Pool` Start/Stop/Pause/Resume and the `worker()` loop (`pool.go`), `Heartbeat` and the registry (`heartbeat.go`), `main`'s start-signal-stop sequence (`cmd/worker/main.go`), `Executor.Execute` as one settle step, and the admin ListWorkers/GetWorker/PauseWorker/ResumeWorker handlers | pool: `pstate`, `stopCh`, `rgen` (the generation of `resumeCh`; older channels are closed), `pauses`. Goroutines: `mpc` (main), `fpc`/`fch` (fibers and the channel each one read), `rpc` (recovery), `hpc`/`hstop` (heartbeat). Redis: `ready`/`pel` (message counts), `hbKey`, `infoKey`, `inSet`, `flag`. Admin: `apc`, `issued`. |
| `Hub` | the event pipeline: `Hub.Run`, its forwarder and main loop, `Stop`, `broadcastEvent`, `closeAllClients` (`hub.go`); `SubscribeAll`'s goroutine (`redis_pubsub.go`); `ServeWS`; `ReadPump`, `WritePump`, `IsSubscribed` (`client.go`); `WebSocketClient.Connect`/`readLoop`/`Close` and `TaskQueueClient.Events`/`CloseWebSocket` (`pkg/client`) | hub: `runPc`, `published`, `evq` (eventCh), `fpc` (forwarder), `bq` (broadcast), `lpc` (main loop), `stopCh`, `mpc` (API main in Stop). Per connection: `hpc` (ServeWS), `inHub`, `closed`, `sendq` (client.send), `conn`, `wpc`, `rpc`, `slow` (blocked slow-client goroutines); the peer's `inflight` (frames, as event counts), `rl` (readLoop), `done`, `evbuf`. `panicked` records a send on, or close of, a closed channel. |
| `Scheduler` | `ScheduleTaskFunc` (Create with a future `scheduled_at`), `Scheduler.run`/`processDueTasks`/`activateTask` (`internal/queue/scheduler.go`), and the Cancel handler | `record`, `zset`, `due` (entries whose score has passed), `enq` (XADDs per task), `lock` (holder of `scheduler:lock`). Per scheduler: `spc`, `sitems` (the ZRANGEBYSCORE snapshot), `scopy` (the record read by GET), `salive`. Also the Create (`hpc`) and Cancel (`cpc`, `ctask`) handlers. `passed` holds the tasks whose scheduled_at has really passed (see the SubSecond variant). The module instances `DelayedQueue` and checks that it implements it. |
| `DelayedQueue` | what the delayed index promises (spec section 4.4, scenario S5), with no locks, processes or Redis | `phase` (none, waiting, released, dropped), `queued` (messages the scheduler put on the stream), `due`. Actions: `Schedule`, `BecomeDue`, `Release` (one message), `Drop`. Weak fairness on the release or drop of each task. |

How `Broker`'s actions match the code:

* **One Redis command is one step.** A command also takes the local
  computation before it.
* **The store at start.** `InitStore` is `NewRedisQueue`: every priority
  stream exists, with the consumer group at id 0, and nothing is in it.
* **Create.** `Submit(t)` is the Create handler for an immediate task:
  when `MaxQueueSize > 0` and `QueueDepth` (GetQueueDepth summed: the
  group's pending entries, delivered and unacked) has reached it, the
  request gets 503 and changes nothing, so the step is disabled; otherwise
  Enqueue's SET and XADD. `MCBroker.cfg` sets `MaxQueueSize = 1`, which
  rejects a Create while a message is claimed; the other cfgs set 0 (no
  check, as the 1,000,000 default is for a model this small).
* **The task fiber.** It is split at every Redis write, in code order:
  * `Dequeue` (XREADGROUP + GET);
  * `StartTask` (`sm.Start` + SET; on a rejected Start the fiber just returns,
    leaving the entry in the PEL, `pool.go:287-290`);
  * `Finish` (Execute's outcome, chosen from `ExecResults`: the worker's
    handlers `echo`, `sleep`, `compute` succeed and `fail` errors; then Complete, or
    Retry + error, or Fail, then SET);
  * `RetryEnqueueSet` (PrepareForRequeue + Enqueue's SET);
  * `RetryEnqueueXAdd`;
  * `DLQAdd`;
  * `AckTask`.
* **The recovery loop:**
  * `RecoverClaim` (the whole XPENDING/XCLAIM/GET scan, which only reassigns
    entries and reads);
  * then, per task, `RecoverSet`, `RecoverXAdd` and `RecoverAck`.
* **Messages.** A message is `<<task, k>>`. `FreshMsg` gives a new XADD the
  smallest k not in use by the task. Messages are told apart only for the task
  they carry.
* **Crashes.** `Crash(p)` kills a pool process. Its in-memory state is gone,
  and its PEL entries stay in Redis.
* **Idle time.** `Age(m)` is the passing of `claimMinIdle` for an entry. It is
  enabled only for entries nobody alive is working on, unless `LiveReclaim`
  is TRUE. LiveReclaim TRUE stands for the default configuration, where
  claimMinIdle (30 s) is shorter than the task timeout (5 min).

## Runs

| run | cfg | expect | what it shows |
|---|---|---|---|
| deadletter | `DeadLetter.cfg` | pass | 1 task with MaxRetries 2, one worker fiber, 2 concurrent admin requests, each request kind sent at most once, 1 API server crash. `Recoverable`: a task that has not yet run to success always has a message, a DLQ entry, or a process about to enqueue it. That holds unless an admin purged or cleared it. `AttemptsWithinBudget`: neither the record nor a DLQ snapshot exceeds MaxRetries attempts across worker retries and admin requeues. `EventuallyAtRest`: under fair scheduling, every task ends succeeded, in the DLQ, or discarded. |
| deadletter_completed | `DeadLetter_final.cfg` | violation | `CompletedIsFinal`: RetryTask requeues a dead-lettered task and leaves its DLQ entry. After the task completes, RetryDLQ SETs the stale snapshot back to pending and the task runs again. One admin and no crash are enough. |
| workers | `Workers.cfg` | pass | One fiber, two messages on two priority streams (so one read can claim both), one local Pause, a possible kill, and admin List/Get/Pause/Resume requests. `StoppedIsGone`: after Stop and exit, no heartbeat, info or set entry is left. `ListedWhileRunning`: a running worker that the list cleanup dropped is listed again. |
| workers_resume | `Workers_resume.cfg` | violation | `ResumeWakesFibers`: a fiber that saw the pool paused reads `p.resumeCh` after Resume swapped it. It then blocks on the new channel while the pool is busy. |
| broker_priorities | `MCBroker.cfg` | pass | 2 tasks on 2 priorities, 2 pools, 1 crash, MaxRetries 1, MaxQueueSize 1 (Create rejected while a message is claimed). No unfinished task is ever without a message or a live worker about to add one (`AtLeastOnce`), and every task settles (`EventuallySettled`). |
| broker_retry_cancel | `MCBroker_cancel.cfg` | pass | 1 task with a Cancel, MaxRetries 2, 2 pools, 1 crash. `AtLeastOnce` and `EventuallySettled` hold through the retry path. |
| broker_cancel_race | `MCBroker_terminal.cfg` | violation | `TerminalStable`: a worker's stale copy overwrites a cancel and the task runs. |
| broker_live_reclaim_dup | `MCBroker_exclusive.cfg` | violation | `ExclusiveExecution`: with claimMinIdle < timeout, recovery re-enqueues a running task and a second fiber runs it. |
| broker_dlq | `MCBroker_dlq.cfg` | violation | `DeadLetteredAsSpecified` (scenario S3): the task in the DLQ set has its stored record `failed`, after 1 attempt. The spec expects `dead_letter` after 2. DLQ.Add never persists, and CanRetry counts the first execution. |
| sched | `Scheduler.cfg` | pass | 2 scheduled tasks, 2 API servers running the scheduler, 1 crash, a Cancel of `t1`. `DelayedQueueSpec`: the Scheduler implements `DelayedQueue` (see "The Scheduler model"). So a task is XADDed only after its scheduled_at, at most once, and never after it was dropped, and every due task leaves the index. Every scheduled task leaves the zset and its record leaves `scheduled` (`EventuallyActivated`). |
| hub | `Hub.cfg` | pass | One connection from the Go client library, 3 published events, buffers of 1 (2 for `client.send`, so frames batch), PSUBSCRIBE that may fail, peer failures, client Close and SIGTERM at any time. `NoClosedChannelPanic`: no send on, or close of, a closed send channel, across broadcast, the slow-client and ReadPump unregisters and closeAllClients. `ConnectionReleased`: a served connection that dies leaves the hub and its WritePump returns. `ReadLoopEnds`: after Close the client's readLoop ends and `Events()` is closed. `HandoffsReceived`: every register of ServeWS and every unregister (ReadPump's, and each slow-client goroutine's) is received by the main loop. The exceptions are a failed PSUBSCRIBE, when Run returns without starting the loop, and SIGTERM, after which the loop exits. |
| sched_xadd_fail | `Scheduler_lost.cfg` | violation | `PendingIsQueued`: an XADD error after the SET pending leaves a pending task that the next tick ZREMs without enqueueing. |

Questions answered by a variant of a cfg but not kept as runs:
* **Lock expiry.** `Scheduler.cfg` with `LockCanExpire = TRUE` lets two ticks overlap (`LockExclusion`, defined in the module, fails) and violates `DelayedQueueSpec`: a tick longer than the 5 s TTL lets a second scheduler promote a task again. With the lock unable to expire, `LockExclusion` holds by NX alone, so the sched run does not check it.
* **Live reclaim with a crash.** `MCBroker_exclusive.cfg`'s setting with two pools and one crash violates `AtLeastOnce`: a stale write-back, then a crash before the XADD.
* **Whole-second scores.** `Scheduler.cfg` with `SubSecond = TRUE` violates `DelayedQueueSpec` in 7 steps. The ZADD score is `scheduledAt.Unix()` and the bound of ZRANGEBYSCORE is `time.Now().Unix()`, both truncated to the second. A task scheduled for 12:00:00.7 is promoted at 12:00:00.2, before its time.
* **XADD errors.** `DeadLetter.cfg` with `XAddCanFail = TRUE` violates `Recoverable` in 6 steps. Enqueue DELs the record when its XADD fails, and the worker's retry path then acks the old message: the task is gone.
* **Claims after the stop signal.** A "no claim once stopCh is closed" action property fails on `Workers` in six steps. `Stop` does not cancel the ctx that `DequeueBlocking` blocks on, while spec §4.5 and §5 say it does. The late claim is executed and acked before a Stop that does not time out returns.
* **Listed but not alive.** "A listed worker has its heartbeat key" fails at startup, because register's SET info precedes the first SET heartbeat. It also fails after a kill, because info outlives the heartbeat. Spec §3 says entries without a live heartbeat are dropped on read.
* **Timestamps.** A one-task model with a logical clock found StartedAt > CompletedAt after Start, Fail, Retry, Start. CompletedAt of the failure is never cleared. This is sequential, so a unit test reaches it too.
* **Stranded deliveries.** `MCBroker_delivered.cfg` violates Broker's `DeliveredIsHeld`: `DequeueBlocking` reads all four streams with COUNT 1, Redis delivers one message per non-empty stream, and the code handles `result[0]` only. The others sit in the PEL until recovery reclaims them `claimMinIdle` later; `AtLeastOnce` and `EventuallySettled` show they are not lost.
* **Hub.Stop can hang.** `Hub_stop.cfg` violates `StopReturns` in 12 steps: the main loop takes the `stopCh` case and exits while the forwarder, which sends to `h.broadcast` outside its select, receives one more event and blocks on the full buffer. `wg.Wait` never returns and the API server never reaches `httpServer.Shutdown`. With the real buffer (256) this needs the hub saturated at SIGTERM.
* **Batched frames are dropped by the clients.** In the hub run, a frame of two events reaches the client's `readLoop`, whose `json.Unmarshal` fails on it, so both events are skipped (`EventDecodes`). `WritePump` joins queued messages with newlines, and both client libraries parse a frame as one event. Event delivery is best-effort in spec §6, so no property is stated.
* **Scheduler against Cancel.** The Scheduler model also contains activateTask's race with Cancel. It is the same read-modify-write race that `broker_cancel_race` shows.

Each property of a passing run has a mutant in `PROJECT.json`: a plausible
bug in the mapped code that TLC must catch.
* XPENDING restricted to the pool's own consumer leaves a dead pool's entries
  unclaimed, which breaks `EventuallySettled`.
* Acking the old message before the new XADD, on either path, breaks
  `AtLeastOnce` at a crash.

### Bounds

* **Tasks, pools, fibers.** Two tasks, on two different priority streams, are
  the least that makes one read deliver two messages. Two pools with one crash
  are the least that gives a crash whose entries someone else must recover
  (`MaxCrashes < |Pools|` is assumed). One fiber per pool is enough for all
  interleavings of one pool's fiber with another's.
* **Message ids.** `MaxMsgId = 5` bounds k. With one crash, a task has at most
  two live messages plus one in flight per fiber and per recovery loop.
* **Retries.** MaxRetries is 1 in the two-priority run, which keeps the state
  space at 58k states, and 2 in the one-task run, so that the retry path
  (`RetryEnqueueSet`/`RetryEnqueueXAdd`) is taken.
* **Time.** `Now` is a single value: the broker properties compare states, not
  timestamps.

### Fairness

* **Fibers, recovery loops and open Cancel requests.** Their steps are weakly
  fair: goroutines run, the recovery ticker fires, and an HTTP handler that has
  read runs on to its write.
* **Idle time.** `Age` is weakly fair: idle time grows.
* **Not fair.** Submissions, the start of a Cancel and crashes are the
  environment's choices.
* **Why the liveness runs never stop.** A fiber on empty streams takes the
  `DequeueTimeout` step (XREADGROUP's `redis.Nil`) and loops. Only the
  `Workers` runs set CHECK_DEADLOCK FALSE. The worker process really exits
  after Stop, and after that only admin requests remain, each sent once.

## The Scheduler model

* **Actions.** One scheduler tick is split at each Redis command:
  * `AcquireLock`: SETNX, then ZRANGEBYSCORE. With an empty snapshot it goes straight to the deferred DEL.
  * then, per due task:
    * `ActGet`: GET, then the state check, which ZREMs a task that is missing or not scheduled;
    * `ActSet`: `Transition(pending)` + SET;
    * `ActXAdd`: success, or, when `XAddCanFail`, an error that skips to the next task;
    * `ActZRem`.
  * `Release`: the unconditional DEL.
* **Environment actions:**
  * `BecomeDue(t)`: time passes a task's score.
  * `LockExpires`: the TTL. It fires freely once the holder is out of its tick. It fires inside a tick only when `LockCanExpire`.
  * `Crash(s)`: an API server process killed anywhere.
  * `Shutdown(s)`: SIGTERM. `main` calls `scheduler.Stop`, whose loop sees
    stopCh only in its select, between ticks; the process then exits.
  * `Restart(s)`: the API server's `main` again, with a fresh Scheduler.
  Crash and Shutdown together are bounded by `MaxCrashes`.
* **Bounds.** Two tasks and two schedulers are the least that gives two ticks contending for one task. One crash is enough to leave a lock to its TTL.
* **Fairness.** Scheduler steps, restarts, a Create's ZADD, `BecomeDue`, a Cancel's write and the lock's expiry are weakly fair. The ticker fires every second, and time passes.
* **Refinement.** `DQ == INSTANCE DelayedQueue WITH ...` maps the Scheduler's state onto the abstract one:
  * `queued` is `enq`, the XADD count per task;
  * `due` is `passed`, the tasks whose scheduled_at has really passed. `due` is the set whose score is at most the truncated clock. With `SubSecond` FALSE the two are equal;
  * `phase` (`DQPhase`): `released` once a message was XADDed; `none` until the Create has ZADDed; `waiting` while the zset holds the task; `dropped` otherwise.

  `DelayedQueueSpec == DQ!Spec` is checked as a temporal property. TLC checks that every Scheduler step is a `DelayedQueue` step or leaves the mapped state unchanged, and that the abstract fairness holds. A promotion by a tick that did not hold the lock, or a ZREM that skips the XADD, breaks the refinement.

## The DeadLetter model

* **Worker fiber.** It takes one step per Redis write of `processNextTask`: `WDequeue`, `WStart`, `WFinish`, `WEnqueueSet`/`WEnqueueXAdd` (the retry path), and `WDLQXAdd`/`WDLQSAdd` (DLQ.Add's two commands). The XACK changes nothing modelled here, so it is folded into the step before it. The PEL and the recovery loop are left out, because `Broker` checks them.
* **Admin handlers.** A request arrives together with its first Redis command:
  * `RetryTaskGet` (GET, then the state check and `Requeue`);
  * `RetryDLQ`, which is `FindEntry`: DLQ.Retry's List and its first-entry search;
  * `RetryAllList`;
  * `ClearStream`;
  * `PurgeQueue`.

  Each later step is one command: `RetryTaskUpdate`, `AdminEnqueueSet`, `AdminEnqueueXAdd`, `RemoveXDel`, `RemoveSRem`, `ClearSet`, and `RetryNext` (RetryAll's next DLQ.Retry, which lists again). A handler with no DLQ entry id (`aentry = 0`) serves RetryTask, so it returns after its XADD.
* **Crashes.** `Crash(a)` is an API server dying in the middle of a request.
* **Bounds.**
  * One task: every interaction here is between requests about the same task.
  * MaxRetries 2: the worker's retry path is taken.
  * Two handler goroutines: a RetryTask can overlap a DLQ retry.
  * One crash.
  * Each request kind is sent at most once. The model is finite without a counter bound, because every loop goes through a request.
* **Fairness.** `FairSpec`: the fiber's steps and the steps of each handler with a request in progress are weakly fair. Goroutines run, and a handler that has started a request runs on to its end. Requests and crashes are not fair, because they are the environment's. `EventuallyAtRest` needs this fairness: in the end every task has succeeded, has a DLQ entry, or was discarded. If a rejected `Start` skipped the release of the concurrency slot (`pool.go` releases it after `processNextTask` returns, not in a defer), the fiber would stop and the property fails.

## The Workers model

* **Main goroutine.** `PoolStart` (state busy, heartbeat loop launched), `RegisterSAdd`, and `RegisterInfo` (register's SET info; then the fibers and the recovery loop start). Then come `StopBegin` (the signal: shutting_down, close stopCh) and `PoolWaitDone` or `PoolWaitTimeout`. Then `HbStopClose`, `HbWaitDone`, `DeregisterSRem`, and `DeregisterDel`, after which the process exits. `Crash` kills the process anywhere.
* **Fibers.**
  * `FiberTop`: the stopCh check, `State()`, and, when not paused, the pause flag's EXISTS. These reads are one step, which is sound: Pause/Resume write only the state and the admin writes only the flag, so the two reads commute with every step between them.
  * `FiberReadCh`: the unlocked read of `p.resumeCh`. Then `FiberResumed` when that channel is closed.
  * `FiberSlept`: the 1 s sleep on the flag.
  * `FiberStopped`: the stopCh case of any select.
  * `FiberDequeue`: the semaphore, which never blocks since it has one slot per fiber, then `DequeueBlocking`. One XREADGROUP with COUNT 1 claims a message from every non-empty stream, so it claims 1 to `Streams` messages. Only `result[0]` is handled, and the others stay in the PEL. When the handled message's GET fails, it is acked and the fiber loops.
  * `FiberSettle`: the rest of `processNextTask`. Either Execute runs and its handler acks, or `sm.Start` rejects the stored task and returns without an ack, leaving the message in the PEL. Which one happens depends on the task's state, which is `Broker`'s business, so here the choice is free.
  * So even a Stop that does not time out may exit with messages still claimed; `Broker` checks that recovery runs them again.
* **Heartbeat loop.** `SendHeartbeatSet`, `SendHeartbeatInfo`, `SendHeartbeatSAdd`, `HeartbeatTick`, `HeartbeatExit`. Keys expire (`ExpireHeartbeat`, then `ExpireInfo`) only after a kill: a live loop refreshes them well within their TTL.
* **Admin.** `Issue` carries each handler's first command: SMEMBERS for ListWorkers, EXISTS heartbeat for the others. Then come `GetMembers`, `GetInfo`, `CleanupSRem`, `SetPauseFlag`, and `DelPauseFlag`.
* **Initial flag.** `flag` starts either way: the flag has no TTL and outlives a worker restarted under a configured id.
* **Bounds.**
  * The pass run has one fiber: the fibers share nothing but the pool state and the counts, and one fiber already holds a message when Stop times out. The violation run has two.
  * Two messages and two streams (`Streams`; the code reads four), so a read can claim two messages and leave one in the PEL. More streams add no new case.
  * One Pause (`MaxPauses`), which bounds `rgen`.
  * One admin goroutine, with each request sent once.
* **Fairness.** Runnable goroutines run, tickers and timers fire, TTLs run out, and a started handler finishes: weak fairness on the main goroutine's Stop steps, the fibers, the recovery and heartbeat loops, expiry and admin steps. The signal, the kill, Pause/Resume and new admin requests are external and not fair.
* **Worker record contents.** `Heartbeat.UpdateState`, `UpdateActiveTasks` and `UpdateConcurrency` (`heartbeat.go` 88-107) have no caller. The `worker:{id}:info` record therefore always says state `idle`, 0 active tasks and concurrency 0, while spec section 3 lists them as live fields, and a paused pool is not shown as paused. The model keeps only whether the record exists (`infoKey`), because no decision reads these fields.

## The Hub model

* **Goroutines.** `RunSubscribe` (SubscribeAll's confirmation, or its error and Run's early return), `RunStartForwarder`, `RunStartLoop` (the two `wg.Add`/`go` pairs, so a `Stop` can run between them). `Receive` is the subscriber goroutine handling one published message (dropped if unparsable or if `eventCh` is full). `FwdReceive`/`FwdSend`/`FwdStop` are the forwarder's select cases and its blocking send. `LoopStop` (with `CloseAllClients`), `LoopRegister`, `LoopUnregisterReader`, `LoopUnregisterSlow` (both through `DoUnregister`) and `LoopBroadcast` (with `BroadcastEvent`) are the main loop's cases. `StopHub`/`StopReturn` are `Hub.Stop`.
* **Connections.** `Connect` is the client's dial together with `ServeWS` up to the blocking `Register`; `LoopRegister` completes it and starts both pumps. `WriteMessages` writes everything queued as one frame (or fails on a dead connection), `WriteClose` answers the closed channel, `WritePing` is the ticker finding the connection dead. `ReadFail` is ReadPump's read error. `PeerClose` is a network failure or a missed pong.
* **The client library.** `ReadLoopTop` (the `done` check), `ReadLoopFrame` (a close frame ends the loop; a frame that does not decode is skipped), `ReadLoopError`, `ReadLoopDeliver` (the three-way select, with drop-oldest), `AppReceive` (the application reading `Events()`), `CloseWebSocket` with `WsClose`.
* **What is abstracted.** Events are counted: every server-side client subscribes to every type, so `IsSubscribed` is always true. `ctx` is cancelled only by main's deferred cancel when the process exits, so the ctx cases are left out, and so is the closed-`eventCh` case that follows from them. A successful ping changes nothing.
* **Bounds.** One connection: a slow-client unregister and a ReadPump unregister of the same client already meet, and two connections took TLC past ten minutes once the client side was added. Buffers of one, except `client.send` with two, so that batched frames occur. `FrameCap` 1 (a frame in flight blocks the next write until the client reads it). Three events: enough to fill `eventCh`, `broadcast` and `send` at once.
* **Fairness.** Weak fairness on every goroutine step (a select picks uniformly among ready cases; the ping ticker keeps firing). Connections, peer failures, published events, SIGTERM, the application's reads and its Close are external and not fair. The run sets CHECK_DEADLOCK FALSE: after Stop returns the process exits, and goroutines blocked in `Register`/`Unregister` on a stopped hub stay blocked (a hazard in `PROJECT.json`). `HandoffsReceived` checks that these two are the only ways such a send blocks for ever.

## Not modelled, and why

Status per component is in `PROJECT.json`. Three extensions were weighed and
left out:

1. **Scheduler composed with `Broker`.** The scheduler's XADD would feed the
   broker's streams. With API server crashes, the composition's end-to-end
   at-least-once property fails on a gap that is already known: a crash
   between activateTask's SET pending and its XADD. The next tick then ZREMs
   the task without a message. `PendingIsQueued` already shows this gap:
   `sched_xadd_fail` reaches it through an XADD error. `Scheduler.cfg` with
   `PendingIsQueued` added finds it through the crash too. Without crashes the composition adds nothing the two
   modules do not check separately. Each module therefore stands alone. Its
   interface is stated by `DelayedQueue` (what the scheduler hands on) and by
   `AtLeastOnce` (what the broker needs).
2. **Redis command failures in `Broker`.** `DeadLetter` and `Scheduler` have
   the XADD error (`XAddCanFail`), and both variants violate their
   properties. Failed heartbeat SETs would only let a live worker's keys
   expire, and `Workers` already reaches that state through the TTLs after a
   crash.
3. **An abstract task lifecycle refined by `Broker`.** `Broker` lets recovery
   force a completed task back to pending (`TerminalStable`,
   `broker_cancel_race`). A lifecycle spec that allowed this would say
   nothing, and one that forbade it would not be implemented.
   `DelayedQueue` is the refinement the code supports.

Not modelled at all: event construction and JSON conversion, metrics, the
logger, HTTP middleware (authentication and the per-client rate limiter),
configuration loading, the REST side of the client libraries and the web UI.
None of them changes task or queue state. The rate limiter's map reset
(`ratelimit.go:103`) is listed as a hazard. Subscribe/Unsubscribe of the Go
client send a message the server only logs; their concurrent writes under a
read lock are listed as a hazard. Spec §6 says the core emits `task.*` and
`worker.*` events at its transitions, but no code calls `Publish`: the hub
only relays what other processes publish.

`RetryPolicy.CalculateBackoff`, `NextRetryTime` and `ScheduleRetry` are not
modelled: no production path calls them. `handleTaskFailure` builds a
`Retryer` only for `PrepareForRequeue` and re-enqueues the task at once, so
the backoff of spec §4.2 is never applied. Each retry is an immediate XADD,
and that is what `Broker` and `DeadLetter` model.
