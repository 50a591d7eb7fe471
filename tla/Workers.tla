------------------------------ MODULE Workers ------------------------------
(***************************************************************************)
(* One worker process (cmd/worker/main.go) and the admin API that watches  *)
(* and pauses it.  The process runs a Pool (internal/worker/pool.go): the  *)
(* fiber goroutines, the recovery goroutine and the Heartbeat goroutine    *)
(* (internal/worker/heartbeat.go).  Its main goroutine starts the pool,    *)
(* waits for a signal and stops it.  The embedding program may call the    *)
(* pool's local Pause/Resume.  Admin handlers (ListWorkers, GetWorker,     *)
(* PauseWorker, ResumeWorker) run in the API server against the same      *)
(* Redis keys.                                                             *)
(*                                                                         *)
(* Tasks are abstracted to the number of messages ready in the streams     *)
(* and the number this pool holds in its PEL.  What a task does, and       *)
(* whether it succeeds, is checked by Broker.  Here the point is which     *)
(* goroutine may claim, when it stops, and what Redis says about the       *)
(* worker.                                                                 *)
(***************************************************************************)
EXTENDS Naturals, FiniteSets

CONSTANTS Fibers,      \* the worker goroutines, one per concurrency slot
          Admins,      \* concurrent admin API handler goroutines
          Messages,    \* messages ready in the streams at start
          MaxPauses,   \* bound on local Pool.Pause calls
          CanCrash,    \* whether the process may be killed (SIGKILL, OOM)
          Streams      \* priority streams one XREADGROUP reads (4 in the code)

ASSUME Streams \in Nat \ {0} /\ Messages \in Nat /\ MaxPauses \in Nat /\ CanCrash \in BOOLEAN

Requests == {"list", "get", "pause", "resume"}

VARIABLES
    \* the Pool struct
    pstate,     \* Pool.state
    stopCh,     \* Pool.stopCh closed
    rgen,       \* generation of Pool.resumeCh: channels below it are closed
    pauses,     \* Pool.Pause calls that took effect
    \* goroutines of the worker process
    mpc,        \* main goroutine: Start, wait for signal, Stop, exit
    timedOut,   \* Stop gave up waiting after ShutdownTimeout
    fpc,        \* each fiber's place in Pool.worker
    fch,        \* the resumeCh generation a fiber has read
    rpc,        \* recovery goroutine
    hpc,        \* heartbeat goroutine
    hstop,      \* Heartbeat.stopCh closed
    \* the streams, from this pool's side
    ready,      \* messages no consumer has claimed
    pel,        \* messages this pool has claimed and not acked
    \* Redis keys of this worker
    hbKey,      \* worker:{id}:heartbeat
    infoKey,    \* worker:{id}:info
    inSet,      \* id in workers:active
    flag,       \* worker:{id}:paused
    \* admin handlers
    apc, issued

poolVars  == <<pstate, stopCh, rgen, pauses>>
procVars  == <<mpc, timedOut, fpc, fch, rpc, hpc, hstop>>
redisVars == <<ready, pel, hbKey, infoKey, inSet, flag>>
vars == <<poolVars, procVars, redisVars, apc, issued>>

\* the Pool State constants
PoolStates == {"idle", "busy", "paused", "shutting_down"}

FiberPCs == {"none", "top", "readch", "localwait", "sleep",
             "acquire", "exec", "exited"}
MainPCs == {"start", "reg_sadd", "reg_info", "running", "waiting",
            "hbstop", "hbwait", "srem", "del", "exited", "crashed"}
HbPCs == {"none", "send_hb", "send_info", "send_sadd", "wait", "exited"}
AdminPCs == {"idle", "get_members", "get_info", "srem", "set_flag", "del_flag"}

\* The process runs until Stop returns from main (it then exits, and the
\* deferred cancel of ctx ends every goroutine) or until it is killed.
Alive == mpc \notin {"exited", "crashed"}

\* NewHeartbeat: the loop not started, its stopCh open.
NewHeartbeat == hpc = "none" /\ hstop = FALSE

Init == /\ pstate = "idle" /\ stopCh = FALSE /\ rgen = 0 /\ pauses = 0
        /\ mpc = "start" /\ timedOut = FALSE
        /\ fpc = [f \in Fibers |-> "none"] /\ fch = [f \in Fibers |-> 0]
        /\ rpc = "none" /\ NewHeartbeat
        /\ ready = Messages /\ pel = 0
        /\ hbKey = FALSE /\ infoKey = FALSE /\ inSet = FALSE
        \* the pause flag has no TTL: a worker restarted with a configured
        \* id finds the flag an admin set for its predecessor
        /\ flag \in BOOLEAN
        /\ apc = [a \in Admins |-> "idle"] /\ issued = {}

(***************************************************************************)
(* Main goroutine: Pool.Start, the signal, Pool.Stop, Heartbeat.Stop.      *)
(***************************************************************************)

\* Heartbeat.Start: wg.Add, go heartbeatLoop, then register.
HeartbeatStart == hpc' = "send_hb" /\ mpc' = "reg_sadd"

\* Pool.Start sets the state busy and calls Heartbeat.Start; register is
\* SADD, then SET info.
PoolStart == /\ mpc = "start"
             /\ pstate' = "busy" /\ HeartbeatStart
             /\ UNCHANGED <<stopCh, rgen, pauses, timedOut, fpc, fch, rpc,
                            hstop, redisVars, apc, issued>>

RegisterSAdd == /\ mpc = "reg_sadd"
                /\ inSet' = TRUE /\ mpc' = "reg_info"
                /\ UNCHANGED <<poolVars, timedOut, fpc, fch, rpc, hpc, hstop,
                               ready, pel, hbKey, infoKey, flag, apc, issued>>

\* register's SET info, then Pool.Start spawns the fibers and the
\* recovery goroutine.
RegisterInfo == /\ mpc = "reg_info"
                /\ infoKey' = TRUE /\ mpc' = "running"
                /\ fpc' = [f \in Fibers |-> "top"] /\ rpc' = "run"
                /\ UNCHANGED <<poolVars, timedOut, fch, hpc, hstop,
                               ready, pel, hbKey, inSet, flag, apc, issued>>

\* SIGTERM: Pool.Stop sets shutting_down and closes stopCh.
StopBegin == /\ mpc = "running"
             /\ pstate' = "shutting_down" /\ stopCh' = TRUE
             /\ mpc' = "waiting"
             /\ UNCHANGED <<rgen, pauses, timedOut, fpc, fch, rpc, hpc,
                            hstop, redisVars, apc, issued>>

\* Pool.wg covers every fiber and the recovery goroutine.
PoolWaitDone == /\ mpc = "waiting"
                /\ \A f \in Fibers : fpc[f] = "exited"
                /\ rpc = "exited"
                /\ mpc' = "hbstop"
                /\ UNCHANGED <<poolVars, timedOut, fpc, fch, rpc, hpc, hstop,
                               redisVars, apc, issued>>

\* ShutdownTimeout elapses first (or shutdownCtx, with the same deadline).
PoolWaitTimeout == /\ mpc = "waiting"
                   /\ timedOut' = TRUE /\ mpc' = "hbstop"
                   /\ UNCHANGED <<poolVars, fpc, fch, rpc, hpc, hstop,
                                  redisVars, apc, issued>>

\* Heartbeat.Stop: close(stopCh), then wg.Wait for the heartbeat loop.
HbStopClose == /\ mpc = "hbstop"
               /\ hstop' = TRUE /\ mpc' = "hbwait"
               /\ UNCHANGED <<poolVars, timedOut, fpc, fch, rpc, hpc,
                              redisVars, apc, issued>>

\* (HbWaitDoneNoWait, a mutant: deregister without waiting for the loop)
HbWaitDoneNoWait == /\ mpc = "hbwait"
                    /\ mpc' = "srem"
                    /\ UNCHANGED <<poolVars, timedOut, fpc, fch, rpc, hpc, hstop,
                                   redisVars, apc, issued>>

HbWaitDone == /\ mpc = "hbwait" /\ hpc = "exited"
              /\ mpc' = "srem"
              /\ UNCHANGED <<poolVars, timedOut, fpc, fch, rpc, hpc, hstop,
                             redisVars, apc, issued>>

\* deregister: SREM workers:active, then DEL heartbeat and info.  Stop
\* then returns and main returns: the process exits.
DeregisterSRem == /\ mpc = "srem"
                  /\ inSet' = FALSE /\ mpc' = "del"
                  /\ UNCHANGED <<poolVars, timedOut, fpc, fch, rpc, hpc, hstop,
                                 ready, pel, hbKey, infoKey, flag, apc, issued>>

DeregisterDel == /\ mpc = "del"
                 /\ hbKey' = FALSE /\ infoKey' = FALSE /\ mpc' = "exited"
                 /\ UNCHANGED <<poolVars, timedOut, fpc, fch, rpc, hpc, hstop,
                                ready, pel, inSet, flag, apc, issued>>

\* The process is killed at any point: every goroutine is gone, the keys
\* stay until their TTLs run out and the claimed messages stay in the PEL.
Crash == /\ CanCrash /\ Alive
         /\ mpc' = "crashed"
         /\ UNCHANGED <<poolVars, timedOut, fpc, fch, rpc, hpc, hstop,
                        redisVars, apc, issued>>
(***************************************************************************)
(* Pool.Pause and Pool.Resume, called by the program that owns the pool.  *)
(* Both act only in the state they expect, under stateMu.  Resume closes  *)
(* resumeCh and stores a new channel in the field.                         *)
(***************************************************************************)
Pause == /\ Alive /\ pstate = "busy" /\ pauses < MaxPauses
         /\ pstate' = "paused" /\ pauses' = pauses + 1
         /\ UNCHANGED <<stopCh, rgen, procVars, redisVars, apc, issued>>

Resume == /\ Alive /\ pstate = "paused"
          /\ pstate' = "busy" /\ rgen' = rgen + 1
          /\ UNCHANGED <<stopCh, pauses, procVars, redisVars, apc, issued>>

(***************************************************************************)
(* A fiber: one iteration of the loop in Pool.worker.                      *)
(***************************************************************************)
SetFiber(f, pc) == fpc' = [fpc EXCEPT ![f] = pc]

\* After the local pause the loop calls IsWorkerPaused: EXISTS
\* worker:{id}:paused, and sleeps when the flag is there.
AfterLocalPause(f) == SetFiber(f, IF flag THEN "sleep" ELSE "acquire")

\* The non-blocking stopCh check, p.State() under the read lock and, when
\* not paused, IsWorkerPaused.  The two reads are one step: Pause/Resume
\* write only the state and the admin only the flag, so whatever runs
\* between the reads commutes with them.
FiberTop(f) == /\ Alive /\ fpc[f] = "top"
               /\ IF stopCh THEN SetFiber(f, "exited")
                  ELSE IF pstate = "paused" THEN SetFiber(f, "readch")
                  ELSE AfterLocalPause(f)
               /\ UNCHANGED <<poolVars, mpc, timedOut, fch, rpc, hpc, hstop,
                              redisVars, apc, issued>>

\* The select evaluates p.resumeCh, read without stateMu.
FiberReadCh(f) == /\ Alive /\ fpc[f] = "readch"
                  /\ fch' = [fch EXCEPT ![f] = rgen] /\ SetFiber(f, "localwait")
                  /\ UNCHANGED <<poolVars, mpc, timedOut, rpc, hpc, hstop,
                                 redisVars, apc, issued>>

\* The channel it waits on is closed; then IsWorkerPaused.
FiberResumed(f) == /\ Alive /\ fpc[f] = "localwait" /\ fch[f] < rgen
                   /\ AfterLocalPause(f)
                   /\ UNCHANGED <<poolVars, mpc, timedOut, fch, rpc, hpc, hstop,
                                  redisVars, apc, issued>>

\* time.After(1s) fires and the loop continues.
FiberSlept(f) == /\ Alive /\ fpc[f] = "sleep"
                 /\ SetFiber(f, "top")
                 /\ UNCHANGED <<poolVars, mpc, timedOut, fch, rpc, hpc, hstop,
                                redisVars, apc, issued>>

\* The stopCh case of the select in the local wait, the remote-pause
\* sleep or the semaphore acquire.
FiberStopped(f) == /\ Alive /\ stopCh
                   /\ fpc[f] \in {"localwait", "sleep", "acquire"}
                   /\ SetFiber(f, "exited")
                   /\ UNCHANGED <<poolVars, mpc, timedOut, fch, rpc, hpc, hstop,
                                  redisVars, apc, issued>>

\* (FiberDequeueRereads, a mutant: the read also returns a message that
\* was already claimed, as XREADGROUP with id 0 instead of ">")
FiberDequeueRereads(f) ==
    /\ Alive /\ fpc[f] = "acquire"
    /\ IF ready + pel > 0
         THEN /\ pel' = pel + 1 /\ SetFiber(f, "exec") /\ UNCHANGED ready
         ELSE /\ UNCHANGED <<ready, pel>> /\ SetFiber(f, "top")
    /\ UNCHANGED <<poolVars, mpc, timedOut, fch, rpc, hpc, hstop,
                   hbKey, infoKey, inSet, flag, apc, issued>>

\* The semaphore has one slot per fiber, so the send always succeeds
\* (when stopCh is closed too, select picks either case; see
\* FiberStopped).  Then processNextTask's DequeueBlocking(ctx): ctx is
\* not the stop signal, so the read runs to its end.  With none ready the
\* read times out, the slot is released and the loop goes round.
\* Otherwise XREADGROUP with COUNT 1 over the priority streams claims one
\* message from each stream that has one, n of them, into this pool's
\* PEL; only result[0] is handled and the others stay claimed.  The
\* handled one's task record is read with GET: when that fails the
\* message is acked and nil returned, else the task goes to execution.
FiberDequeue(f) ==
    /\ Alive /\ fpc[f] = "acquire"
    /\ \/ /\ ready = 0
          /\ UNCHANGED <<ready, pel>> /\ SetFiber(f, "top")
       \/ \E n \in 1..Streams :
            /\ n <= ready
            /\ ready' = ready - n
            /\ \/ pel' = pel + n /\ SetFiber(f, "exec")
               \/ pel' = pel + n - 1 /\ SetFiber(f, "top")
    /\ UNCHANGED <<poolVars, mpc, timedOut, fch, rpc, hpc, hstop,
                   hbKey, infoKey, inSet, flag, apc, issued>>

\* The rest of processNextTask, then the slot is released.  sm.Start
\* fails when the stored task is not pending (cancelled while queued, or
\* a redelivered copy already running): it returns the error without
\* XACK and the message stays in the PEL.  Otherwise Execute, then
\* handleTaskSuccess or handleTaskFailure, each of which ends with XACK.
FiberSettle(f) == /\ Alive /\ fpc[f] = "exec"
                  /\ \/ pel' = pel - 1
                     \/ UNCHANGED pel
                  /\ SetFiber(f, "top")
                  /\ UNCHANGED <<poolVars, mpc, timedOut, fch, rpc, hpc, hstop,
                                 ready, hbKey, infoKey, inSet, flag, apc, issued>>

\* recoveryLoop returns on stopCh; its reclaiming is checked by Broker.
RecoveryExit == /\ Alive /\ rpc = "run" /\ stopCh
                /\ rpc' = "exited"
                /\ UNCHANGED <<poolVars, mpc, timedOut, fpc, fch, hpc, hstop,
                               redisVars, apc, issued>>
(***************************************************************************)
(* The heartbeat goroutine: an immediate sendHeartbeat, then one per tick  *)
(* until Heartbeat.stopCh is closed.  sendHeartbeat is three commands:     *)
(* SET heartbeat (TTL timeout), SET info (TTL 2 x timeout), SADD.          *)
(***************************************************************************)
SendHeartbeatSet == /\ Alive /\ hpc = "send_hb"
                    /\ hbKey' = TRUE /\ hpc' = "send_info"
                    /\ UNCHANGED <<poolVars, mpc, timedOut, fpc, fch, rpc, hstop,
                                   ready, pel, infoKey, inSet, flag, apc, issued>>

SendHeartbeatInfo == /\ Alive /\ hpc = "send_info"
                     /\ infoKey' = TRUE /\ hpc' = "send_sadd"
                     /\ UNCHANGED <<poolVars, mpc, timedOut, fpc, fch, rpc, hstop,
                                    ready, pel, hbKey, inSet, flag, apc, issued>>

\* (SendHeartbeatNoSAdd, a mutant: only register adds the id to the set)
SendHeartbeatNoSAdd == /\ Alive /\ hpc = "send_sadd"
                       /\ hpc' = "wait"
                       /\ UNCHANGED <<poolVars, mpc, timedOut, fpc, fch, rpc,
                                      hstop, redisVars, apc, issued>>

SendHeartbeatSAdd == /\ Alive /\ hpc = "send_sadd"
                     /\ inSet' = TRUE /\ hpc' = "wait"
                     /\ UNCHANGED <<poolVars, mpc, timedOut, fpc, fch, rpc, hstop,
                                    ready, pel, hbKey, infoKey, flag, apc, issued>>

\* The ticker fires; when stopCh is closed as well, select picks either.
HeartbeatTick == /\ Alive /\ hpc = "wait"
                 /\ hpc' = "send_hb"
                 /\ UNCHANGED <<poolVars, mpc, timedOut, fpc, fch, rpc, hstop,
                                redisVars, apc, issued>>

HeartbeatExit == /\ Alive /\ hpc = "wait" /\ hstop
                 /\ hpc' = "exited"
                 /\ UNCHANGED <<poolVars, mpc, timedOut, fpc, fch, rpc, hstop,
                                redisVars, apc, issued>>

\* TTLs run out only when nothing refreshes the keys: after a crash.  The
\* info key lives twice as long as the heartbeat key.
ExpireHeartbeat == /\ mpc = "crashed" /\ hbKey
                   /\ hbKey' = FALSE
                   /\ UNCHANGED <<poolVars, procVars, ready, pel, infoKey,
                                  inSet, flag, apc, issued>>

ExpireInfo == /\ mpc = "crashed" /\ infoKey /\ ~hbKey
              /\ infoKey' = FALSE
              /\ UNCHANGED <<poolVars, procVars, ready, pel, hbKey,
                             inSet, flag, apc, issued>>

(***************************************************************************)
(* Admin handlers (handlers/admin.go), one Redis command per step.         *)
(***************************************************************************)
SetAdmin(a, pc) == apc' = [apc EXCEPT ![a] = pc]

\* The request arrives with its first command.  ListWorkers starts
\* GetActiveWorkers with SMEMBERS; GetWorker, PauseWorker and
\* ResumeWorker start with IsWorkerAlive's EXISTS, answering 404 when
\* the heartbeat key is gone.
Issue(a, r) ==
    /\ apc[a] = "idle" /\ r \notin issued
    /\ issued' = issued \cup {r}
    /\ SetAdmin(a, CASE r = "list"   -> IF inSet THEN "get_info" ELSE "idle"
                     [] r = "get"    -> IF hbKey THEN "get_members" ELSE "idle"
                     [] r = "pause"  -> IF hbKey THEN "set_flag" ELSE "idle"
                     [] r = "resume" -> IF hbKey THEN "del_flag" ELSE "idle")
    /\ UNCHANGED <<poolVars, procVars, redisVars>>

\* GetWorker's GetActiveWorkers: SMEMBERS.
GetMembers(a) == /\ apc[a] = "get_members"
                 /\ SetAdmin(a, IF inSet THEN "get_info" ELSE "idle")
                 /\ UNCHANGED <<poolVars, procVars, redisVars, issued>>

\* GET worker:{id}:info; redis.Nil means the worker is dropped from the set.
GetInfo(a) == /\ apc[a] = "get_info"
              /\ SetAdmin(a, IF infoKey THEN "idle" ELSE "srem")
              /\ UNCHANGED <<poolVars, procVars, redisVars, issued>>

CleanupSRem(a) == /\ apc[a] = "srem"
                  /\ inSet' = FALSE /\ SetAdmin(a, "idle")
                  /\ UNCHANGED <<poolVars, procVars, ready, pel, hbKey,
                                 infoKey, flag, issued>>

\* SET worker:{id}:paused "1" with no expiry, and DEL of it.
SetPauseFlag(a) == /\ apc[a] = "set_flag"
                   /\ flag' = TRUE /\ SetAdmin(a, "idle")
                   /\ UNCHANGED <<poolVars, procVars, ready, pel, hbKey,
                                  infoKey, inSet, issued>>

DelPauseFlag(a) == /\ apc[a] = "del_flag"
                   /\ flag' = FALSE /\ SetAdmin(a, "idle")
                   /\ UNCHANGED <<poolVars, procVars, ready, pel, hbKey,
                                  infoKey, inSet, issued>>

(***************************************************************************)
(* The specification                                                       *)
(***************************************************************************)
MainStep == \/ PoolStart \/ RegisterSAdd \/ RegisterInfo
            \/ PoolWaitDone \/ PoolWaitTimeout \/ HbStopClose \/ HbWaitDone
            \/ DeregisterSRem \/ DeregisterDel

FiberStep(f) == \/ FiberTop(f) \/ FiberReadCh(f) \/ FiberResumed(f)
                \/ FiberSlept(f)
                \/ FiberStopped(f) \/ FiberDequeue(f) \/ FiberSettle(f)

HeartbeatStep == \/ SendHeartbeatSet \/ SendHeartbeatInfo \/ SendHeartbeatSAdd
                 \/ HeartbeatTick \/ HeartbeatExit

AdminStep(a) == \/ GetMembers(a) \/ GetInfo(a) \/ CleanupSRem(a)
                \/ SetPauseFlag(a) \/ DelPauseFlag(a)

Expire == ExpireHeartbeat \/ ExpireInfo

Next == \/ MainStep \/ StopBegin \/ Crash \/ Pause \/ Resume
        \/ \E f \in Fibers : FiberStep(f)
        \/ RecoveryExit \/ HeartbeatStep \/ Expire
        \/ \E a \in Admins : AdminStep(a) \/ \E r \in Requests : Issue(a, r)

\* Goroutines that are runnable get scheduled, tickers and timers fire,
\* TTLs run out, and a handler that has started finishes.  The signal,
\* a crash, the owner's Pause/Resume and admin requests are external and
\* may never come.
Fairness == /\ WF_vars(MainStep)
            /\ \A f \in Fibers : WF_vars(FiberStep(f))
            /\ WF_vars(RecoveryExit) /\ WF_vars(HeartbeatStep)
            /\ WF_vars(Expire)
            /\ \A a \in Admins : WF_vars(AdminStep(a))

Spec == Init /\ [][Next]_vars /\ Fairness

(***************************************************************************)
(* Properties                                                              *)
(***************************************************************************)
TypeOK == /\ pstate \in PoolStates
          /\ stopCh \in BOOLEAN /\ rgen \in 0..MaxPauses
          /\ pauses \in 0..MaxPauses
          /\ mpc \in MainPCs /\ timedOut \in BOOLEAN
          /\ fpc \in [Fibers -> FiberPCs] /\ fch \in [Fibers -> 0..MaxPauses]
          /\ rpc \in {"none", "run", "exited"} /\ hpc \in HbPCs
          /\ hstop \in BOOLEAN
          /\ ready \in 0..Messages /\ pel \in 0..Messages
          /\ ready + pel <= Messages
          /\ {hbKey, infoKey, inSet, flag} \subseteq BOOLEAN
          /\ apc \in [Admins -> AdminPCs] /\ issued \subseteq Requests

\* Deregistration is final: once Stop has returned and the process has
\* exited, no heartbeat, info or workers:active entry of the worker is
\* left.  It relies on Heartbeat.Stop waiting for the heartbeat loop
\* before deregister, since the loop's sendHeartbeat SETs and SADDs again.
StoppedIsGone == mpc = "exited" => ~hbKey /\ ~infoKey /\ ~inSet

\* A running worker that GetActiveWorkers dropped from workers:active
\* (its info key was not yet written when the handler read it) is listed
\* again: every sendHeartbeat SADDs the id.
ListedWhileRunning == (mpc = "running" /\ ~inSet) ~> (inSet \/ mpc # "running")

\* Pool.Resume wakes every fiber blocked in the local pause: a fiber
\* waiting on resumeCh while the pool is busy again leaves the wait,
\* unless the process is gone.
ResumeWakesFibers ==
    \A f \in Fibers : (fpc[f] = "localwait" /\ pstate = "busy")
                          ~> (fpc[f] # "localwait" \/ ~Alive)
=============================================================================
