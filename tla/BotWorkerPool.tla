---------------------------- MODULE BotWorkerPool ----------------------------
(***************************************************************************)
(* One BotWorkerPool (internal/handler/bot_worker_pool.go): the channel of *)
(* jobs, the worker goroutines, the autoscaler goroutine, the callers of   *)
(* Submit and the one caller of Shutdown. Every atomic load, store, add    *)
(* and channel operation another goroutine can observe is a step of its    *)
(* own, except that steps on one goroutine's way to its end are merged:    *)
(* workers.Add(-1) with the wg.Done of the same goroutine, and             *)
(* workers.Add(1) with the wg.Add(1) and the go statement after it.        *)
(*                                                                         *)
(* scaleDownSignal is left out: nothing in the program sends on it or      *)
(* closes it, so the case of the select that receives from it never fires. *)
(***************************************************************************)
EXTENDS Naturals, Integers, Sequences, FiniteSets

CONSTANTS
    Jobs,            \* jobs, each submitted once
    NoJob,           \* a worker's local variable when it holds no job
    Worker,          \* names for worker goroutines
    InitialWorkers,  \* 5, a literal in NewBotWorkerPool
    MinWorkers,      \* DefaultWorkerMin
    MaxWorkers,      \* DefaultWorkerMax
    QueueSize,       \* the capacity of the channel
    ScaleUpStep,     \* 5, a literal in evaluateScaling
    ScaleDownStep    \* 2, a literal in evaluateScaling

ASSUME JobsAssumption == NoJob \notin Jobs
ASSUME WorkerAssumption == IsFiniteSet(Worker)
ASSUME SizeAssumption ==
    /\ MinWorkers \in Nat /\ InitialWorkers \in Nat /\ MaxWorkers \in Nat
    /\ MinWorkers <= InitialWorkers /\ InitialWorkers <= MaxWorkers
    /\ InitialWorkers <= Cardinality(Worker)
    /\ QueueSize \in Nat \ {0}
    /\ ScaleUpStep \in Nat /\ ScaleDownStep \in Nat

VARIABLES
    queue,         \* the buffered channel
    queueDepth,    \* metrics.queueDepth, a counter beside the channel
    workers,       \* the atomic counter of workers
    targetWorkers, \* the atomic target the autoscaler and Shutdown set
    shutdownChan,  \* TRUE once the channel is closed
    wg,            \* the WaitGroup's counter
    wpc,           \* wpc[w]: where goroutine w is
    seen,          \* seen[w]: the local variable `current`
    job,           \* job[w]: the local variable `job`
    spc,           \* where the autoscaler goroutine is
    util,          \* its local `utilization`: "low", "ok" or "high"
    cur,           \* its local `currentWorkers`
    left,          \* goroutines its loop still has to start
    cpc,           \* where the caller of Shutdown is
    submit,        \* submit[j]: where the caller of Submit(j) is
    finished       \* jobs a worker is done with

scalerVars == <<spc, util, cur, left>>
vars == <<queue, queueDepth, workers, targetWorkers, shutdownChan, wg, wpc,
          seen, job, scalerVars, cpc, submit, finished>>

Smaller(a, b) == IF a < b THEN a ELSE b

Live == {w \in Worker : wpc[w] \notin {"none", "stopped"}}
Counted == {w \in Worker : wpc[w] # "none"}
Held == {w \in Worker : wpc[w] \in {"dequeued", "process"}}
Dequeued == {w \in Worker : wpc[w] = "dequeued"}
Sent == {j \in Jobs : submit[j] = "sent"}

(* Mutant of InitialCount: NewBotWorkerPool starts autoScale without      *)
(* p.wg.Add(1).                                                            *)
WorkersOnly == InitialWorkers

(* the WaitGroup after NewBotWorkerPool: the workers and the autoscaler *)
InitialCount == InitialWorkers + 1

Init ==
    /\ queue = <<>> /\ queueDepth = 0
    /\ workers = InitialWorkers
    /\ targetWorkers = InitialWorkers
    /\ shutdownChan = FALSE
    /\ wg = InitialCount
    /\ \E W \in SUBSET Worker :
          /\ Cardinality(W) = InitialWorkers
          /\ wpc = [w \in Worker |-> IF w \in W THEN "head" ELSE "none"]
    /\ seen = [w \in Worker |-> 0]
    /\ job = [w \in Worker |-> NoJob]
    /\ spc = "idle" /\ util = "ok" /\ cur = 0 /\ left = 0
    /\ cpc = "open"
    /\ submit = [j \in Jobs |-> "new"]
    /\ finished = {}

-----------------------------------------------------------------------------
(* worker *)

(* current := p.workers.Load() *)
LoadCurrent(w) ==
    /\ wpc[w] = "head"
    /\ wpc' = [wpc EXCEPT ![w] = "check"]
    /\ seen' = [seen EXCEPT ![w] = workers]
    /\ UNCHANGED <<queue, queueDepth, workers, targetWorkers, shutdownChan,
                   wg, job, scalerVars, cpc, submit, finished>>

(* target := p.targetWorkers.Load(), and the comparison of the locals *)
CheckTarget(w) ==
    /\ wpc[w] = "check"
    /\ wpc' = [wpc EXCEPT ![w] =
                  IF seen[w] > targetWorkers /\ seen[w] > MinWorkers
                  THEN "retire" ELSE "select"]
    /\ seen' = [seen EXCEPT ![w] = 0]
    /\ UNCHANGED <<queue, queueDepth, workers, targetWorkers, shutdownChan,
                   wg, job, scalerVars, cpc, submit, finished>>

(* p.workers.Add(-1); return *)
Retire(w) ==
    /\ wpc[w] = "retire"
    /\ wpc' = [wpc EXCEPT ![w] = "none"]
    /\ workers' = workers - 1
    /\ wg' = wg - 1
    /\ UNCHANGED <<queue, queueDepth, targetWorkers, shutdownChan, seen, job,
                   scalerVars, cpc, submit, finished>>

(* case job := <-p.queue *)
ReceiveJob(w) ==
    /\ wpc[w] = "select"
    /\ queue # <<>>
    /\ queue' = Tail(queue)
    /\ job' = [job EXCEPT ![w] = Head(queue)]
    /\ wpc' = [wpc EXCEPT ![w] = "dequeued"]
    /\ UNCHANGED <<queueDepth, workers, targetWorkers, shutdownChan, wg, seen,
                   scalerVars, cpc, submit, finished>>

(* p.metrics.queueDepth.Add(-1) *)
CountDequeue(w) ==
    /\ wpc[w] = "dequeued"
    /\ queueDepth' = queueDepth - 1
    /\ wpc' = [wpc EXCEPT ![w] = "process"]
    /\ UNCHANGED <<queue, workers, targetWorkers, shutdownChan, wg, seen, job,
                   scalerVars, cpc, submit, finished>>

(* Mutant of FinishJob: `return` where the skipped job has `continue`. *)
FinishJobReturns(w) ==
    /\ wpc[w] = "process"
    /\ finished' = finished \cup {job[w]}
    /\ job' = [job EXCEPT ![w] = NoJob]
    /\ wpc' = [wpc EXCEPT ![w] = "stopped"]
    /\ wg' = wg - 1
    /\ UNCHANGED <<queue, queueDepth, workers, targetWorkers, shutdownChan,
                   seen, scalerVars, cpc, submit>>

(* processJob returns, or too little of the job's time was left and it is  *)
(* skipped: either way the worker goes back to the head of its loop.       *)
FinishJob(w) ==
    /\ wpc[w] = "process"
    /\ finished' = finished \cup {job[w]}
    /\ job' = [job EXCEPT ![w] = NoJob]
    /\ wpc' = [wpc EXCEPT ![w] = "head"]
    /\ UNCHANGED <<queue, queueDepth, workers, targetWorkers, shutdownChan,
                   wg, seen, scalerVars, cpc, submit>>

(* Mutant of StopWorker: a worker busy with a job stops too. *)
StopBusyWorker(w) ==
    /\ wpc[w] \in {"select", "process"}
    /\ shutdownChan
    /\ wpc' = [wpc EXCEPT ![w] = "stopped"]
    /\ job' = [job EXCEPT ![w] = NoJob]
    /\ wg' = wg - 1
    /\ UNCHANGED <<queue, queueDepth, workers, targetWorkers, shutdownChan,
                   seen, scalerVars, cpc, submit, finished>>

(* case <-p.shutdownChan: the counter of workers is left as it is *)
StopWorker(w) ==
    /\ wpc[w] = "select"
    /\ shutdownChan
    /\ wpc' = [wpc EXCEPT ![w] = "stopped"]
    /\ wg' = wg - 1
    /\ UNCHANGED <<queue, queueDepth, workers, targetWorkers, shutdownChan,
                   seen, job, scalerVars, cpc, submit, finished>>

WorkerStep(w) ==
    \/ LoadCurrent(w) \/ CheckTarget(w) \/ Retire(w)
    \/ ReceiveJob(w) \/ CountDequeue(w) \/ FinishJob(w) \/ StopWorker(w)

-----------------------------------------------------------------------------
(* autoScale and evaluateScaling *)

(* Mutant of Utilization: a full queue is not yet above the threshold. *)
UtilizationAboveFull(n) == IF n > QueueSize THEN "high"
                           ELSE IF 5 * n < QueueSize THEN "low"
                           ELSE "ok"

Utilization(n) == IF 10 * n > 7 * QueueSize THEN "high"
                  ELSE IF 5 * n < QueueSize THEN "low"
                  ELSE "ok"

(* The ticker fires; utilization is computed from len(p.queue). *)
SampleQueue ==
    /\ spc = "idle"
    /\ spc' = "sampled"
    /\ util' = Utilization(Len(queue))
    /\ UNCHANGED <<queue, queueDepth, workers, targetWorkers, shutdownChan,
                   wg, wpc, seen, job, cur, left, cpc, submit, finished>>

(* currentWorkers := p.workers.Load(), and which of the two ifs to enter *)
ReadWorkers ==
    /\ spc = "sampled"
    /\ \/ /\ util = "high" /\ workers < MaxWorkers
          /\ spc' = "raise" /\ cur' = workers /\ util' = util
       \/ /\ util = "low" /\ workers > MinWorkers
          /\ spc' = "lower" /\ cur' = workers /\ util' = util
       \/ /\ ~(util = "high" /\ workers < MaxWorkers)
          /\ ~(util = "low" /\ workers > MinWorkers)
          /\ spc' = "idle" /\ cur' = 0 /\ util' = "ok"
    /\ UNCHANGED <<queue, queueDepth, workers, targetWorkers, shutdownChan,
                   wg, wpc, seen, job, left, cpc, submit, finished>>

(* Mutant of WorkersToAdd: always a full step, whatever room is left. *)
FullStep == ScaleUpStep

WorkersToAdd == Smaller(MaxWorkers - cur, ScaleUpStep)

(* p.targetWorkers.Store(newTarget), before the loop *)
RaiseTarget ==
    /\ spc = "raise"
    /\ targetWorkers' = cur + WorkersToAdd
    /\ left' = WorkersToAdd
    /\ spc' = "spawn"
    /\ cur' = 0 /\ util' = "ok"
    /\ UNCHANGED <<queue, queueDepth, workers, shutdownChan, wg, wpc, seen,
                   job, cpc, submit, finished>>

(* Mutant of SpawnWorker: the loop forgets p.wg.Add(1). *)
SpawnUncounted ==
    /\ spc = "spawn"
    /\ left > 0
    /\ \E w \in Worker :
          /\ wpc[w] = "none"
          /\ wpc' = [wpc EXCEPT ![w] = "head"]
    /\ workers' = workers + 1
    /\ left' = left - 1
    /\ UNCHANGED <<queue, queueDepth, targetWorkers, shutdownChan, wg, seen,
                   job, spc, util, cur, cpc, submit, finished>>

(* one turn of the loop *)
SpawnWorker ==
    /\ spc = "spawn"
    /\ left > 0
    /\ \E w \in Worker :
          /\ wpc[w] = "none"
          /\ wpc' = [wpc EXCEPT ![w] = "head"]
    /\ workers' = workers + 1
    /\ wg' = wg + 1
    /\ left' = left - 1
    /\ UNCHANGED <<queue, queueDepth, targetWorkers, shutdownChan, seen, job,
                   spc, util, cur, cpc, submit, finished>>

(* the loop is over: back to the select of autoScale *)
EndSpawn ==
    /\ spc = "spawn"
    /\ left = 0
    /\ spc' = "idle"
    /\ UNCHANGED <<queue, queueDepth, workers, targetWorkers, shutdownChan,
                   wg, wpc, seen, job, util, cur, left, cpc, submit, finished>>

LowerTarget ==
    /\ spc = "lower"
    /\ LET newTarget == cur - Smaller(cur - MinWorkers, ScaleDownStep)
       IN  targetWorkers' = IF newTarget < MinWorkers
                            THEN MinWorkers ELSE newTarget
    /\ spc' = "idle"
    /\ cur' = 0 /\ util' = "ok"
    /\ UNCHANGED <<queue, queueDepth, workers, shutdownChan, wg, wpc, seen,
                   job, left, cpc, submit, finished>>

(* Mutant of StopScaler: autoScale without its deferred wg.Done. *)
StopScalerNotDone ==
    /\ spc = "idle"
    /\ shutdownChan
    /\ spc' = "stopped"
    /\ UNCHANGED <<queue, queueDepth, workers, targetWorkers, shutdownChan,
                   wg, wpc, seen, job, util, cur, left, cpc, submit, finished>>

StopScaler ==
    /\ spc = "idle"
    /\ shutdownChan
    /\ spc' = "stopped"
    /\ wg' = wg - 1
    /\ UNCHANGED <<queue, queueDepth, workers, targetWorkers, shutdownChan,
                   wpc, seen, job, util, cur, left, cpc, submit, finished>>

ScalerStep == \/ SampleQueue \/ ReadWorkers \/ RaiseTarget \/ SpawnWorker
              \/ EndSpawn \/ LowerTarget \/ StopScaler

-----------------------------------------------------------------------------
(* Shutdown *)

ClearTarget ==
    /\ cpc = "open"
    /\ cpc' = "clearing"
    /\ targetWorkers' = 0
    /\ UNCHANGED <<queue, queueDepth, workers, shutdownChan, wg, wpc, seen,
                   job, scalerVars, submit, finished>>

CloseChannel ==
    /\ cpc = "clearing"
    /\ cpc' = "waiting"
    /\ shutdownChan' = TRUE
    /\ UNCHANGED <<queue, queueDepth, workers, targetWorkers, wg, wpc, seen,
                   job, scalerVars, submit, finished>>

WaitReturns ==
    /\ cpc = "waiting"
    /\ wg = 0
    /\ cpc' = "done"
    /\ UNCHANGED <<queue, queueDepth, workers, targetWorkers, shutdownChan,
                   wg, wpc, seen, job, scalerVars, submit, finished>>

-----------------------------------------------------------------------------
(* Submit *)

(* case p.queue <- job. A receiver that waits in its select takes the job  *)
(* in the same instant only if the queue is empty; that is Send followed   *)
(* at once by its ReceiveJob.                                              *)
Send(j) ==
    /\ submit[j] = "new"
    /\ Len(queue) < QueueSize
    /\ queue' = Append(queue, j)
    /\ submit' = [submit EXCEPT ![j] = "sent"]
    /\ UNCHANGED <<queueDepth, workers, targetWorkers, shutdownChan, wg, wpc,
                   seen, job, scalerVars, cpc, finished>>

(* p.metrics.queueDepth.Add(1); return true *)
CountSubmit(j) ==
    /\ submit[j] = "sent"
    /\ queueDepth' = queueDepth + 1
    /\ submit' = [submit EXCEPT ![j] = "accepted"]
    /\ UNCHANGED <<queue, workers, targetWorkers, shutdownChan, wg, wpc, seen,
                   job, scalerVars, cpc, finished>>

(* Mutant of Reject: the depth is counted before the send that then fails. *)
RejectCounted(j) ==
    /\ submit[j] = "new"
    /\ submit' = [submit EXCEPT ![j] = "rejected"]
    /\ queueDepth' = queueDepth + 1
    /\ UNCHANGED <<queue, workers, targetWorkers, shutdownChan, wg, wpc, seen,
                   job, scalerVars, cpc, finished>>

(* return false: less than 3 seconds left (at any time), or a full queue *)
Reject(j) ==
    /\ submit[j] = "new"
    /\ submit' = [submit EXCEPT ![j] = "rejected"]
    /\ UNCHANGED <<queue, queueDepth, workers, targetWorkers, shutdownChan,
                   wg, wpc, seen, job, scalerVars, cpc, finished>>

-----------------------------------------------------------------------------
(* After Shutdown has returned and every Submit has, nothing is left to do *)
Terminated ==
    /\ cpc = "done"
    /\ \A j \in Jobs : submit[j] \in {"accepted", "rejected"}
    /\ UNCHANGED vars

Next == \/ \E w \in Worker : WorkerStep(w)
        \/ ScalerStep
        \/ ClearTarget \/ CloseChannel \/ WaitReturns
        \/ \E j \in Jobs : Send(j) \/ CountSubmit(j) \/ Reject(j)
        \/ Terminated

Spec == Init /\ [][Next]_vars

(* Go runs every goroutine that is ready; ForwardToWebhooks is bounded by  *)
(* its timeout and its retries, so processJob returns; the ticker keeps    *)
(* firing, but only every five seconds, so that a select of autoScale      *)
(* sooner or later finds the closed channel alone. Nobody has to submit a  *)
(* job or to call Shutdown.                                                *)
Fairness == /\ \A w \in Worker : WF_vars(WorkerStep(w))
            /\ WF_vars(ScalerStep) /\ SF_vars(StopScaler)
            /\ WF_vars(CloseChannel) /\ WF_vars(WaitReturns)

FairSpec == Spec /\ Fairness

-----------------------------------------------------------------------------
(* Properties *)

(* The counters are integers, each goroutine is at one of its steps and    *)
(* holds a job exactly between receiving it and finishing it.              *)
TypeOK ==
    /\ queue \in Seq(Jobs)
    /\ queueDepth \in Int /\ workers \in Int /\ wg \in Int
    /\ targetWorkers \in Int
    /\ shutdownChan \in BOOLEAN
    /\ wpc \in [Worker -> {"none", "head", "check", "retire", "select",
                          "dequeued", "process", "stopped"}]
    /\ seen \in [Worker -> Int]
    /\ job \in [Worker -> Jobs \cup {NoJob}]
    /\ \A w \in Worker : w \in Held <=> job[w] # NoJob
    /\ spc \in {"idle", "sampled", "raise", "spawn", "lower", "stopped"}
    /\ util \in {"low", "ok", "high"}
    /\ cur \in Int /\ left \in Nat
    /\ cpc \in {"open", "clearing", "waiting", "done"}
    /\ submit \in [Jobs -> {"new", "sent", "accepted", "rejected"}]
    /\ finished \subseteq Jobs

(* What the autoscaler's locals tell: between loading the count and the    *)
(* end of its loop nobody else adds a worker, so the count it holds is an  *)
(* upper bound, and the loop stops at MaxWorkers.                          *)
ScalerInv ==
    /\ workers + left <= MaxWorkers
    /\ spc # "spawn" => left = 0
    /\ spc = "raise" => workers <= cur /\ cur < MaxWorkers
    /\ spc = "lower" => MinWorkers < cur

(* The pool never runs more than MaxWorkers goroutines: the autoscaler's   *)
(* count of workers may be stale when it acts on it, and the goroutines it *)
(* has still to start count too.                                           *)
WorkersWithinMax ==
    /\ workers + left <= MaxWorkers
    /\ Cardinality(Live) <= MaxWorkers

(* metrics.queueDepth, which GetMetrics reports, differs from the length   *)
(* of the channel only by the Submits and the workers that have done their *)
(* channel operation and not yet the counter's: it never drifts.           *)
QueueDepthAccurate ==
    queueDepth = Len(queue) - Cardinality(Sent) + Cardinality(Dequeued)

(* The WaitGroup counts exactly the goroutines that run, and the counter   *)
(* of workers exactly those that have not retired: the ones Shutdown       *)
(* stopped stay counted, so Stats reports them.                            *)
GoroutinesCounted ==
    /\ wg = Cardinality(Live) + (IF spc = "stopped" THEN 0 ELSE 1)
    /\ workers = Cardinality(Counted)

(* When Shutdown has returned, no goroutine of the pool is left: neither a *)
(* worker the autoscaler started while Shutdown was waiting nor the        *)
(* autoscaler.                                                             *)
ShutdownWaitsForAll == cpc = "done" => Live = {} /\ spc = "stopped"

(* wg.Add never finds the counter at zero, where it would race with the    *)
(* Wait of Shutdown: the autoscaler that adds is itself counted.           *)
AddsWhileCounted == [][wg' > wg => wg > 0]_vars

(* The pool implements the promise of WorkerPool: first in, first out,     *)
(* every job started at most once, nothing running when Shutdown returns   *)
(* and nothing started after it.                                           *)
Pool == INSTANCE WorkerPool WITH
            waiting <- queue,
            running <- {job[w] : w \in Held},
            closed <- cpc = "done"
PoolSpec == Pool!Spec

(* Shutdown returns, whatever the autoscaler and the workers were doing    *)
(* when it was called: wg.Wait always ends.                                *)
ShutdownReturns == cpc = "clearing" ~> cpc = "done"

(* A full queue does not stay full until Shutdown, even when every worker  *)
(* has retired: the autoscaler finds it above the threshold.               *)
FullQueueDrains ==
    Len(queue) = QueueSize ~> (Len(queue) < QueueSize \/ cpc # "open")

(* An accepted job is worked on as long as the pool counts any worker: a   *)
(* counted worker is a goroutine that comes back to the queue.             *)
ServedWhileCounted ==
    \A j \in Jobs : submit[j] = "accepted"
                     ~> (j \in finished \/ workers = 0 \/ cpc # "open")

(* What constants.go says of DefaultWorkerMin, "the minimum number of      *)
(* workers per pool": violated, for each worker compares a count it loaded *)
(* before the others retired.                                              *)
MinWorkersKept == cpc = "open" => workers >= MinWorkers

(* What evaluateScaling says of a lowered target, "Workers will self-      *)
(* terminate when they check targetWorkers": violated, for a worker        *)
(* blocked in its select does not check it again.                          *)
LoweredTargetReached ==
    workers > targetWorkers
        ~> (workers <= targetWorkers \/ workers <= MinWorkers \/ cpc # "open")
=============================================================================
