------------------------ MODULE BotWorkerPool_proofs ------------------------
(***************************************************************************)
(* Theorems about BotWorkerPool, for any number of jobs, goroutines and    *)
(* workers and any capacity of the queue.                                  *)
(***************************************************************************)
EXTENDS BotWorkerPool, FiniteSetTheorems, SequenceTheorems, TLAPS

(***************************************************************************)
(* Types                                                                   *)
(***************************************************************************)

(* Every step of a worker keeps the types. *)
LEMMA WorkerStepType ==
    ASSUME TypeOK, NEW w \in Worker, WorkerStep(w)
    PROVE  TypeOK'
<1> USE JobsAssumption
<1>1. CASE LoadCurrent(w)
  BY <1>1 DEF LoadCurrent, TypeOK, Held, scalerVars
<1>2. CASE CheckTarget(w)
  BY <1>2 DEF CheckTarget, TypeOK, Held, scalerVars
<1>3. CASE Retire(w)
  BY <1>3 DEF Retire, TypeOK, Held, scalerVars
<1>4. CASE ReceiveJob(w)
  <2>1. Head(queue) \in Jobs /\ Tail(queue) \in Seq(Jobs)
    BY <1>4, HeadTailProperties DEF ReceiveJob, TypeOK
  <2> QED BY <1>4, <2>1 DEF ReceiveJob, TypeOK, Held, scalerVars
<1>5. CASE CountDequeue(w)
  BY <1>5 DEF CountDequeue, TypeOK, Held, scalerVars
<1>6. CASE FinishJob(w)
  BY <1>6 DEF FinishJob, TypeOK, Held, scalerVars
<1>7. CASE StopWorker(w)
  BY <1>7 DEF StopWorker, TypeOK, Held, scalerVars
<1> QED BY <1>1, <1>2, <1>3, <1>4, <1>5, <1>6, <1>7 DEF WorkerStep

(* Every step of the autoscaler keeps the types. *)
LEMMA ScalerStepType ==
    ASSUME TypeOK, ScalerInv, ScalerStep
    PROVE  TypeOK'
<1> USE SizeAssumption
<1>1. CASE SampleQueue
  BY <1>1 DEF SampleQueue, Utilization, TypeOK, Held
<1>2. CASE ReadWorkers
  BY <1>2 DEF ReadWorkers, TypeOK, Held
<1>3. CASE RaiseTarget
  <2>1. WorkersToAdd \in Nat
    BY <1>3 DEF RaiseTarget, WorkersToAdd, Smaller, TypeOK, ScalerInv
  <2> QED BY <1>3, <2>1 DEF RaiseTarget, TypeOK, Held
<1>4. CASE SpawnWorker
  BY <1>4 DEF SpawnWorker, TypeOK, Held
<1>5. CASE EndSpawn
  BY <1>5 DEF EndSpawn, TypeOK, Held
<1>6. CASE LowerTarget
  BY <1>6 DEF LowerTarget, Smaller, TypeOK, Held
<1>7. CASE StopScaler
  BY <1>7 DEF StopScaler, TypeOK, Held
<1> QED BY <1>1, <1>2, <1>3, <1>4, <1>5, <1>6, <1>7 DEF ScalerStep

LEMMA NextType ==
    ASSUME TypeOK, ScalerInv, [Next]_vars
    PROVE  TypeOK'
<1>1. ASSUME NEW w \in Worker, WorkerStep(w) PROVE TypeOK'
  BY <1>1, WorkerStepType
<1>2. CASE ScalerStep
  BY <1>2, ScalerStepType
<1>3. CASE ClearTarget
  BY <1>3 DEF ClearTarget, TypeOK, Held, scalerVars
<1>4. CASE CloseChannel
  BY <1>4 DEF CloseChannel, TypeOK, Held, scalerVars
<1>5. CASE WaitReturns
  BY <1>5 DEF WaitReturns, TypeOK, Held, scalerVars
<1>6. ASSUME NEW j \in Jobs, Send(j) PROVE TypeOK'
  <2>1. Append(queue, j) \in Seq(Jobs)
    BY <1>6, AppendProperties DEF TypeOK
  <2> QED BY <1>6, <2>1 DEF Send, TypeOK, Held, scalerVars
<1>7. ASSUME NEW j \in Jobs, CountSubmit(j) PROVE TypeOK'
  BY <1>7 DEF CountSubmit, TypeOK, Held, scalerVars
<1>8. ASSUME NEW j \in Jobs, Reject(j) PROVE TypeOK'
  BY <1>8 DEF Reject, TypeOK, Held, scalerVars
<1>9. CASE UNCHANGED vars
  BY <1>9 DEF TypeOK, Held, vars, scalerVars
<1> QED BY <1>1, <1>2, <1>3, <1>4, <1>5, <1>6, <1>7, <1>8, <1>9
        DEF Next, Terminated

(***************************************************************************)
(* The bound on workers                                                    *)
(***************************************************************************)

(* Only the autoscaler's loop adds to the counter of workers, and it was   *)
(* given no more than the room the count it loaded left.                   *)
LEMMA NextScalerInv ==
    ASSUME TypeOK, ScalerInv, [Next]_vars
    PROVE  ScalerInv'
<1> USE SizeAssumption
<1>1. ASSUME NEW w \in Worker, WorkerStep(w) PROVE ScalerInv'
  BY <1>1 DEF WorkerStep, LoadCurrent, CheckTarget, Retire, ReceiveJob,
       CountDequeue, FinishJob, StopWorker, scalerVars, ScalerInv, TypeOK
<1>2. CASE SampleQueue
  BY <1>2 DEF SampleQueue, ScalerInv, TypeOK
<1>3. CASE ReadWorkers
  BY <1>3 DEF ReadWorkers, ScalerInv, TypeOK
<1>4. CASE RaiseTarget
  BY <1>4 DEF RaiseTarget, WorkersToAdd, Smaller, ScalerInv, TypeOK
<1>5. CASE SpawnWorker
  BY <1>5 DEF SpawnWorker, ScalerInv, TypeOK
<1>6. CASE EndSpawn
  BY <1>6 DEF EndSpawn, ScalerInv, TypeOK
<1>7. CASE LowerTarget
  BY <1>7 DEF LowerTarget, ScalerInv, TypeOK
<1>8. CASE StopScaler
  BY <1>8 DEF StopScaler, ScalerInv, TypeOK
<1>9. CASE ClearTarget \/ CloseChannel \/ WaitReturns
  BY <1>9 DEF ClearTarget, CloseChannel, WaitReturns, scalerVars, ScalerInv
<1>10. ASSUME NEW j \in Jobs, Send(j) \/ CountSubmit(j) \/ Reject(j)
       PROVE ScalerInv'
  BY <1>10 DEF Send, CountSubmit, Reject, scalerVars, ScalerInv
<1>11. CASE UNCHANGED vars
  BY <1>11 DEF vars, scalerVars, ScalerInv
<1> QED BY <1>1, <1>2, <1>3, <1>4, <1>5, <1>6, <1>7, <1>8, <1>9, <1>10,
           <1>11 DEF Next, ScalerStep, Terminated

(***************************************************************************)
(* Goroutines and the counters beside them                                 *)
(***************************************************************************)

LEMMA GoroutinesFinite ==
    /\ IsFiniteSet(Live) /\ IsFiniteSet(Counted) /\ IsFiniteSet(Dequeued)
    /\ Cardinality(Live) \in Nat /\ Cardinality(Counted) \in Nat
    /\ Cardinality(Dequeued) \in Nat
    /\ Cardinality(Live) <= Cardinality(Counted)
<1>1. Live \subseteq Counted /\ Counted \subseteq Worker
      /\ Dequeued \subseteq Worker
  BY DEF Live, Counted, Dequeued
<1> QED BY <1>1, WorkerAssumption, FS_Subset, FS_CardinalityType

(* A step that leaves every goroutine where it was, or moves it between    *)
(* two places of its loop, changes neither set.                            *)
LEMMA WorkerStepCounts ==
    ASSUME TypeOK, GoroutinesCounted, NEW w \in Worker, WorkerStep(w)
    PROVE  GoroutinesCounted'
<1> DEFINE Kept == LoadCurrent(w) \/ CheckTarget(w) \/ ReceiveJob(w)
                   \/ CountDequeue(w) \/ FinishJob(w)
<1>1. CASE Kept
  <2>1. Live' = Live /\ Counted' = Counted
    BY <1>1 DEF LoadCurrent, CheckTarget, ReceiveJob, CountDequeue, FinishJob,
         Live, Counted, TypeOK
  <2>2. wg' = wg /\ workers' = workers /\ spc' = spc
    BY <1>1 DEF LoadCurrent, CheckTarget, ReceiveJob, CountDequeue, FinishJob,
         scalerVars
  <2> QED BY <2>1, <2>2 DEF GoroutinesCounted
<1>2. CASE Retire(w)
  <2>1. w \in Live /\ w \in Counted
    BY <1>2 DEF Retire, Live, Counted
  <2>2. Live' = Live \ {w} /\ Counted' = Counted \ {w}
    BY <1>2 DEF Retire, Live, Counted, TypeOK
  <2>3. Cardinality(Live') = Cardinality(Live) - 1
        /\ Cardinality(Counted') = Cardinality(Counted) - 1
    BY <2>1, <2>2, GoroutinesFinite, FS_RemoveElement
  <2> QED BY <1>2, <2>3, GoroutinesFinite
          DEF Retire, GoroutinesCounted, scalerVars, TypeOK
<1>3. CASE StopWorker(w)
  <2>1. w \in Live
    BY <1>3 DEF StopWorker, Live
  <2>2. Live' = Live \ {w} /\ Counted' = Counted
    BY <1>3 DEF StopWorker, Live, Counted, TypeOK
  <2>3. Cardinality(Live') = Cardinality(Live) - 1
    BY <2>1, <2>2, GoroutinesFinite, FS_RemoveElement
  <2> QED BY <1>3, <2>2, <2>3, GoroutinesFinite
          DEF StopWorker, GoroutinesCounted, scalerVars, TypeOK
<1> QED BY <1>1, <1>2, <1>3 DEF WorkerStep

LEMMA NextCounts ==
    ASSUME TypeOK, GoroutinesCounted, [Next]_vars
    PROVE  GoroutinesCounted'
<1>1. ASSUME NEW w \in Worker, WorkerStep(w) PROVE GoroutinesCounted'
  BY <1>1, WorkerStepCounts
<1>2. CASE SpawnWorker
  <2>1. PICK w \in Worker : wpc[w] = "none"
                            /\ wpc' = [wpc EXCEPT ![w] = "head"]
    BY <1>2 DEF SpawnWorker
  <2>2. w \notin Live /\ w \notin Counted
    BY <2>1 DEF Live, Counted
  <2>3. Live' = Live \cup {w} /\ Counted' = Counted \cup {w}
    BY <2>1 DEF Live, Counted, TypeOK
  <2>4. Cardinality(Live') = Cardinality(Live) + 1
        /\ Cardinality(Counted') = Cardinality(Counted) + 1
    BY <2>2, <2>3, GoroutinesFinite, FS_AddElement
  <2> QED BY <1>2, <2>4, GoroutinesFinite
          DEF SpawnWorker, GoroutinesCounted, TypeOK
<1>3. CASE StopScaler
  BY <1>3, GoroutinesFinite
     DEF StopScaler, GoroutinesCounted, Counted, Live, TypeOK
<1>4. CASE SampleQueue \/ ReadWorkers \/ RaiseTarget \/ EndSpawn
           \/ LowerTarget
  BY <1>4 DEF SampleQueue, ReadWorkers, RaiseTarget, EndSpawn, LowerTarget,
       GoroutinesCounted, Counted, Live
<1>5. CASE ClearTarget \/ CloseChannel \/ WaitReturns
  BY <1>5 DEF ClearTarget, CloseChannel, WaitReturns, scalerVars,
       GoroutinesCounted, Counted, Live
<1>6. ASSUME NEW j \in Jobs, Send(j) \/ CountSubmit(j) \/ Reject(j)
      PROVE GoroutinesCounted'
  BY <1>6
  DEF Send, CountSubmit, Reject, scalerVars, GoroutinesCounted, Counted, Live
<1>7. CASE UNCHANGED vars
  BY <1>7 DEF vars, scalerVars, GoroutinesCounted, Counted, Live
<1> QED BY <1>1, <1>2, <1>3, <1>4, <1>5, <1>6, <1>7
        DEF Next, ScalerStep, Terminated

(***************************************************************************)
(* The depth counter                                                       *)
(***************************************************************************)

(* Callers between their send and their count: finitely many at any time,  *)
(* however many jobs there are.                                            *)
DepthInv == IsFiniteSet(Sent) /\ QueueDepthAccurate

LEMMA NextDepth ==
    ASSUME TypeOK, DepthInv, [Next]_vars
    PROVE  DepthInv'
<1> USE FS_CardinalityType, GoroutinesFinite
<1>1. ASSUME NEW w \in Worker, ReceiveJob(w) PROVE DepthInv'
  <2>1. Dequeued' = Dequeued \cup {w} /\ w \notin Dequeued /\ Sent' = Sent
    BY <1>1 DEF ReceiveJob, Dequeued, Sent, TypeOK
  <2>2. Cardinality(Dequeued') = Cardinality(Dequeued) + 1
    BY <2>1, FS_AddElement
  <2>3. Len(queue') = Len(queue) - 1 /\ queueDepth' = queueDepth
    BY <1>1, HeadTailProperties DEF ReceiveJob, TypeOK
  <2>4. Len(queue) \in Nat
    BY LenProperties DEF TypeOK
  <2> QED BY <2>1, <2>2, <2>3, <2>4 DEF DepthInv, QueueDepthAccurate, TypeOK
<1>2. ASSUME NEW w \in Worker, CountDequeue(w) PROVE DepthInv'
  <2>1. Dequeued' = Dequeued \ {w} /\ w \in Dequeued /\ Sent' = Sent
    BY <1>2 DEF CountDequeue, Dequeued, Sent, TypeOK
  <2>2. Cardinality(Dequeued') = Cardinality(Dequeued) - 1
    BY <2>1, FS_RemoveElement
  <2>3. queue' = queue /\ queueDepth' = queueDepth - 1
    BY <1>2 DEF CountDequeue
  <2>4. Len(queue) \in Nat
    BY LenProperties DEF TypeOK
  <2> QED BY <2>1, <2>2, <2>3, <2>4 DEF DepthInv, QueueDepthAccurate, TypeOK
<1>3. ASSUME NEW w \in Worker,
             LoadCurrent(w) \/ CheckTarget(w) \/ Retire(w) \/ FinishJob(w)
             \/ StopWorker(w)
      PROVE  DepthInv'
  <2>1. Dequeued' = Dequeued /\ Sent' = Sent
    BY <1>3 DEF LoadCurrent, CheckTarget, Retire, FinishJob, StopWorker,
         Dequeued, Sent, TypeOK
  <2>2. queue' = queue /\ queueDepth' = queueDepth
    BY <1>3 DEF LoadCurrent, CheckTarget, Retire, FinishJob, StopWorker
  <2> QED BY <2>1, <2>2 DEF DepthInv, QueueDepthAccurate
<1>4. CASE ScalerStep
  <2>1. CASE SpawnWorker
    <3>1. Dequeued' = Dequeued /\ Sent' = Sent
      BY <2>1 DEF SpawnWorker, Dequeued, Sent, TypeOK
    <3> QED BY <2>1, <3>1 DEF SpawnWorker, DepthInv, QueueDepthAccurate
  <2>2. CASE SampleQueue \/ ReadWorkers \/ RaiseTarget \/ EndSpawn
             \/ LowerTarget \/ StopScaler
    BY <2>2 DEF SampleQueue, ReadWorkers, RaiseTarget, EndSpawn, LowerTarget,
         StopScaler, DepthInv, QueueDepthAccurate, Dequeued, Sent
  <2> QED BY <1>4, <2>1, <2>2 DEF ScalerStep
<1>5. CASE ClearTarget \/ CloseChannel \/ WaitReturns
  BY <1>5 DEF ClearTarget, CloseChannel, WaitReturns, scalerVars,
       DepthInv, QueueDepthAccurate, Dequeued, Sent
<1>6. ASSUME NEW j \in Jobs, Send(j) PROVE DepthInv'
  <2>1. Sent' = Sent \cup {j} /\ j \notin Sent /\ Dequeued' = Dequeued
    BY <1>6 DEF Send, Dequeued, Sent, TypeOK
  <2>2. IsFiniteSet(Sent') /\ Cardinality(Sent') = Cardinality(Sent) + 1
    BY <2>1, FS_AddElement DEF DepthInv
  <2>3. Len(queue') = Len(queue) + 1 /\ queueDepth' = queueDepth
    BY <1>6, AppendProperties DEF Send, TypeOK
  <2>4. Len(queue) \in Nat /\ Cardinality(Sent) \in Nat
    BY LenProperties DEF TypeOK, DepthInv
  <2> QED BY <2>1, <2>2, <2>3, <2>4 DEF DepthInv, QueueDepthAccurate, TypeOK
<1>7. ASSUME NEW j \in Jobs, CountSubmit(j) PROVE DepthInv'
  <2>1. Sent' = Sent \ {j} /\ j \in Sent /\ Dequeued' = Dequeued
    BY <1>7 DEF CountSubmit, Dequeued, Sent, TypeOK
  <2>2. IsFiniteSet(Sent') /\ Cardinality(Sent') = Cardinality(Sent) - 1
    BY <2>1, FS_RemoveElement DEF DepthInv
  <2>3. queue' = queue /\ queueDepth' = queueDepth + 1
    BY <1>7 DEF CountSubmit
  <2>4. Len(queue) \in Nat /\ Cardinality(Sent) \in Nat
    BY LenProperties DEF TypeOK, DepthInv
  <2> QED BY <2>1, <2>2, <2>3, <2>4 DEF DepthInv, QueueDepthAccurate, TypeOK
<1>8. ASSUME NEW j \in Jobs, Reject(j) PROVE DepthInv'
  <2>1. Sent' = Sent /\ Dequeued' = Dequeued
    BY <1>8 DEF Reject, Dequeued, Sent, TypeOK
  <2> QED BY <1>8, <2>1 DEF Reject, DepthInv, QueueDepthAccurate
<1>9. CASE UNCHANGED vars
  BY <1>9 DEF vars, DepthInv, QueueDepthAccurate, Dequeued, Sent
<1> QED BY <1>1, <1>2, <1>3, <1>4, <1>5, <1>6, <1>7, <1>8, <1>9
        DEF Next, WorkerStep, Terminated

(***************************************************************************)
(* Shutdown                                                                *)
(***************************************************************************)

(* wg.Wait returns at zero, and the goroutines it waited for are all there *)
(* is: only a goroutine of the pool starts another.                        *)
LEMMA NextShutdown ==
    ASSUME TypeOK, GoroutinesCounted, ShutdownWaitsForAll, [Next]_vars
    PROVE  ShutdownWaitsForAll'
<1>1. ASSUME NEW w \in Worker, WorkerStep(w) PROVE ShutdownWaitsForAll'
  <2>1. w \in Live /\ cpc' = cpc
    BY <1>1 DEF WorkerStep, LoadCurrent, CheckTarget, Retire, ReceiveJob,
         CountDequeue, FinishJob, StopWorker, Live
  <2> QED BY <2>1 DEF ShutdownWaitsForAll
<1>2. CASE ScalerStep
  <2>1. spc # "stopped" /\ cpc' = cpc
    BY <1>2 DEF ScalerStep, SampleQueue, ReadWorkers, RaiseTarget,
         SpawnWorker, EndSpawn, LowerTarget, StopScaler
  <2> QED BY <2>1 DEF ShutdownWaitsForAll
<1>3. CASE ClearTarget \/ CloseChannel
  BY <1>3 DEF ClearTarget, CloseChannel, ShutdownWaitsForAll
<1>4. CASE WaitReturns
  <2>1. Cardinality(Live) = 0 /\ spc = "stopped"
    BY <1>4, GoroutinesFinite DEF WaitReturns, GoroutinesCounted
  <2>2. Live = {}
    BY <2>1, GoroutinesFinite, FS_EmptySet
  <2> QED BY <1>4, <2>1, <2>2
          DEF WaitReturns, scalerVars, ShutdownWaitsForAll, Live
<1>5. ASSUME NEW j \in Jobs, Send(j) \/ CountSubmit(j) \/ Reject(j)
      PROVE ShutdownWaitsForAll'
  BY <1>5 DEF Send, CountSubmit, Reject, scalerVars, ShutdownWaitsForAll, Live
<1>6. CASE UNCHANGED vars
  BY <1>6 DEF vars, scalerVars, ShutdownWaitsForAll, Live
<1> QED BY <1>1, <1>2, <1>3, <1>4, <1>5, <1>6 DEF Next, Terminated

(***************************************************************************)
(* The inductive invariant and the theorems                                *)
(***************************************************************************)

IInv == /\ TypeOK
        /\ ScalerInv
        /\ GoroutinesCounted
        /\ DepthInv
        /\ ShutdownWaitsForAll

LEMMA InitIInv == Init => IInv
<1> SUFFICES ASSUME Init PROVE IInv
  OBVIOUS
<1> USE SizeAssumption DEF Init
<1>1. TypeOK
  <2>1. wpc \in [Worker -> {"none", "head", "check", "retire", "select",
                          "dequeued", "process", "stopped"}]
    OBVIOUS
  <2>2. \A w \in Worker : w \notin Held /\ job[w] = NoJob
    BY DEF Held
  <2>3. queue \in Seq(Jobs)
    BY EmptySeq
  <2>4. submit \in [Jobs -> {"new", "sent", "accepted", "rejected"}]
        /\ seen \in [Worker -> Int] /\ job \in [Worker -> Jobs \cup {NoJob}]
    OBVIOUS
  <2>5. /\ queueDepth \in Int /\ workers \in Int /\ wg \in Int
        /\ targetWorkers \in Int /\ cur \in Int /\ left \in Nat
    BY DEF InitialCount
  <2>6. /\ shutdownChan \in BOOLEAN /\ spc = "idle" /\ util = "ok"
        /\ cpc = "open" /\ finished \subseteq Jobs
    OBVIOUS
  <2> HIDE DEF Init
  <2> QED BY <2>1, <2>2, <2>3, <2>4, <2>5, <2>6 DEF TypeOK
<1>2. ScalerInv
  BY DEF ScalerInv
<1>3. GoroutinesCounted
  <2>1. PICK W \in SUBSET Worker :
            /\ Cardinality(W) = InitialWorkers
            /\ wpc = [w \in Worker |-> IF w \in W THEN "head" ELSE "none"]
    OBVIOUS
  <2>2. Live = W /\ Counted = W
    BY <2>1 DEF Live, Counted
  <2> QED BY <2>1, <2>2 DEF GoroutinesCounted, InitialCount
<1>4. DepthInv
  <2>1. Sent = {} /\ Dequeued = {}
    BY DEF Sent, Dequeued
  <2> QED BY <2>1, FS_EmptySet DEF DepthInv, QueueDepthAccurate
<1>5. ShutdownWaitsForAll
  BY DEF ShutdownWaitsForAll
<1> QED BY <1>1, <1>2, <1>3, <1>4, <1>5 DEF IInv

LEMMA NextIInv == IInv /\ [Next]_vars => IInv'
  BY NextType, NextScalerInv, NextCounts, NextDepth, NextShutdown DEF IInv

LEMMA IInvMax == IInv => WorkersWithinMax
<1> SUFFICES ASSUME IInv PROVE WorkersWithinMax
  OBVIOUS
<1>1. Cardinality(Live) <= workers
  BY GoroutinesFinite DEF IInv, GoroutinesCounted
<1> QED BY <1>1, GoroutinesFinite, SizeAssumption
        DEF IInv, ScalerInv, TypeOK, WorkersWithinMax

(* The inductive invariant holds in every reachable state. *)
THEOREM Invariance == Spec => []IInv
  BY InitIInv, NextIInv, PTL DEF Spec

(* A goroutine holds a job exactly while it works on one, and the counters *)
(* stay integers, however the pool's goroutines interleave.                *)
THEOREM TypeCorrect == Spec => []TypeOK
<1>1. IInv => TypeOK
  BY DEF IInv
<1> QED BY <1>1, Invariance, PTL

(* The autoscaler, acting on a stale count, never takes the pool over      *)
(* MaxWorkers goroutines.                                                  *)
THEOREM BoundedWorkers == Spec => []WorkersWithinMax
  BY IInvMax, Invariance, PTL

(* The depth GetMetrics reports never drifts from the channel's length.    *)
THEOREM AccurateDepth == Spec => []QueueDepthAccurate
<1>1. IInv => QueueDepthAccurate
  BY DEF IInv, DepthInv
<1> QED BY <1>1, Invariance, PTL

(* The WaitGroup counts the goroutines that run; the counter of workers    *)
(* counts those that have not retired.                                     *)
THEOREM AccurateCounts == Spec => []GoroutinesCounted
<1>1. IInv => GoroutinesCounted
  BY DEF IInv
<1> QED BY <1>1, Invariance, PTL

(* Shutdown leaves no goroutine of the pool behind.                        *)
THEOREM NothingLeftBehind == Spec => []ShutdownWaitsForAll
<1>1. IInv => ShutdownWaitsForAll
  BY DEF IInv
<1> QED BY <1>1, Invariance, PTL

(* The autoscaler's wg.Add finds the counter above zero, so it never races *)
(* with the Wait of Shutdown.                                              *)
THEOREM SafeAdds == Spec => AddsWhileCounted
<1>1. IInv /\ [Next]_vars => [wg' > wg => wg > 0]_vars
  <2> SUFFICES ASSUME IInv, Next, wg' > wg PROVE wg > 0
    BY DEF vars
  <2>1. wg \in Int
    BY DEF IInv, TypeOK
  <2>2. SpawnWorker
    BY <2>1 DEF Next, WorkerStep, LoadCurrent, CheckTarget, Retire,
         ReceiveJob, CountDequeue, FinishJob, StopWorker, ScalerStep,
         SampleQueue, ReadWorkers, RaiseTarget, EndSpawn, LowerTarget,
         StopScaler, ClearTarget, CloseChannel, WaitReturns, Send,
         CountSubmit, Reject, Terminated, vars
  <2> QED BY <2>2, GoroutinesFinite
          DEF SpawnWorker, IInv, GoroutinesCounted
<1> QED BY <1>1, Invariance, PTL DEF Spec, AddsWhileCounted

(***************************************************************************)
(* The promise of WorkerPool                                               *)
(***************************************************************************)

InQueue == {queue[i] : i \in 1..Len(queue)}
InHands == {job[w] : w \in Held}

(* A job is in one place: never twice in the channel, never in the hands   *)
(* of two workers, never in both, and in none before it was sent.          *)
JobInv ==
    /\ \A i, n \in 1..Len(queue) : queue[i] = queue[n] => i = n
    /\ InQueue \cap InHands = {}
    /\ \A v, w \in Held : job[v] = job[w] => v = w
    /\ \A j \in Jobs : submit[j] \in {"new", "rejected"} =>
                           j \notin InQueue \cup InHands \cup finished

(* What a step sees of the jobs that it leaves where they are. *)
LEMMA JobInvKept ==
    ASSUME JobInv, UNCHANGED <<queue, job, submit, finished>>, Held' = Held
    PROVE  JobInv'
  BY DEF JobInv, InQueue, InHands

LEMMA ReceiveJobInv ==
    ASSUME TypeOK, JobInv, NEW w \in Worker, ReceiveJob(w)
    PROVE  /\ JobInv'
           /\ InHands' = InHands \cup {Head(queue)}
<1> USE DEF ReceiveJob
<1>1. /\ Len(queue) \in Nat \ {0} /\ Head(queue) = queue[1]
      /\ Len(queue') = Len(queue) - 1
      /\ \A i \in 1..Len(queue') : queue'[i] = queue[i + 1]
  BY HeadTailProperties, LenProperties, EmptySeq DEF TypeOK
<1>2. w \notin Held /\ Held' = Held \cup {w}
  BY DEF Held, TypeOK
<1>3. job'[w] = queue[1] /\ \A v \in Held : job'[v] = job[v]
  BY <1>1, <1>2 DEF TypeOK, Held
<1>4. InHands' = InHands \cup {queue[1]}
  BY <1>2, <1>3 DEF InHands
<1>5. queue[1] \in InQueue /\ queue[1] \notin InHands
  BY <1>1 DEF InQueue, JobInv
<1>6. InQueue' \subseteq InQueue /\ queue[1] \notin InQueue'
  BY <1>1 DEF InQueue, JobInv
<1>7. \A i, n \in 1..Len(queue') : queue'[i] = queue'[n] => i = n
  BY <1>1 DEF JobInv
<1>8. \A v, x \in Held' : job'[v] = job'[x] => v = x
  BY <1>2, <1>3, <1>5 DEF JobInv, InHands
<1>9. \A j \in Jobs : submit[j] \in {"new", "rejected"} =>
                         j \notin InQueue' \cup InHands' \cup finished
  BY <1>4, <1>5, <1>6 DEF JobInv
<1>10. InQueue' \cap InHands' = {}
  BY <1>4, <1>6 DEF JobInv
<1> QED BY <1>1, <1>4, <1>7, <1>8, <1>9, <1>10 DEF JobInv

LEMMA FinishJobInv ==
    ASSUME TypeOK, JobInv, NEW w \in Worker, FinishJob(w)
    PROVE  /\ JobInv'
           /\ job[w] \in InHands /\ InHands' = InHands \ {job[w]}
<1> USE DEF FinishJob
<1>1. w \in Held /\ Held' = Held \ {w}
  BY DEF Held, TypeOK
<1>2. \A v \in Held \ {w} : job'[v] = job[v]
  BY DEF TypeOK, Held
<1>3. job[w] \in InHands /\ InHands' = InHands \ {job[w]}
  BY <1>1, <1>2 DEF InHands, JobInv
<1>4. InQueue' = InQueue
  BY DEF InQueue
<1>5. \A v, x \in Held' : job'[v] = job'[x] => v = x
  BY <1>1, <1>2 DEF JobInv
<1>6. \A j \in Jobs : submit[j] \in {"new", "rejected"} =>
                         j \notin InQueue' \cup InHands' \cup finished'
  BY <1>3, <1>4 DEF JobInv
<1>7. InQueue' \cap InHands' = {}
  BY <1>3, <1>4 DEF JobInv
<1> QED BY <1>3, <1>5, <1>6, <1>7 DEF JobInv

LEMMA SendInv ==
    ASSUME TypeOK, JobInv, NEW j \in Jobs, Send(j)
    PROVE  /\ JobInv'
           /\ j \notin InQueue \cup InHands \cup finished
           /\ InHands' = InHands
<1> USE DEF Send
<1>1. j \notin InQueue \cup InHands \cup finished
  BY DEF JobInv
<1>2. Held' = Held /\ InHands' = InHands
  BY DEF Held, InHands
<1>3. /\ Len(queue) \in Nat /\ Len(queue') = Len(queue) + 1
      /\ queue'[Len(queue) + 1] = j
      /\ \A i \in 1..Len(queue) : queue'[i] = queue[i]
  BY AppendProperties, LenProperties DEF TypeOK
<1>4. InQueue' = InQueue \cup {j}
  BY <1>3 DEF InQueue
<1>5. \A i, n \in 1..Len(queue') : queue'[i] = queue'[n] => i = n
  BY <1>1, <1>3 DEF JobInv, InQueue
<1>6. \A i \in Jobs : submit'[i] \in {"new", "rejected"} =>
                         i \notin InQueue' \cup InHands' \cup finished
  <2> SUFFICES ASSUME NEW i \in Jobs, submit'[i] \in {"new", "rejected"}
               PROVE  i \notin InQueue' \cup InHands' \cup finished
    OBVIOUS
  <2>1. i # j /\ submit[i] = submit'[i]
    BY DEF TypeOK
  <2> QED BY <2>1, <1>2, <1>4 DEF JobInv
<1>7. InQueue' \cap InHands' = {}
  BY <1>1, <1>2, <1>4 DEF JobInv
<1>8. \A v, x \in Held' : job'[v] = job'[x] => v = x
  BY <1>2 DEF JobInv
<1> QED BY <1>1, <1>2, <1>5, <1>6, <1>7, <1>8 DEF JobInv

(* The steps the abstract pool does not see. *)
Unseen == /\ UNCHANGED <<queue, job, finished>> /\ Held' = Held
          /\ (cpc = "done") <=> (cpc' = "done")

LEMMA UnseenSteps ==
    ASSUME TypeOK, Next
    PROVE  \/ \E w \in Worker : ReceiveJob(w) \/ FinishJob(w)
           \/ \E j \in Jobs : Send(j)
           \/ WaitReturns
           \/ /\ Unseen
              /\ \/ UNCHANGED submit
                 \/ \E j \in Jobs : CountSubmit(j) \/ Reject(j)
<1> USE DEF Unseen, Held, TypeOK
<1>1. ASSUME NEW w \in Worker, LoadCurrent(w) \/ CheckTarget(w)
             \/ Retire(w) \/ CountDequeue(w) \/ StopWorker(w)
      PROVE  Unseen /\ UNCHANGED submit
  BY <1>1 DEF LoadCurrent, CheckTarget, Retire, CountDequeue, StopWorker
<1>2. CASE SpawnWorker
  BY <1>2 DEF SpawnWorker
<1>3. CASE SampleQueue \/ ReadWorkers \/ RaiseTarget \/ EndSpawn
           \/ LowerTarget \/ StopScaler
  BY <1>3 DEF SampleQueue, ReadWorkers, RaiseTarget, EndSpawn, LowerTarget,
       StopScaler
<1>4. CASE ClearTarget \/ CloseChannel
  BY <1>4 DEF ClearTarget, CloseChannel
<1>5. ASSUME NEW j \in Jobs, CountSubmit(j) \/ Reject(j)
      PROVE  Unseen
  BY <1>5 DEF CountSubmit, Reject
<1>6. CASE UNCHANGED vars
  BY <1>6 DEF vars
<1> HIDE DEF Unseen, Held, TypeOK
<1> QED BY <1>1, <1>2, <1>3, <1>4, <1>5, <1>6
        DEF Next, WorkerStep, ScalerStep, Terminated

LEMMA NextJobInv ==
    ASSUME TypeOK, JobInv, [Next]_vars
    PROVE  JobInv'
<1>1. ASSUME NEW w \in Worker, ReceiveJob(w) \/ FinishJob(w) PROVE JobInv'
  BY <1>1, ReceiveJobInv, FinishJobInv
<1>2. ASSUME NEW j \in Jobs, Send(j) PROVE JobInv'
  BY <1>2, SendInv
<1>3. CASE WaitReturns
  BY <1>3, JobInvKept DEF WaitReturns, Held
<1>4. CASE Unseen /\ UNCHANGED submit
  BY <1>4, JobInvKept DEF Unseen
<1>5. ASSUME NEW j \in Jobs, Unseen, CountSubmit(j) \/ Reject(j)
      PROVE  JobInv'
  <2>1. InQueue' = InQueue /\ InHands' = InHands
    BY <1>5 DEF Unseen, InQueue, InHands
  <2>2. \A i \in Jobs : submit'[i] \in {"new", "rejected"} =>
                           submit[i] \in {"new", "rejected"}
    BY <1>5 DEF CountSubmit, Reject, TypeOK
  <2> QED BY <1>5, <2>1, <2>2 DEF Unseen, JobInv
<1>6. CASE UNCHANGED vars
  BY <1>6, JobInvKept DEF vars, Held
<1> QED BY <1>1, <1>2, <1>3, <1>4, <1>5, <1>6, UnseenSteps

(* Each step of the pool is a step of the promise, or one it does not see. *)
LEMMA StepKeepsPromise ==
    ASSUME IInv, JobInv, [Next]_vars
    PROVE  [Pool!Next]_(Pool!vars)
<1> USE DEF IInv
<1>1. ASSUME NEW w \in Worker, ReceiveJob(w) PROVE Pool!Start
  <2>1. cpc # "done"
    BY <1>1 DEF ReceiveJob, ShutdownWaitsForAll, Live
  <2>2. InHands' = InHands \cup {Head(queue)}
    BY <1>1, ReceiveJobInv
  <2> QED BY <1>1, <2>1, <2>2 DEF Pool!Start, ReceiveJob, InHands
<1>2. ASSUME NEW w \in Worker, FinishJob(w)
      PROVE  \E j \in Jobs : Pool!Finish(j)
  <2>1. PICK j \in Jobs : j = job[w]
    BY <1>2, JobsAssumption DEF FinishJob, TypeOK, Held
  <2> QED BY <1>2, <2>1, FinishJobInv DEF Pool!Finish, FinishJob, InHands
<1>3. ASSUME NEW j \in Jobs, Send(j) PROVE Pool!Accept(j)
  BY <1>3, SendInv DEF Pool!Accept, Pool!Known, Send, InHands, InQueue
<1>4. ASSUME WaitReturns PROVE Pool!Close
  <2>1. ShutdownWaitsForAll'
    BY <1>4, NextShutdown DEF Next
  <2>2. Held = {} /\ Held' = {}
    BY <1>4, <2>1 DEF WaitReturns, ShutdownWaitsForAll, Live, Held
  <2>3. InHands = {} /\ InHands' = {}
    BY <2>2 DEF InHands
  <2>4. cpc' = "done" /\ UNCHANGED <<queue, finished>>
    BY <1>4 DEF WaitReturns
  <2> QED BY <2>3, <2>4 DEF Pool!Close, InHands
<1>5. ASSUME Unseen PROVE UNCHANGED Pool!vars
  BY <1>5 DEF Unseen, Pool!vars
<1>6. ASSUME UNCHANGED vars PROVE UNCHANGED Pool!vars
  BY <1>6 DEF vars, Pool!vars, Held
<1>7. ASSUME Next PROVE Pool!Next \/ UNCHANGED Pool!vars
  <2>1. CASE \E w \in Worker : ReceiveJob(w)
    BY <2>1, <1>1 DEF Pool!Next
  <2>2. CASE \E w \in Worker : FinishJob(w)
    BY <2>2, <1>2 DEF Pool!Next
  <2>3. CASE \E j \in Jobs : Send(j)
    BY <2>3, <1>3 DEF Pool!Next
  <2>4. CASE WaitReturns
    BY <2>4, <1>4 DEF Pool!Next
  <2>5. CASE Unseen
    BY <2>5, <1>5
  <2> QED BY <2>1, <2>2, <2>3, <2>4, <2>5, <1>7, UnseenSteps
<1> QED BY <1>6, <1>7

(* BotWorkerPool implements WorkerPool: whatever workers, autoscaler,      *)
(* callers and Shutdown do, jobs are started first in, first out, each at  *)
(* most once, and none once Shutdown has returned.                         *)
THEOREM KeepsPromise == Spec => PoolSpec
<1>1. Init => JobInv /\ Pool!Init
  <2> SUFFICES ASSUME Init PROVE JobInv /\ Pool!Init
    OBVIOUS
  <2>1. Held = {} /\ queue = <<>> /\ finished = {} /\ cpc = "open"
    BY DEF Init, Held
  <2>2. InQueue = {} /\ InHands = {}
    BY <2>1 DEF InQueue, InHands
  <2> QED BY <2>1, <2>2 DEF JobInv, Pool!Init
<1>2. IInv /\ JobInv /\ [Next]_vars => JobInv'
  BY NextJobInv DEF IInv
<1>3. IInv /\ JobInv /\ [Next]_vars => [Pool!Next]_(Pool!vars)
  BY StepKeepsPromise
<1> QED BY <1>1, <1>2, <1>3, Invariance, PTL DEF Spec, PoolSpec, Pool!Spec
=============================================================================
