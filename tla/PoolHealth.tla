----------------------------- MODULE PoolHealth -----------------------------
(***************************************************************************)
(* The health a BotWorkerPool reports: the counters and the flag that      *)
(* processJob (internal/handler/bot_worker_pool.go) updates after each     *)
(* job. The workers of a pool record their results side by side, each in   *)
(* several atomic steps. GetHealthScore, GetMetrics and Stats only load    *)
(* the counters, for a log line.                                           *)
(***************************************************************************)
EXTENDS Naturals, FiniteSets

CONSTANTS
    Worker,       \* the workers of the pool
    Threshold,    \* 10, a literal in processJob
    MaxResults    \* bound on the results recorded, for model checking only

ASSUME HealthAssumption == Threshold \in Nat /\ MaxResults \in Nat

VARIABLES
    successCount, failureCount,  \* the atomic counters of BotMetrics
    healthy,                     \* the atomic flag
    pc,                          \* pc[w]: which step of the recording is next
    failCount,                   \* failCount[w]: the local of that name
    solo,                        \* history: did the last recording to begin
                                 \* begin while no other was going on?
    disturbed                    \* history: have two recordings overlapped
                                 \* since a success was last recorded alone?

vars == <<successCount, failureCount, healthy, pc, failCount, solo, disturbed>>

Recording == {w \in Worker : pc[w] # "idle"}

Init == /\ successCount = 0 /\ failureCount = 0
        /\ healthy = TRUE
        /\ pc = [w \in Worker |-> "idle"]
        /\ failCount = [w \in Worker |-> 0]
        /\ solo = TRUE /\ disturbed = FALSE

Results == successCount + failureCount + Cardinality(Recording)

(* The result of the job of w arrives: it failed or it did not. *)
Begin(w, step) ==
    /\ pc[w] = "idle"
    /\ Results < MaxResults
    /\ pc' = [pc EXCEPT ![w] = step]
    /\ solo' = (Recording = {})
    /\ disturbed' = (disturbed \/ Recording # {})
    /\ UNCHANGED <<successCount, failureCount, healthy, failCount>>

(* failCount := p.metrics.failureCount.Add(1) *)
AddFailure(w) ==
    /\ pc[w] = "failed"
    /\ failureCount' = failureCount + 1
    /\ failCount' = [failCount EXCEPT ![w] = failureCount + 1]
    /\ pc' = [pc EXCEPT ![w] = "judge"]
    /\ UNCHANGED <<successCount, healthy, solo, disturbed>>

(* if failCount > 10 { p.healthy.Store(false) } *)
MarkUnhealthy(w) ==
    /\ pc[w] = "judge"
    /\ healthy' = (healthy /\ failCount[w] <= Threshold)
    /\ pc' = [pc EXCEPT ![w] = "idle"]
    /\ failCount' = [failCount EXCEPT ![w] = 0]
    /\ UNCHANGED <<successCount, failureCount, solo, disturbed>>

(* p.metrics.successCount.Add(1) *)
AddSuccess(w) ==
    /\ pc[w] = "succeeded"
    /\ successCount' = successCount + 1
    /\ pc' = [pc EXCEPT ![w] = "reset"]
    /\ UNCHANGED <<failureCount, healthy, failCount, solo, disturbed>>

(* p.metrics.failureCount.Store(0) *)
ResetFailures(w) ==
    /\ pc[w] = "reset"
    /\ failureCount' = 0
    /\ pc' = [pc EXCEPT ![w] = "mark"]
    /\ UNCHANGED <<successCount, healthy, failCount, solo, disturbed>>

(* Mutant of MarkHealthy: the success resets the count and not the flag. *)
ForgetHealthy(w) ==
    /\ pc[w] = "mark"
    /\ pc' = [pc EXCEPT ![w] = "idle"]
    /\ disturbed' = (disturbed /\ ~solo)
    /\ UNCHANGED <<successCount, failureCount, healthy, failCount, solo>>

(* p.healthy.Store(true) *)
MarkHealthy(w) ==
    /\ pc[w] = "mark"
    /\ healthy' = TRUE
    /\ pc' = [pc EXCEPT ![w] = "idle"]
    /\ disturbed' = (disturbed /\ ~solo)
    /\ UNCHANGED <<successCount, failureCount, failCount, solo>>

-----------------------------------------------------------------------------
Next == \E w \in Worker :
            \/ Begin(w, "failed") \/ Begin(w, "succeeded")
            \/ AddFailure(w) \/ MarkUnhealthy(w)
            \/ AddSuccess(w) \/ ResetFailures(w) \/ MarkHealthy(w)

Spec == Init /\ [][Next]_vars

-----------------------------------------------------------------------------
Agreement == healthy <=> failureCount <= Threshold

(* Counters are naturals, and no recording is left with a stale local. *)
TypeOK ==
    /\ successCount \in Nat /\ failureCount \in Nat
    /\ healthy \in BOOLEAN /\ solo \in BOOLEAN /\ disturbed \in BOOLEAN
    /\ pc \in [Worker -> {"idle", "failed", "judge",
                          "succeeded", "reset", "mark"}]
    /\ failCount \in [Worker -> Nat]
    /\ \A w \in Worker : failCount[w] > 0 <=> pc[w] = "judge"

(* The flag and the count of consecutive failures agree whenever nothing   *)
(* is being recorded, unless two recordings overlapped: then the flag may  *)
(* be wrong, but only until a success is recorded on its own.              *)
WrongOnlyAfterOverlap == Recording = {} /\ ~disturbed => Agreement
=============================================================================
