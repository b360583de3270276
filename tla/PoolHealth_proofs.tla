------------------------- MODULE PoolHealth_proofs -------------------------
(***************************************************************************)
(* Theorems about PoolHealth: types, and the flag that is right unless two *)
(* recordings overlapped. They hold for any workers and any values of      *)
(* Threshold and MaxResults.                                               *)
(***************************************************************************)
EXTENDS PoolHealth, TLAPS

(* What the histories mean: while solo holds there is one recording at     *)
(* most, and a time without overlaps is one in which solo holds.           *)
OneAtATime == /\ ~disturbed => solo
              /\ solo => \A v, w \in Recording : v = w

(* A success recorded alone finds the count still zero when it comes to    *)
(* the flag.                                                               *)
ResetLasts == solo => \A w \in Worker : pc[w] = "mark" => failureCount = 0

(* Without overlaps the flag lags the count by the one failure that is     *)
(* being judged.                                                           *)
FlagFollows ==
    ~disturbed =>
        /\ Recording = {} => Agreement
        /\ \A w \in Worker :
            /\ pc[w] = "failed" => Agreement
            /\ pc[w] = "judge" =>
                  /\ failCount[w] = failureCount
                  /\ healthy <=> failureCount <= Threshold + 1

HealthInv == TypeOK /\ OneAtATime /\ ResetLasts /\ FlagFollows

-----------------------------------------------------------------------------
LEMMA InitHealth == Init => HealthInv
  <1> SUFFICES ASSUME Init
               PROVE  HealthInv
    OBVIOUS
  <1>1. TypeOK
    <2>1. \A w \in Worker : failCount[w] = 0 /\ pc[w] = "idle"
      BY DEF Init
    <2>2. /\ pc \in [Worker -> {"idle", "failed", "judge",
                                "succeeded", "reset", "mark"}]
          /\ failCount \in [Worker -> Nat]
      BY DEF Init
    <2>3. \A w \in Worker : failCount[w] > 0 <=> pc[w] = "judge"
      BY <2>1
    <2> QED
      BY <2>2, <2>3 DEF Init, TypeOK
  <1>2. Recording = {} /\ \A w \in Worker : pc[w] = "idle"
    BY DEF Init, Recording
  <1>3. Agreement
    BY HealthAssumption DEF Init, Agreement
  <1> QED
    BY <1>1, <1>2, <1>3 DEF Init, HealthInv, OneAtATime, ResetLasts,
       FlagFollows

-----------------------------------------------------------------------------
(* The steps of a recording. *)

LEMMA BeginInv ==
  ASSUME HealthInv, NEW w \in Worker,
         NEW step \in {"failed", "succeeded"}, Begin(w, step)
  PROVE  HealthInv'
  <1> USE DEF HealthInv, TypeOK, Begin
  <1>1. Recording' = Recording \cup {w}
    BY DEF Recording
  <1>2. TypeOK'
    OBVIOUS
  <1>3. OneAtATime'
    BY <1>1 DEF OneAtATime
  <1>4. ResetLasts'
    <2>1. solo' => \A v \in Worker : pc[v] = "idle"
      BY DEF Recording
    <2> QED
      BY <2>1 DEF ResetLasts
  <1>5. FlagFollows'
    <2>1. ~disturbed' => ~disturbed /\ Recording = {}
      OBVIOUS
    <2>2. ~disturbed' => Agreement'
      BY <2>1 DEF FlagFollows, Agreement
    <2>3. ~disturbed' => \A v \in Worker : pc'[v] # "judge"
      BY <2>1 DEF Recording
    <2> QED
      BY <2>2, <2>3 DEF FlagFollows
  <1> QED
    BY <1>2, <1>3, <1>4, <1>5

LEMMA AddFailureInv ==
  ASSUME HealthInv, NEW w \in Worker, AddFailure(w)
  PROVE  HealthInv'
  <1> USE DEF HealthInv, TypeOK, AddFailure
  <1>1. Recording' = Recording /\ w \in Recording
    BY DEF Recording
  <1>2. TypeOK'
    OBVIOUS
  <1>3. OneAtATime'
    BY <1>1 DEF OneAtATime
  <1>4. solo => \A v \in Worker : v # w => pc[v] = "idle"
    BY <1>1 DEF OneAtATime, Recording
  <1>5. ResetLasts'
    BY <1>4 DEF ResetLasts
  <1>6. FlagFollows'
    <2>1. ASSUME ~disturbed'
          PROVE  /\ failCount'[w] = failureCount'
                 /\ healthy' <=> failureCount' <= Threshold + 1
      BY <2>1, HealthAssumption DEF FlagFollows, Agreement
    <2>2. ~disturbed' => \A v \in Worker : v # w => pc'[v] = "idle"
      BY <1>4 DEF OneAtATime
    <2> QED
      BY <1>1, <2>1, <2>2 DEF FlagFollows
  <1> QED
    BY <1>2, <1>3, <1>5, <1>6

LEMMA MarkUnhealthyInv ==
  ASSUME HealthInv, NEW w \in Worker, MarkUnhealthy(w)
  PROVE  HealthInv'
  <1> USE DEF HealthInv, TypeOK, MarkUnhealthy
  <1>1. Recording' = Recording \ {w} /\ w \in Recording
    BY DEF Recording
  <1>2. TypeOK'
    OBVIOUS
  <1>3. OneAtATime'
    BY <1>1 DEF OneAtATime
  <1>4. solo => \A v \in Worker : v # w => pc[v] = "idle"
    BY <1>1 DEF OneAtATime, Recording
  <1>5. ResetLasts'
    BY <1>4 DEF ResetLasts
  <1>6. FlagFollows'
    <2>1. ASSUME ~disturbed'
          PROVE  Agreement'
      BY <2>1, HealthAssumption DEF FlagFollows, Agreement
    <2>2. ~disturbed' => \A v \in Worker : pc'[v] = "idle"
      BY <1>4 DEF OneAtATime
    <2> QED
      BY <2>1, <2>2 DEF FlagFollows
  <1> QED
    BY <1>2, <1>3, <1>5, <1>6

LEMMA AddSuccessInv ==
  ASSUME HealthInv, NEW w \in Worker, AddSuccess(w)
  PROVE  HealthInv'
  <1> USE DEF HealthInv, TypeOK, AddSuccess
  <1>1. Recording' = Recording /\ w \in Recording
    BY DEF Recording
  <1>2. TypeOK'
    OBVIOUS
  <1>3. OneAtATime' /\ ResetLasts'
    BY <1>1 DEF OneAtATime, ResetLasts
  <1>4. FlagFollows'
    BY <1>1 DEF FlagFollows, Agreement
  <1> QED
    BY <1>2, <1>3, <1>4

LEMMA ResetFailuresInv ==
  ASSUME HealthInv, NEW w \in Worker, ResetFailures(w)
  PROVE  HealthInv'
  <1> USE DEF HealthInv, TypeOK, ResetFailures
  <1>1. Recording' = Recording /\ w \in Recording
    BY DEF Recording
  <1>2. TypeOK'
    OBVIOUS
  <1>3. OneAtATime' /\ ResetLasts'
    BY <1>1 DEF OneAtATime, ResetLasts
  <1>4. ~disturbed => \A v \in Worker : v # w => pc'[v] = "idle"
    BY <1>1 DEF OneAtATime, Recording
  <1>5. FlagFollows'
    BY <1>1, <1>4 DEF FlagFollows
  <1> QED
    BY <1>2, <1>3, <1>5

LEMMA MarkHealthyInv ==
  ASSUME HealthInv, NEW w \in Worker, MarkHealthy(w)
  PROVE  HealthInv'
  <1> USE DEF HealthInv, TypeOK, MarkHealthy
  <1>1. Recording' = Recording \ {w} /\ w \in Recording
    BY DEF Recording
  <1>2. TypeOK'
    OBVIOUS
  <1>3. OneAtATime'
    BY <1>1 DEF OneAtATime
  <1>4. solo => \A v \in Worker : v # w => pc[v] = "idle"
    BY <1>1 DEF OneAtATime, Recording
  <1>5. ResetLasts'
    BY <1>4 DEF ResetLasts
  <1>6. ~disturbed' => solo
    BY DEF OneAtATime
  <1>7. FlagFollows'
    <2>1. ~disturbed' => Agreement'
      BY <1>6, HealthAssumption DEF ResetLasts, Agreement
    <2>2. ~disturbed' => \A v \in Worker : pc'[v] = "idle"
      BY <1>4, <1>6
    <2> QED
      BY <2>1, <2>2 DEF FlagFollows
  <1> QED
    BY <1>2, <1>3, <1>5, <1>7

LEMMA NextHealth == HealthInv /\ [Next]_vars => HealthInv'
  <1> SUFFICES ASSUME HealthInv, [Next]_vars
               PROVE  HealthInv'
    OBVIOUS
  <1>1. CASE UNCHANGED vars
    BY <1>1 DEF vars, HealthInv, TypeOK, OneAtATime,
           ResetLasts, FlagFollows, Recording, Agreement
  <1>2. ASSUME NEW w \in Worker, Begin(w, "failed") \/ Begin(w, "succeeded")
        PROVE  HealthInv'
    BY <1>2, BeginInv
  <1>3. ASSUME NEW w \in Worker, AddFailure(w) \/ MarkUnhealthy(w)
        PROVE  HealthInv'
    BY <1>3, AddFailureInv, MarkUnhealthyInv
  <1>4. ASSUME NEW w \in Worker,
               AddSuccess(w) \/ ResetFailures(w) \/ MarkHealthy(w)
        PROVE  HealthInv'
    BY <1>4, AddSuccessInv, ResetFailuresInv, MarkHealthyInv
  <1> QED
    BY <1>1, <1>2, <1>3, <1>4 DEF Next

LEMMA InvariantHealth == Spec => []HealthInv
  BY InitHealth, NextHealth, PTL DEF Spec

-----------------------------------------------------------------------------
(* Counters and flags keep their types, and no recording is left with a    *)
(* stale local.                                                            *)
THEOREM HealthTypes == Spec => []TypeOK
  BY InvariantHealth, PTL DEF HealthInv

(* The flag of a pool agrees with its count of consecutive failures while  *)
(* nothing is recorded, unless two recordings have overlapped since a      *)
(* success was last recorded on its own (processJob).                      *)
THEOREM HealthReliable == Spec => []WrongOnlyAfterOverlap
  <1>1. HealthInv => WrongOnlyAfterOverlap
    BY DEF HealthInv, FlagFollows, WrongOnlyAfterOverlap
  <1> QED
    BY <1>1, InvariantHealth, PTL
=============================================================================
