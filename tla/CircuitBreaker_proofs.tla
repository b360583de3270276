----------------------- MODULE CircuitBreaker_proofs -----------------------
(***************************************************************************)
(* Theorems about CircuitBreaker and SharedCircuit, for any set of callers *)
(* that overlap in any way, any threshold, window, cooldown and length of  *)
(* time, and any webhooks with one key.                                    *)
(***************************************************************************)
EXTENDS SharedCircuit, SequenceTheorems, TLAPS

(* A failure is appended to the history and at most one forgotten. *)
LEMMA LatestProperties ==
    ASSUME NEW s \in Seq(Nat), Len(s) <= Threshold, NEW t \in Nat
    PROVE  /\ Latest(Append(s, t)) \in Seq(Nat)
           /\ Len(Latest(Append(s, t))) =
                 IF Len(s) = Threshold THEN Threshold ELSE Len(s) + 1
<1>1. /\ Append(s, t) \in Seq(Nat)
      /\ Len(Append(s, t)) = Len(s) + 1
      /\ Append(s, t) # <<>>
  BY AppendProperties
<1>2. /\ Tail(Append(s, t)) \in Seq(Nat)
      /\ Len(Tail(Append(s, t))) = Len(s)
  BY <1>1, HeadTailProperties
<1>3. Len(s) \in Nat
  BY LenProperties
<1> QED BY <1>1, <1>2, <1>3, BreakerAssumption DEF Latest

IInv == TypeOK /\ ThresholdIsNoticed /\ OpenBounded /\ CountIsBacked

LEMMA InitIInv == Init => IInv
  BY EmptySeq, BreakerAssumption
     DEF Init, IInv, TypeOK, ThresholdIsNoticed, OpenBounded, CountIsBacked

(* The steps of the callers, one disjunct of Next at a time. *)
CallerStep(c) ==
    \/ AllowRequest(c) \/ LoadOpenedUntil(c) \/ LoadLastFailure(c)
    \/ ExpireFailures(c) \/ AllowClear(c)
    \/ CallSucceeds(c) \/ CallFails(c)
    \/ SuccessResets(c) \/ SuccessForgets(c) \/ SuccessCloses(c)
    \/ CountFailure(c) \/ StampFailure(c)
    \/ TripResets(c) \/ TripOpens(c)

LEMMA CallerStepType ==
    ASSUME TypeOK, NEW c \in Caller, CallerStep(c)
    PROVE  TypeOK'
<1> USE DEF TypeOK, At, Goto, Enter, Return, entry
<1>1. CASE AllowRequest(c)
  BY <1>1 DEF AllowRequest, ReadClock
<1>2. CASE LoadOpenedUntil(c)
  <2>1. CASE OpenFor(c)
    <3>1. Return(c) /\ UNCHANGED <<clock, entry, failures>>
      BY <1>2, <2>1 DEF LoadOpenedUntil
    <3> QED BY <3>1
  <2>2. CASE ~OpenFor(c)
    <3>1. pc[c] = "opened" /\ Goto(c, "last")
          /\ UNCHANGED <<now, newFailCount, clock, entry, failures>>
      BY <1>2, <2>2 DEF LoadOpenedUntil
    <3> QED BY <3>1
  <2> QED BY <2>1, <2>2
<1>3. CASE LoadLastFailure(c)
  BY <1>3 DEF LoadLastFailure, AfterWindow
<1>4. CASE ExpireFailures(c)
  BY <1>4 DEF ExpireFailures, AfterWindow
<1>5. CASE AllowClear(c)
  BY <1>5 DEF AllowClear
<1>6. CASE CallSucceeds(c)
  BY <1>6 DEF CallSucceeds
<1>7. CASE CallFails(c)
  BY <1>7 DEF CallFails, ReadClock
<1>8. CASE SuccessResets(c)
  BY <1>8, EmptySeq, BreakerAssumption DEF SuccessResets
<1>9. CASE SuccessForgets(c)
  BY <1>9 DEF SuccessForgets
<1>10. CASE SuccessCloses(c)
  BY <1>10 DEF SuccessCloses
<1>11. CASE CountFailure(c)
  <2>1. Latest(Append(failures, clock)) \in Seq(Nat)
        /\ Len(Latest(Append(failures, clock))) <= Threshold
    BY LatestProperties, LenProperties, BreakerAssumption
  <2> QED BY <1>11, <2>1 DEF CountFailure
<1>12. CASE StampFailure(c)
  <2>1. /\ At(c, "failure", "stamp") /\ lastFailure' = now[c]
        /\ UNCHANGED <<clock, failCount, openedUntil, failures>>
    BY <1>12 DEF StampFailure, Stamp
  <2>2. CASE newFailCount[c] >= Threshold
    <3>1. Goto(c, "restart") /\ UNCHANGED <<now, newFailCount>>
      BY <1>12, <2>2 DEF StampFailure, Stamp
    <3> QED BY <2>1, <3>1
  <2>3. CASE ~(newFailCount[c] >= Threshold)
    <3>1. Return(c)
      BY <1>12, <2>3 DEF StampFailure, Stamp
    <3> QED BY <2>1, <3>1
  <2> QED BY <2>2, <2>3
<1>13. CASE TripResets(c)
  BY <1>13 DEF TripResets
<1>14. CASE TripOpens(c)
  BY <1>14, BreakerAssumption DEF TripOpens, TripUntil
<1> QED BY <1>1, <1>2, <1>3, <1>4, <1>5, <1>6, <1>7, <1>8, <1>9, <1>10,
           <1>11, <1>12, <1>13, <1>14 DEF CallerStep

(* A caller that takes the count to the threshold restarts it itself; the  *)
(* other callers only restart it too, or take it further.                  *)
LEMMA CallerStepNoticed ==
    ASSUME TypeOK, ThresholdIsNoticed, NEW c \in Caller, CallerStep(c)
    PROVE  ThresholdIsNoticed'
<1> USE BreakerAssumption DEF TypeOK, At, Goto, Enter, Return, entry, Tripping
<1>1. CASE ExpireFailures(c) \/ SuccessResets(c) \/ TripResets(c)
  <2>1. failCount' = 0
    BY <1>1 DEF ExpireFailures, SuccessResets, TripResets
  <2> QED BY <2>1 DEF ThresholdIsNoticed
<1>2. CASE CountFailure(c)
  <2>1. CASE failCount + 1 >= Threshold
    <3>1. Tripping(c)'
      BY <1>2, <2>1 DEF CountFailure
    <3> QED BY <3>1 DEF ThresholdIsNoticed
  <2>2. CASE ~(failCount + 1 >= Threshold)
    BY <1>2, <2>2 DEF CountFailure, ThresholdIsNoticed
  <2> QED BY <2>1, <2>2
<1>3. ASSUME ~ExpireFailures(c), ~SuccessResets(c), ~TripResets(c),
             ~CountFailure(c)
      PROVE  ThresholdIsNoticed'
  <2>1. failCount' = failCount
    BY <1>3 DEF CallerStep, AllowRequest, ReadClock, LoadOpenedUntil,
         LoadLastFailure, AllowClear, CallSucceeds, CallFails,
         SuccessForgets, SuccessCloses, StampFailure, Stamp, TripOpens
  <2>2. ASSUME NEW d \in Caller, Tripping(d) PROVE Tripping(d)'
    <3>1. CASE d # c
      <4>1. pc'[d] = pc[d] /\ newFailCount'[d] = newFailCount[d]
        <5>1. CASE LoadOpenedUntil(c)
          <6>1. Return(c) \/ (Goto(c, "last") /\ UNCHANGED newFailCount)
            BY <5>1 DEF LoadOpenedUntil
          <6> QED BY <3>1, <6>1
        <5>2. CASE StampFailure(c)
          <6>1. Return(c) \/ (Goto(c, "restart") /\ UNCHANGED newFailCount)
            BY <5>2 DEF StampFailure, Stamp
          <6> QED BY <3>1, <6>1
        <5>3. CASE AllowRequest(c) \/ LoadLastFailure(c) \/ AllowClear(c)
                   \/ CallSucceeds(c) \/ CallFails(c) \/ SuccessForgets(c)
                   \/ SuccessCloses(c) \/ TripOpens(c)
          BY <3>1, <5>3 DEF AllowRequest, ReadClock, LoadLastFailure,
               AllowClear, CallSucceeds, CallFails, SuccessForgets,
               SuccessCloses, TripOpens
        <5> QED BY <1>3, <5>1, <5>2, <5>3 DEF CallerStep
      <4> QED BY <2>2, <4>1
    <3>2. CASE d = c
      <4>1. StampFailure(c)
        BY <1>3, <2>2, <3>2 DEF CallerStep, AllowRequest, ReadClock,
             LoadOpenedUntil, LoadLastFailure, AllowClear, CallSucceeds,
             CallFails, SuccessForgets, SuccessCloses, TripOpens
      <4> QED BY <2>2, <3>2, <4>1 DEF StampFailure, Stamp
    <3> QED BY <3>1, <3>2
  <2> QED BY <2>1, <2>2 DEF ThresholdIsNoticed
<1> QED BY <1>1, <1>2, <1>3

(* The circuit is opened until a cooldown after a time that has passed. *)
LEMMA CallerStepBounded ==
    ASSUME TypeOK, OpenBounded, NEW c \in Caller, CallerStep(c)
    PROVE  OpenBounded'
<1> USE BreakerAssumption DEF TypeOK, OpenBounded, entry
<1>1. CASE TripOpens(c)
  BY <1>1 DEF TripOpens, TripUntil
<1>2. CASE AllowClear(c) \/ SuccessCloses(c)
  BY <1>2 DEF AllowClear, SuccessCloses
<1>3. CASE ~TripOpens(c) /\ ~AllowClear(c) /\ ~SuccessCloses(c)
  BY <1>3 DEF CallerStep, AllowRequest, ReadClock, LoadOpenedUntil,
       LoadLastFailure, ExpireFailures, CallSucceeds, CallFails,
       SuccessResets, SuccessForgets, CountFailure, StampFailure, Stamp,
       TripResets
<1> QED BY <1>1, <1>2, <1>3

(* The count and the history of failures grow together and are emptied by  *)
(* the same success; everything else that resets the count keeps history.  *)
LEMMA CallerStepBacked ==
    ASSUME TypeOK, CountIsBacked, NEW c \in Caller, CallerStep(c)
    PROVE  CountIsBacked'
<1> USE BreakerAssumption DEF TypeOK, CountIsBacked, entry
<1>1. Len(failures) \in Nat
  BY LenProperties
<1>2. CASE CountFailure(c)
  <2>1. failures' = Latest(Append(failures, clock))
        /\ failCount' = failCount + 1
    BY <1>2 DEF CountFailure
  <2>2. Len(failures') = IF Len(failures) = Threshold THEN Threshold
                         ELSE Len(failures) + 1
    BY <2>1, LatestProperties
  <2> QED BY <1>1, <2>1, <2>2
<1>3. CASE SuccessResets(c)
  BY <1>3, EmptySeq DEF SuccessResets
<1>4. CASE ExpireFailures(c) \/ TripResets(c)
  BY <1>1, <1>4 DEF ExpireFailures, TripResets
<1>5. CASE ~CountFailure(c) /\ ~SuccessResets(c) /\ ~ExpireFailures(c)
           /\ ~TripResets(c)
  BY <1>5 DEF CallerStep, AllowRequest, ReadClock, LoadOpenedUntil,
       LoadLastFailure, AllowClear, CallSucceeds, CallFails,
       SuccessForgets, SuccessCloses, StampFailure, Stamp, TripOpens
<1> QED BY <1>2, <1>3, <1>4, <1>5

LEMMA NextIInv == IInv /\ [Next]_vars => IInv'
<1> SUFFICES ASSUME IInv, [Next]_vars PROVE IInv'
  OBVIOUS
<1>1. CASE Tick
  BY <1>1, BreakerAssumption
     DEF Tick, IInv, TypeOK, ThresholdIsNoticed, Tripping, OpenBounded,
         CountIsBacked, entry
<1>2. ASSUME NEW c \in Caller, CallerStep(c) PROVE IInv'
  BY <1>2, CallerStepType, CallerStepNoticed, CallerStepBounded,
     CallerStepBacked DEF IInv
<1>3. CASE UNCHANGED vars
  BY <1>3 DEF vars, IInv, TypeOK, ThresholdIsNoticed, Tripping, OpenBounded,
       CountIsBacked, entry
<1> QED BY <1>1, <1>2, <1>3 DEF Next, CallerStep

(* The inductive invariant holds in every reachable state. *)
THEOREM Invariance == Spec => []IInv
  BY InitIInv, NextIInv, PTL DEF Spec

(* No time a caller holds lies in the future, and a caller between         *)
(* operations keeps nothing of the last one.                               *)
THEOREM TypeCorrect == Spec => []TypeOK
<1>1. IInv => TypeOK
  BY DEF IInv
<1> QED BY <1>1, Invariance, PTL

(* However RecordFailure, RecordSuccess and AllowRequest interleave, a     *)
(* count that reached the threshold is being acted on.                     *)
THEOREM NoSilentThreshold == Spec => []ThresholdIsNoticed
<1>1. IInv => ThresholdIsNoticed
  BY DEF IInv
<1> QED BY <1>1, Invariance, PTL

(* The circuit is never open for longer than one cooldown from now.        *)
THEOREM BoundedOpening == Spec => []OpenBounded
<1>1. IInv => OpenBounded
  BY DEF IInv
<1> QED BY <1>1, Invariance, PTL

(* The circuit never trips on fewer than Threshold failures since the last *)
(* success.                                                                *)
THEOREM NoEarlyTrip == Spec => []CountIsBacked
<1>1. IInv => CountIsBacked
  BY DEF IInv
<1> QED BY <1>1, Invariance, PTL

-----------------------------------------------------------------------------
(* SharedCircuit *)

Calls == Webhook \X BOOLEAN

(* a call that may fail *)
Fault == {made \in Calls : Faulty(made)}

(* A call goes with its operation, and one that is said to have failed had *)
(* a reason to. *)
CallTypes ==
    /\ DOMAIN call = Caller
    /\ \A c \in Caller :
          /\ op[c] \in {"allow", "call"} => call[c] \in Calls
          /\ op[c] = "failure" => call[c] \in Fault

(* The causes are those of the failures counted. *)
CausesMatch == causes \in Seq(Fault) /\ Len(causes) = Len(failures)

Enough(s) == s \in Seq(Fault) /\ Len(s) = Threshold

(* Whoever has counted as far as the threshold holds the grounds for it.   *)
TripsBacked ==
    /\ DOMAIN against = Caller
    /\ \A c \in Caller :
          /\ newFailCount[c] >= Threshold => Enough(against[c])
          /\ pc[c] \in {"restart", "open"} => newFailCount[c] >= Threshold
          /\ op[c] # "failure" => newFailCount[c] = 0

SharedInv == /\ IInv /\ CallTypes /\ CausesMatch /\ TripsBacked
             /\ openedUntil # 0 => Enough(grounds)

(* Counting appends a cause just as it appends a time. *)
LEMMA LatestCauses ==
    ASSUME NEW s \in Seq(Fault), Len(s) <= Threshold, NEW made \in Fault
    PROVE  /\ Latest(Append(s, made)) \in Seq(Fault)
           /\ Len(Latest(Append(s, made))) =
                 IF Len(s) = Threshold THEN Threshold ELSE Len(s) + 1
<1>1. /\ Append(s, made) \in Seq(Fault)
      /\ Len(Append(s, made)) = Len(s) + 1
      /\ Append(s, made) # <<>>
  BY AppendProperties
<1>2. /\ Tail(Append(s, made)) \in Seq(Fault)
      /\ Len(Tail(Append(s, made))) = Len(s)
  BY <1>1, HeadTailProperties
<1>3. Len(s) \in Nat
  BY LenProperties
<1> QED BY <1>1, <1>2, <1>3, BreakerAssumption DEF Latest

LEMMA InitShared == SharedInit => SharedInv
<1> SUFFICES ASSUME SharedInit PROVE SharedInv
  OBVIOUS
<1> USE DEF SharedInit
<1>1. IInv
  BY InitIInv
<1>2. CallTypes
  BY DEF CallTypes, Init
<1>3. CausesMatch
  BY EmptySeq DEF CausesMatch, Init
<1>4. TripsBacked
  BY BreakerAssumption DEF TripsBacked, Init
<1>5. openedUntil = 0
  BY DEF Init
<1> QED BY <1>1, <1>2, <1>3, <1>4, <1>5 DEF SharedInv

(* A step of the shared circuit is one of the entry, or leaves it alone.   *)
LEMMA SharedSteps == [SharedNext]_sharedVars => [Next]_vars
<1> USE DEF SharedNext, Next
<1>1. ASSUME NEW c \in Caller,
             Begin(c) \/ Fails(c) \/ Resets(c) \/ Counts(c) \/ Opens(c)
             \/ Other(c)
      PROVE  Next
  BY <1>1 DEF Begin, Fails, Resets, Counts, Opens, Other
<1>2. TimePasses => Next
  BY DEF TimePasses
<1>3. EndInvocation => UNCHANGED vars
  BY DEF EndInvocation
<1>4. UNCHANGED sharedVars => UNCHANGED vars
  BY DEF sharedVars
<1> QED BY <1>1, <1>2, <1>3, <1>4

(* A caller takes its steps without touching the locals of another. *)
LEMMA CallerStepOthers ==
    ASSUME TypeOK, NEW c \in Caller, CallerStep(c), NEW d \in Caller, d # c
    PROVE  UNCHANGED <<pc[d], op[d], newFailCount[d]>>
<1> USE DEF TypeOK, At, Goto, Enter, Return
<1>1. CASE LoadOpenedUntil(c)
  <2>1. Return(c) \/ (Goto(c, "last") /\ UNCHANGED newFailCount)
    BY <1>1 DEF LoadOpenedUntil
  <2> QED BY <2>1
<1>2. CASE StampFailure(c)
  <2>1. Return(c) \/ (Goto(c, "restart") /\ UNCHANGED newFailCount)
    BY <1>2 DEF StampFailure, Stamp
  <2> QED BY <2>1
<1>3. CASE ~LoadOpenedUntil(c) /\ ~StampFailure(c)
  BY <1>3 DEF CallerStep, AllowRequest, ReadClock, LoadLastFailure,
       ExpireFailures, AllowClear, CallSucceeds, CallFails, SuccessResets,
       SuccessForgets, SuccessCloses, CountFailure, TripResets, TripOpens
<1> QED BY <1>1, <1>2, <1>3

(* What the shared circuit adds to the state of the entry. *)
Shares == /\ CallTypes /\ CausesMatch /\ TripsBacked
          /\ openedUntil # 0 => Enough(grounds)

(* A call begins, with a webhook and a context of its own. *)
LEMMA BeginShares ==
    ASSUME SharedInv, NEW c \in Caller, Begin(c)
    PROVE  Shares'
<1> USE DEF SharedInv, IInv, Begin, AllowRequest, ReadClock, TypeOK, At, Enter
<1>1. ASSUME NEW d \in Caller, d # c
      PROVE  UNCHANGED <<pc[d], op[d], newFailCount[d], call[d]>>
  BY <1>1 DEF CallTypes
<1>2. CallTypes'
  <2>1. DOMAIN call' = Caller
    BY DEF CallTypes
  <2>2. call'[c] \in Calls /\ op'[c] = "allow"
    BY DEF CallTypes, Calls
  <2> QED BY <1>1, <2>1, <2>2 DEF CallTypes
<1>3. CausesMatch'
  BY DEF CausesMatch, history
<1>4. TripsBacked'
  <2>1. pc'[c] = "opened" /\ newFailCount'[c] = newFailCount[c]
    OBVIOUS
  <2> QED BY <1>1, <2>1 DEF TripsBacked, history
<1>5. openedUntil' # 0 => Enough(grounds')
  BY DEF history, entry
<1> QED BY <1>2, <1>3, <1>4, <1>5 DEF Shares

(* A call fails, which needs a reason. *)
LEMMA FailsShares ==
    ASSUME SharedInv, NEW c \in Caller, Fails(c)
    PROVE  Shares'
<1> USE DEF SharedInv, IInv, Fails, CallFails, ReadClock, TypeOK, At, Enter
<1>1. ASSUME NEW d \in Caller, d # c
      PROVE  UNCHANGED <<pc[d], op[d], newFailCount[d], call[d]>>
  BY <1>1
<1>2. CallTypes'
  <2>1. call'[c] \in Fault /\ op'[c] = "failure"
    BY DEF CallTypes, Fault
  <2> QED BY <1>1, <2>1 DEF CallTypes
<1>3. CausesMatch'
  BY DEF CausesMatch, history
<1>4. TripsBacked'
  <2>1. pc'[c] = "opened" /\ newFailCount'[c] = newFailCount[c]
        /\ op'[c] = "failure"
    OBVIOUS
  <2> QED BY <1>1, <2>1 DEF TripsBacked, history
<1>5. openedUntil' # 0 => Enough(grounds')
  BY DEF history, entry
<1> QED BY <1>2, <1>3, <1>4, <1>5 DEF Shares

(* A success empties the history as it empties the count. *)
LEMMA ResetsShares ==
    ASSUME SharedInv, NEW c \in Caller, Resets(c)
    PROVE  Shares'
<1> USE DEF SharedInv, IInv, Resets, SuccessResets, TypeOK, At, Goto
<1>1. ASSUME NEW d \in Caller, d # c
      PROVE  UNCHANGED <<pc[d], op[d], newFailCount[d], call[d]>>
  BY <1>1
<1>2. CallTypes'
  BY DEF CallTypes
<1>3. CausesMatch'
  BY EmptySeq DEF CausesMatch
<1>4. TripsBacked'
  <2>1. pc'[c] = "forget" /\ newFailCount'[c] = newFailCount[c]
        /\ op'[c] = op[c]
    OBVIOUS
  <2> QED BY <1>1, <2>1 DEF TripsBacked
<1>5. openedUntil' # 0 => Enough(grounds')
  OBVIOUS
<1> QED BY <1>2, <1>3, <1>4, <1>5 DEF Shares

(* A count that comes to the threshold has as many causes: the count never *)
(* runs ahead of the failures (CountIsBacked), nor they of their causes.   *)
LEMMA CountsShares ==
    ASSUME SharedInv, NEW c \in Caller, Counts(c)
    PROVE  Shares'
<1> USE DEF SharedInv, IInv, Counts, CountFailure, TypeOK, At, Goto
<1>1. ASSUME NEW d \in Caller, d # c
      PROVE  UNCHANGED <<pc[d], op[d], newFailCount[d], call[d]>>
  BY <1>1
<1>2. CallTypes'
  BY DEF CallTypes
<1>3. call[c] \in Fault
  BY DEF CallTypes
<1>4. Len(failures) \in Nat /\ Len(causes) = Len(failures)
      /\ causes \in Seq(Fault)
  BY LenProperties DEF CausesMatch
<1>5. /\ causes' \in Seq(Fault)
      /\ Len(causes') = IF Len(failures) = Threshold THEN Threshold
                        ELSE Len(failures) + 1
  BY <1>3, <1>4, LatestCauses
<1>6. Len(failures') = IF Len(failures) = Threshold THEN Threshold
                       ELSE Len(failures) + 1
  BY LatestProperties
<1>7. CausesMatch'
  BY <1>5, <1>6 DEF CausesMatch
<1>8. failCount + 1 >= Threshold => Enough(causes')
  BY <1>4, <1>5, BreakerAssumption DEF CountIsBacked, Enough
<1>9. TripsBacked'
  <2>1. newFailCount'[c] = failCount + 1 /\ pc'[c] = "stamp"
        /\ op'[c] = "failure"
    OBVIOUS
  <2>2. CASE failCount + 1 < Threshold
    <3>1. against' = against
      BY <2>1, <2>2
    <3>2. ~(newFailCount'[c] >= Threshold)
      BY <2>1, <2>2, BreakerAssumption
    <3> QED BY <1>1, <2>1, <3>1, <3>2 DEF TripsBacked
  <2>3. CASE ~(failCount + 1 < Threshold)
    <3>1. against' = [against EXCEPT ![c] = causes']
      BY <2>1, <2>3
    <3>2. Enough(causes')
      BY <1>8, <2>3, BreakerAssumption
    <3> QED BY <1>1, <2>1, <3>1, <3>2 DEF TripsBacked
  <2> QED BY <2>2, <2>3
<1>10. openedUntil' # 0 => Enough(grounds')
  OBVIOUS
<1> QED BY <1>2, <1>7, <1>9, <1>10 DEF Shares

(* Whoever opens the circuit leaves the grounds it has. *)
LEMMA OpensShares ==
    ASSUME SharedInv, NEW c \in Caller, Opens(c)
    PROVE  Shares'
<1> USE DEF SharedInv, IInv, Opens, TripOpens, TypeOK, At, Return, Enter,
            Settled
<1>1. op'[c] = "none" /\ pc'[c] = "idle" /\ newFailCount'[c] = 0
  OBVIOUS
<1>2. call' = [call EXCEPT ![c] = <<>>]
      /\ against' = [against EXCEPT ![c] = <<>>]
  BY <1>1
<1>3. ASSUME NEW d \in Caller, d # c
      PROVE  UNCHANGED <<pc[d], op[d], newFailCount[d], call[d], against[d]>>
  BY <1>2, <1>3
<1>4. CallTypes'
  BY <1>1, <1>2, <1>3 DEF CallTypes
<1>5. CausesMatch'
  BY DEF CausesMatch
<1>6. TripsBacked'
  BY <1>1, <1>2, <1>3, BreakerAssumption DEF TripsBacked
<1>7. Enough(grounds')
  BY DEF TripsBacked
<1> QED BY <1>4, <1>5, <1>6, <1>7 DEF Shares

(* The other steps take an operation no further than to its end. *)
LEMMA OtherSteps ==
    ASSUME SharedInv, NEW c \in Caller, Other(c)
    PROVE  /\ CallerStep(c) /\ TypeOK'
           /\ op'[c] = "failure" => op[c] = "failure"
           /\ op'[c] \in {"allow", "call"} => op[c] \in {"allow", "call"}
           /\ \/ newFailCount'[c] = newFailCount[c] /\ op'[c] # "none"
              \/ newFailCount'[c] = 0 /\ op'[c] = "none"
           /\ op'[c] = "success" => op[c] # "failure"
           /\ pc'[c] \in {"restart", "open"} => newFailCount[c] >= Threshold
                                               /\ op'[c] # "none"
           /\ UNCHANGED failures
           /\ openedUntil' \in {0, openedUntil}
<1> USE DEF SharedInv, IInv, TypeOK, At, Goto, Enter, Return, entry
<1>1. CallerStep(c)
  BY DEF Other, CallerStep
<1>2. TypeOK'
  BY <1>1, CallerStepType
<1>3. CASE LoadOpenedUntil(c)
  <2>1. \/ Return(c)
        \/ pc[c] = "opened" /\ Goto(c, "last") /\ UNCHANGED newFailCount
    BY <1>3 DEF LoadOpenedUntil
  <2>2. UNCHANGED <<failures, openedUntil>>
    BY <1>3 DEF LoadOpenedUntil
  <2> QED BY <1>1, <1>2, <2>1, <2>2
<1>4. CASE LoadLastFailure(c) \/ ExpireFailures(c)
  BY <1>1, <1>2, <1>4 DEF LoadLastFailure, ExpireFailures, AfterWindow
<1>5. CASE AllowClear(c) \/ CallSucceeds(c) \/ SuccessForgets(c)
           \/ SuccessCloses(c)
  BY <1>1, <1>2, <1>5 DEF AllowClear, CallSucceeds, SuccessForgets,
       SuccessCloses
<1>6. CASE StampFailure(c)
  <2>1. /\ op[c] = "failure"
        /\ \/ Return(c)
           \/ /\ newFailCount[c] >= Threshold /\ Goto(c, "restart")
              /\ UNCHANGED newFailCount
        /\ UNCHANGED <<failures, openedUntil>>
    BY <1>6 DEF StampFailure, Stamp
  <2> QED BY <1>1, <1>2, <2>1
<1>7. CASE TripResets(c)
  BY <1>1, <1>2, <1>7 DEF TripResets, TripsBacked
<1> QED BY <1>3, <1>4, <1>5, <1>6, <1>7 DEF Other

LEMMA OtherShares ==
    ASSUME SharedInv, NEW c \in Caller, Other(c)
    PROVE  Shares'
<1> USE DEF SharedInv, IInv
<1>1. /\ op'[c] = "failure" => op[c] = "failure"
      /\ op'[c] \in {"allow", "call"} => op[c] \in {"allow", "call"}
      /\ \/ newFailCount'[c] = newFailCount[c] /\ op'[c] # "none"
         \/ newFailCount'[c] = 0 /\ op'[c] = "none"
      /\ op'[c] = "success" => op[c] # "failure"
      /\ pc'[c] \in {"restart", "open"} => newFailCount[c] >= Threshold
                                          /\ op'[c] # "none"
      /\ UNCHANGED failures
      /\ openedUntil' \in {0, openedUntil}
  BY OtherSteps
<1>2. CallerStep(c)
  BY OtherSteps
<1>3. ASSUME NEW d \in Caller, d # c
      PROVE  UNCHANGED <<pc[d], op[d], newFailCount[d]>>
  BY <1>2, <1>3, CallerStepOthers
<1>4. /\ \/ /\ op'[c] \in {"none", "success"}
            /\ call' = [call EXCEPT ![c] = <<>>]
            /\ against' = [against EXCEPT ![c] = <<>>]
         \/ /\ op'[c] \notin {"none", "success"}
            /\ UNCHANGED <<call, against>>
      /\ UNCHANGED causes
      /\ grounds' = IF openedUntil' = 0 THEN <<>> ELSE grounds
  BY DEF Other, Settled
<1>5. CallTypes'
  BY <1>1, <1>3, <1>4 DEF CallTypes
<1>6. CausesMatch'
  BY <1>1, <1>4 DEF CausesMatch
<1>7. TripsBacked'
  <2>1. DOMAIN against' = Caller
    BY <1>4 DEF TripsBacked
  <2>2. ASSUME NEW d \in Caller, d # c
        PROVE  /\ newFailCount'[d] >= Threshold => Enough(against'[d])
               /\ pc'[d] \in {"restart", "open"}
                     => newFailCount'[d] >= Threshold
               /\ op'[d] # "failure" => newFailCount'[d] = 0
    BY <1>3, <1>4, <2>2 DEF TripsBacked
  <2>3. /\ newFailCount'[c] >= Threshold => Enough(against'[c])
        /\ pc'[c] \in {"restart", "open"} => newFailCount'[c] >= Threshold
        /\ op'[c] # "failure" => newFailCount'[c] = 0
    <3>1. CASE op'[c] = "none"
      BY <1>1, <3>1, BreakerAssumption
    <3>2. CASE op'[c] = "success"
      BY <1>1, <3>2, BreakerAssumption DEF TripsBacked
    <3>3. CASE op'[c] \notin {"none", "success"}
      <4>1. op'[c] # "failure" => op[c] # "failure"
        <5>1. op'[c] \in {"none", "allow", "call", "success", "failure"}
          BY OtherSteps DEF TypeOK
        <5> QED BY <1>1, <3>3, <5>1
      <4> QED BY <1>1, <1>4, <3>3, <4>1 DEF TripsBacked
    <3> QED BY <3>1, <3>2, <3>3
  <2> QED BY <2>1, <2>2, <2>3 DEF TripsBacked
<1>8. openedUntil' # 0 => Enough(grounds')
  BY <1>1, <1>4
<1> QED BY <1>5, <1>6, <1>7, <1>8 DEF Shares

(* The end of an invocation only adds a reason for calls to fail. *)
LEMMA EndShares ==
    ASSUME SharedInv, EndInvocation \/ TimePasses \/ UNCHANGED sharedVars
    PROVE  Shares'
<1> USE DEF SharedInv
<1>1. CASE EndInvocation
  <2>1. UNCHANGED <<op, pc, newFailCount, failures, openedUntil, causes,
                    against, grounds>>
    BY <1>1 DEF EndInvocation, vars, entry, history
  <2>2. CallTypes'
    <3>1. DOMAIN call' = Caller
      BY <1>1 DEF EndInvocation
    <3>2. ASSUME NEW c \in Caller
          PROVE  call'[c] = IF op[c] \in {"allow", "call"}
                            THEN <<call[c][1], TRUE>> ELSE call[c]
      BY <1>1 DEF EndInvocation
    <3>3. ASSUME NEW c \in Caller
          PROVE  /\ op'[c] \in {"allow", "call"} => call'[c] \in Calls
                 /\ op'[c] = "failure" => call'[c] \in Fault
      <4>1. CASE op[c] \in {"allow", "call"}
        <5>1. call[c][1] \in Webhook /\ call'[c] = <<call[c][1], TRUE>>
          BY <3>2, <4>1 DEF Shares, CallTypes, Calls
        <5>2. call'[c] \in Calls
          <6>1. \A w \in Webhook : <<w, TRUE>> \in Calls
            BY DEF Calls
          <6> QED BY <5>1, <6>1
        <5>3. op'[c] # "failure"
          BY <2>1, <4>1
        <5> QED BY <5>2, <5>3
      <4>2. CASE op[c] \notin {"allow", "call"}
        BY <2>1, <3>2, <4>2 DEF Shares, CallTypes, Fault, Calls
      <4> QED BY <4>1, <4>2
    <3> QED BY <3>1, <3>3 DEF CallTypes
  <2> QED BY <2>1, <2>2 DEF Shares, CausesMatch, TripsBacked
<1>2. CASE TimePasses \/ UNCHANGED sharedVars
  <2>1. UNCHANGED <<op, pc, newFailCount, failures, openedUntil, call, causes,
                    against, grounds>>
    BY <1>2 DEF TimePasses, Tick, sharedVars, vars, entry, history
  <2> QED BY <2>1 DEF Shares, CallTypes, CausesMatch, TripsBacked
<1> QED BY <1>1, <1>2

LEMMA NextShared == SharedInv /\ [SharedNext]_sharedVars => SharedInv'
<1> SUFFICES ASSUME SharedInv, [SharedNext]_sharedVars PROVE SharedInv'
  OBVIOUS
<1>1. IInv'
  BY SharedSteps, NextIInv DEF SharedInv
<1>2. Shares'
  BY BeginShares, FailsShares, ResetsShares, CountsShares, OpensShares,
     OtherShares, EndShares DEF SharedNext
<1> QED BY <1>1, <1>2 DEF SharedInv, Shares

(* Whoever opened an open circuit had counted, since one success, as many  *)
(* failures as the threshold, and each was of a webhook that does not      *)
(* answer every call or was cut off by the end of its invocation, whatever *)
(* the callers of all webhooks with the key did meanwhile.                 *)
THEOREM OpenedByFaults == SharedSpec => []OpensByFaults
<1>1. SharedInv => OpensByFaults
  BY ElementOfSeq DEF SharedInv, Enough, Fault, OpensByFaults
<1> QED BY <1>1, InitShared, NextShared, PTL DEF SharedSpec
=============================================================================
