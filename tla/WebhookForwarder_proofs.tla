---------------------- MODULE WebhookForwarder_proofs -----------------------
(***************************************************************************)
(* Theorems about WebhookForwarder, for any URLs, policy and time limits:  *)
(* what a call reports agrees with what happened, a confirmed delivery is  *)
(* never repeated, and retries keep their distance.                        *)
(***************************************************************************)
EXTENDS WebhookForwarder, TLAPS, FiniteSetTheorems

(* the least time between two requests for a URL *)
Gap == Smaller(RetryStrategy.BaseDelay, RetryStrategy.MaxDelay)

(* what the breaker has to be told of an outcome *)
Expected(o) == CASE o = "open" -> <<>>
                 [] o = "ok" -> <<"success">>
                 [] OTHER -> <<"failure">>

(* Every request that leaves belongs to an attempt of its own. *)
Attempts(u) ==
    /\ pc[u] \in {"none", "start"} => attempt[u] = 0 /\ sends[u] = 0
    /\ pc[u] \in {"attempt", "wait"} => sends[u] <= attempt[u]
    /\ sends[u] <= attempt[u] + 1

(* While another attempt may follow, every acceptance went unanswered. *)
Acceptance(u) ==
    /\ lost[u] <= accepted[u] /\ accepted[u] <= sends[u]
    /\ accepted[u] <= lost[u] + 1
    /\ pc[u] = "sent" => accepted[u] < sends[u]
    /\ pc[u] \in {"none", "start", "attempt", "sent", "wait"} =>
          accepted[u] = lost[u]
    /\ pc[u] = "judge" /\ outcome[u] # "ok" => accepted[u] = lost[u]

(* How far the outcome has got: to the breaker, then to the map. *)
Telling(u) ==
    /\ pc[u] \in {"judge", "record", "store", "stored", "done"} =>
          outcome[u] # "none"
    /\ outcome[u] = "open" => pc[u] \in {"store", "stored", "done"}
    /\ pc[u] \in {"none", "start", "attempt", "sent", "judge", "wait",
                  "record"} =>
          told[u] = <<>> /\ results[u] = "none"
    /\ pc[u] = "store" => told[u] = Expected(outcome[u]) /\ results[u] = "none"
    /\ pc[u] \in {"stored", "done"} =>
          told[u] = Expected(outcome[u]) /\ results[u] = outcome[u]

(* A goroutine that waits, or is about to send, keeps its distance. *)
Spacing(u) ==
    /\ sentAt[u] <= clock
    /\ pc[u] = "wait" => sentAt[u] + Gap <= wake[u]
    /\ pc[u] = "attempt" /\ sends[u] > 0 => sentAt[u] + Gap <= clock

Good(u) == Attempts(u) /\ Acceptance(u) /\ Telling(u) /\ Spacing(u)

(* the goroutines the WaitGroup counts *)
Working == {u \in Url : pc[u] \notin {"none", "done"}}

Waits == /\ IsFiniteSet(Working)
         /\ wg = Cardinality(Working)
         /\ returned => \A u \in Url : pc[u] = "done"

CallInv == TypeOK /\ (\A u \in Url : Good(u)) /\ Waits

(* what a step of another goroutine leaves alone *)
SameAt(v) ==
    /\ pc'[v] = pc[v] /\ attempt'[v] = attempt[v] /\ sentAt'[v] = sentAt[v]
    /\ wake'[v] = wake[v] /\ outcome'[v] = outcome[v]
    /\ results'[v] = results[v] /\ told'[v] = told[v]
    /\ sends'[v] = sends[v] /\ accepted'[v] = accepted[v]
    /\ lost'[v] = lost[v]

-----------------------------------------------------------------------------
(* Delays *)

(* A set of k elements has 2^k subsets, the empty one among them. *)
LEMMA PowerPositive ==
  ASSUME NEW k \in Nat
  PROVE  2^k \in Nat /\ 2^k >= 1
  <1>1. IsFiniteSet(1..k) /\ Cardinality(1..k) = k
    BY FS_Interval
  <1>2. /\ IsFiniteSet(SUBSET (1..k))
        /\ Cardinality(SUBSET (1..k)) = 2^k
    BY <1>1, FS_SUBSET
  <1>3. Cardinality(SUBSET (1..k)) \in Nat
    BY <1>2, FS_CardinalityType
  <1>4. Cardinality(SUBSET (1..k)) # 0
    <2>1. SUBSET (1..k) # {}
      OBVIOUS
    <2> QED
      BY <1>2, <2>1, FS_EmptySet
  <1> QED
    BY <1>2, <1>3, <1>4

(* NextDelay never returns less than the base delay or the maximum. *)
LEMMA DelaysLongEnough ==
  ASSUME NEW n \in Nat \ {0}, NEW d \in DelayBefore(n)
  PROVE  d \in Nat /\ d >= Gap
  <1> DEFINE p == RetryStrategy
             nominal == Backoff(p, n)
  <1>1. /\ p.BaseDelay \in Nat /\ p.BaseDelay > 0
        /\ p.MaxDelay \in Nat /\ p.MaxDelay > 0
    BY ForwarderAssumption DEF Policy
  <1>2. /\ p.BaseDelay * 2^(n - 1) \in Nat
        /\ p.BaseDelay * 2^(n - 1) >= p.BaseDelay
    <2>1. n - 1 \in Nat
      OBVIOUS
    <2>2. 2^(n - 1) \in Nat /\ 2^(n - 1) >= 1
      BY <2>1, PowerPositive
    <2>3. \A b, x \in Nat : x >= 1 => b * x \in Nat /\ b * x >= b
      OBVIOUS
    <2> QED
      BY <1>1, <2>2, <2>3
  <1>3. nominal \in Nat /\ nominal >= Gap
    BY <1>1, <1>2 DEF Backoff, Exact, Gap, Smaller
  <1>4. Gap <= p.BaseDelay /\ Gap \in Nat
    BY <1>1 DEF Gap, Smaller
  <1> HIDE DEF nominal
  <1>5. d = nominal \/ d \in Jittered(p, nominal)
    BY DEF DelayBefore, NextDelay, nominal
  <1>6. CASE d \in Jittered(p, nominal)
    <2>1. PICK j \in -Variance(nominal) .. Variance(nominal) - 1 :
             d = IF nominal + j < p.BaseDelay THEN p.BaseDelay ELSE nominal + j
      BY <1>6 DEF Jittered, Exact
    <2>2. j \in Int
      BY <1>3 DEF Variance
    <2> QED
      BY <1>1, <1>3, <1>4, <2>1, <2>2
  <1> QED
    BY <1>3, <1>5, <1>6

-----------------------------------------------------------------------------
(* Steps *)

LEMMA ClockNatural ==
  ASSUME TypeOK
  PROVE  clock \in Nat
  <1>1. MaxTime \in Nat /\ clock \in 0..MaxTime
    BY ForwarderAssumption DEF TypeOK
  <1> QED
    BY <1>1

LEMMA InitCall == Init => CallInv
  <1> SUFFICES ASSUME Init
               PROVE  CallInv
    OBVIOUS
  <1>1. TypeOK
    <2>1. /\ 0 \in 0..MaxTime /\ 0 \in 0..CtxDeadline
          /\ 0 \in 0..RetryStrategy.MaxRetries
      BY ForwarderAssumption DEF Policy
    <2>2. /\ deadline \in [Url -> 0..CtxDeadline]
          /\ attempt \in [Url -> 0..RetryStrategy.MaxRetries]
      BY <2>1 DEF Init
    <2>3. told \in [Url -> Seq({"success", "failure"})]
      BY DEF Init
    <2>4. cancelledAt \in 0..MaxTime + 1
      BY ForwarderAssumption DEF Init
    <2> QED
      BY <2>1, <2>2, <2>3, <2>4 DEF Init, TypeOK
  <1>2. \A u \in Url : Good(u)
    BY DEF Init, Good, Attempts, Acceptance, Telling, Spacing
  <1>3. Working = {}
    BY DEF Init, Working
  <1> QED
    BY <1>1, <1>2, <1>3, FS_EmptySet DEF Init, CallInv, Waits

(* What holds of a URL still does after a step of another. *)
LEMMA GoodStays ==
  ASSUME TypeOK, NEW v \in Url, Good(v), SameAt(v),
         clock' \in Nat, clock' >= clock
  PROVE  Good(v)'
  <1>1. Attempts(v)' /\ Acceptance(v)' /\ Telling(v)'
    BY DEF Good, Attempts, Acceptance, Telling, SameAt
  <1>2. Spacing(v)'
    <2>1. sentAt[v] \in Nat /\ clock \in Nat
      BY ForwarderAssumption DEF TypeOK
    <2>2. Gap \in Nat
      BY ForwarderAssumption DEF Gap, Smaller, Policy
    <2> QED
      BY <2>1, <2>2 DEF Good, Spacing, SameAt, Gap
  <1> QED
    BY <1>1, <1>2 DEF Good

(* A step of the goroutine of u, put together. *)
LEMMA StepOf ==
  ASSUME CallInv, NEW u \in Url, TypeOK', Good(u)', Waits', clock' = clock,
         \A v \in Url : v # u => SameAt(v)
  PROVE  CallInv'
  <1>1. TypeOK /\ clock' \in Nat /\ clock' >= clock
    BY ClockNatural DEF CallInv
  <1>2. \A v \in Url : v # u => Good(v)'
    BY <1>1, GoodStays DEF CallInv
  <1> QED
    BY <1>2 DEF CallInv

(* A goroutine on its way keeps being counted. *)
LEMMA WaitsOn ==
  ASSUME CallInv, NEW u \in Url, NEW l, Goto(u, l), l \notin {"none", "done"},
         pc[u] \notin {"none", "done"}, UNCHANGED <<wg, returned>>
  PROVE  Waits'
  <1>1. Working' = Working
    BY DEF Goto, Working, CallInv, TypeOK
  <1>2. ~returned
    BY DEF CallInv, Waits
  <1> QED
    BY <1>1, <1>2 DEF CallInv, Waits

LEMMA LaunchInv ==
  ASSUME CallInv, NEW u \in Url, Launch(u)
  PROVE  CallInv'
  <1> USE DEF Launch, Goto, timing, call, history
  <1>1. TypeOK'
    BY DEF CallInv, TypeOK
  <1>2. Good(u)'
    BY DEF CallInv, TypeOK, Good, Attempts, Acceptance, Telling, Spacing
  <1>3. Waits'
    <2>1. Working' = Working \cup {u} /\ u \notin Working
      BY DEF Working, CallInv, TypeOK
    <2>2. IsFiniteSet(Working') /\ Cardinality(Working') = wg + 1
      BY <2>1, FS_AddElement DEF CallInv, Waits
    <2> QED
      BY <2>2 DEF CallInv, Waits
  <1>4. \A v \in Url : v # u => SameAt(v)
    BY DEF SameAt, CallInv, TypeOK
  <1> QED
    BY <1>1, <1>2, <1>3, <1>4, StepOf

LEMMA DoneInv ==
  ASSUME CallInv, NEW u \in Url, Done(u)
  PROVE  CallInv'
  <1> USE DEF Done, Goto, timing, call, history
  <1>1. Working' = Working \ {u} /\ u \in Working
    BY DEF Working, CallInv, TypeOK
  <1>2. /\ IsFiniteSet(Working') /\ Cardinality(Working') = wg - 1
        /\ Cardinality(Working') \in Nat
    BY <1>1, FS_RemoveElement, FS_CardinalityType DEF CallInv, Waits
  <1>3. TypeOK'
    BY <1>2 DEF CallInv, TypeOK
  <1>4. Good(u)'
    BY DEF CallInv, TypeOK, Good, Attempts, Acceptance, Telling, Spacing
  <1>5. Waits'
    BY <1>2 DEF CallInv, Waits
  <1>6. \A v \in Url : v # u => SameAt(v)
    BY DEF SameAt, CallInv, TypeOK
  <1> QED
    BY <1>3, <1>4, <1>5, <1>6, StepOf

LEMMA RefuseInv ==
  ASSUME CallInv, NEW u \in Url, Refuse(u)
  PROVE  CallInv'
  <1> USE DEF Refuse, ComeTo, Goto, timing, call, shared, history
  <1>1. TypeOK'
    BY DEF CallInv, TypeOK, Outcome
  <1>2. Good(u)'
    BY DEF CallInv, TypeOK, Good, Attempts, Acceptance, Telling, Spacing,
           Expected
  <1>3. Waits'
    BY WaitsOn
  <1>4. \A v \in Url : v # u => SameAt(v)
    BY DEF SameAt, CallInv, TypeOK
  <1> QED
    BY <1>1, <1>2, <1>3, <1>4, StepOf

LEMMA AllowInv ==
  ASSUME CallInv, NEW u \in Url, Allow(u)
  PROVE  CallInv'
  <1> USE DEF Allow, Goto, timing, shared, history
  <1>1. TypeOK'
    <2>1. clock \in Nat
      BY ClockNatural DEF CallInv
    <2>2. Smaller(CtxDeadline, clock + WebhookTimeout) \in 0..CtxDeadline
      BY <2>1, ForwarderAssumption DEF Smaller
    <2>3. deadline' \in [Url -> 0..CtxDeadline]
      BY <2>2 DEF CallInv, TypeOK
    <2> QED
      BY <2>3, SMTT(30) DEF CallInv, TypeOK
  <1>2. Good(u)'
    <2>1. Good(u) /\ pc'[u] = "attempt"
      BY DEF CallInv, TypeOK
    <2>2. (Attempts(u) /\ Acceptance(u) /\ Telling(u))'
      BY <2>1 DEF Good, Attempts, Acceptance, Telling
    <2>3. Spacing(u)'
      BY <2>1 DEF Good, Attempts, Spacing
    <2> QED
      BY <2>2, <2>3 DEF Good
  <1>3. Waits'
    BY WaitsOn
  <1>4. \A v \in Url : v # u => SameAt(v)
    BY DEF SameAt, CallInv, TypeOK
  <1> QED
    BY <1>1, <1>2, <1>3, <1>4, StepOf

(* client.Do, from the attempt to its end *)

LEMMA DoNotSendInv ==
  ASSUME CallInv, NEW u \in Url, DoNotSend(u)
  PROVE  CallInv'
  <1> USE DEF DoNotSend, ComeTo, Goto, timing, call, shared, history
  <1>1. CtxError(u) \in {"timeout", "network"}
    BY DEF CtxError
  <1>2. TypeOK'
    BY <1>1 DEF CallInv, TypeOK, Outcome
  <1>3. Good(u)'
    BY <1>1 DEF CallInv, TypeOK, Good, Attempts, Acceptance, Telling, Spacing
  <1>4. Waits'
    BY WaitsOn
  <1>5. \A v \in Url : v # u => SameAt(v)
    BY DEF SameAt, CallInv, TypeOK
  <1> QED
    BY <1>2, <1>3, <1>4, <1>5, StepOf

LEMMA SendInv ==
  ASSUME CallInv, NEW u \in Url, Send(u)
  PROVE  CallInv'
  <1> USE DEF Send, Goto, timing, shared
  <1>1. TypeOK'
    <2>1. clock \in Nat
      BY ClockNatural DEF CallInv
    <2>2. sentAt' \in [Url -> Nat] /\ sends' \in [Url -> Nat]
      BY <2>1 DEF CallInv, TypeOK
    <2> QED
      BY <2>2, SMTT(30) DEF CallInv, TypeOK
  <1>2. Good(u)'
    <2>1. /\ Good(u) /\ pc'[u] = "sent" /\ sends'[u] = sends[u] + 1
          /\ sentAt'[u] = clock /\ sends[u] \in Nat /\ attempt[u] \in Nat
          /\ accepted[u] \in Nat /\ clock \in Nat
      BY ClockNatural DEF CallInv, TypeOK
    <2>2. (Attempts(u) /\ Acceptance(u) /\ Telling(u))'
      BY <2>1 DEF Good, Attempts, Acceptance, Telling
    <2>3. Spacing(u)'
      BY <2>1 DEF Spacing
    <2> QED
      BY <2>2, <2>3 DEF Good
  <1>3. Waits'
    BY WaitsOn
  <1>4. \A v \in Url : v # u => SameAt(v)
    BY DEF SameAt, CallInv, TypeOK
  <1> QED
    BY <1>1, <1>2, <1>3, <1>4, StepOf

LEMMA AnswerInv ==
  ASSUME CallInv, NEW u \in Url, NEW o \in {"ok", "client", "server"},
         Answer(u, o)
  PROVE  CallInv'
  <1> USE DEF Answer, ComeTo, Goto, timing, call, shared
  <1>1. TypeOK'
    BY DEF CallInv, TypeOK, Outcome
  <1>2. Good(u)'
    BY DEF CallInv, TypeOK, Good, Attempts, Acceptance, Telling, Spacing
  <1>3. Waits'
    BY WaitsOn
  <1>4. \A v \in Url : v # u => SameAt(v)
    BY DEF SameAt, CallInv, TypeOK
  <1> QED
    BY <1>1, <1>2, <1>3, <1>4, StepOf

LEMMA NoAnswerInv ==
  ASSUME CallInv, NEW u \in Url, NEW o \in {"timeout", "network"},
         NoAnswer(u, o)
  PROVE  CallInv'
  <1> USE DEF ComeTo, Goto, timing, call, shared
  <1>1. PICK n \in {0, 1} :
           /\ accepted' = [accepted EXCEPT ![u] = @ + n]
           /\ lost' = [lost EXCEPT ![u] = @ + n]
    BY DEF NoAnswer
  <1>2. /\ pc[u] = "sent" /\ ComeTo(u, o, "judge")
        /\ UNCHANGED <<timing, call, shared, told, sends>>
    BY DEF NoAnswer
  <1>3. TypeOK'
    <2>1. accepted' \in [Url -> Nat] /\ lost' \in [Url -> Nat]
      <3>1. accepted \in [Url -> Nat] /\ lost \in [Url -> Nat] /\ n \in Nat
        BY DEF CallInv, TypeOK
      <3> QED
        BY <1>1, <3>1
    <2>2. outcome' \in [Url -> Outcome \cup {"none"}]
      BY <1>2 DEF CallInv, TypeOK, Outcome
    <2> QED
      BY <1>2, <2>1, <2>2 DEF CallInv, TypeOK
  <1>4. Good(u)'
    BY <1>1, <1>2
       DEF CallInv, TypeOK, Good, Attempts, Acceptance, Telling, Spacing
  <1>5. Waits'
    BY <1>2, WaitsOn
  <1>6. \A v \in Url : v # u => SameAt(v)
    BY <1>1, <1>2 DEF SameAt, CallInv, TypeOK
  <1> QED
    BY <1>2, <1>3, <1>4, <1>5, <1>6, StepOf

(* the loop of forwardToWebhookWithRetry *)

LEMMA RetryInv ==
  ASSUME CallInv, NEW u \in Url, Retry(u)
  PROVE  CallInv'
  <1> USE DEF Retry, Goto, timing, shared, history
  <1>1. /\ attempt[u] < RetryStrategy.MaxRetries
        /\ outcome[u] # "ok" /\ outcome[u] # "open"
    BY DEF TryAgain, ShouldRetry, IsRetryable
  <1>2. /\ attempt[u] \in Nat /\ RetryStrategy.MaxRetries \in Nat
        /\ attempt' = [attempt EXCEPT ![u] = attempt[u] + 1]
        /\ attempt'[u] = attempt[u] + 1
    BY ForwarderAssumption DEF CallInv, TypeOK, Policy
  <1>3. PICK d \in DelayBefore(attempt[u] + 1) :
           wake' = [wake EXCEPT ![u] = clock + d]
    BY <1>2
  <1>4. d \in Nat /\ d >= Gap
    BY <1>2, DelaysLongEnough
  <1>5. TypeOK'
    <2>1. clock + d \in Nat
      BY <1>4, ForwarderAssumption DEF CallInv, TypeOK
    <2>2. wake' \in [Url -> Nat]
      BY <1>3, <2>1 DEF CallInv, TypeOK
    <2>3. attempt[u] + 1 \in 0..RetryStrategy.MaxRetries
      BY <1>1, <1>2
    <2>4. attempt' \in [Url -> 0..RetryStrategy.MaxRetries]
      BY <1>2, <2>3 DEF CallInv, TypeOK
    <2> QED
      BY <2>2, <2>4 DEF CallInv, TypeOK
  <1>6. Good(u)'
    <2>1. (Attempts(u) /\ Acceptance(u) /\ Telling(u))'
      BY <1>1, <1>2 DEF CallInv, TypeOK, Good, Attempts, Acceptance, Telling
    <2>2. Spacing(u)'
      <3>1. wake'[u] = clock + d /\ clock \in Nat /\ sentAt[u] \in Nat
        BY <1>3 DEF CallInv, TypeOK
      <3>2. Gap \in Nat /\ Gap' = Gap
        BY ForwarderAssumption DEF Gap, Smaller, Policy
      <3>3. sentAt[u] <= clock /\ pc'[u] = "wait"
        BY DEF CallInv, TypeOK, Good, Spacing
      <3>4. sentAt'[u] = sentAt[u] /\ clock' = clock
        OBVIOUS
      <3>5. sentAt[u] + Gap <= wake'[u]
        BY <1>4, <3>1, <3>2, <3>3
      <3> QED
        BY <3>2, <3>3, <3>4, <3>5 DEF Spacing
    <2> QED
      <3> HIDE DEF Retry
      <3> QED
        BY <2>1, <2>2 DEF Good
  <1>7. Waits'
    <2>1. Goto(u, "wait") /\ pc[u] = "judge" /\ UNCHANGED <<wg, returned>>
      OBVIOUS
    <2> QED
      BY <2>1, WaitsOn
  <1>8. \A v \in Url : v # u => SameAt(v)
    BY <1>3 DEF SameAt, CallInv, TypeOK
  <1> QED
    BY <1>5, <1>6, <1>7, <1>8, StepOf

LEMMA SettleInv ==
  ASSUME CallInv, NEW u \in Url, Settle(u)
  PROVE  CallInv'
  <1> USE DEF Settle, Goto, timing, call, shared, history
  <1>1. TypeOK'
    BY DEF CallInv, TypeOK
  <1>2. Good(u)'
    BY DEF CallInv, TypeOK, Good, Attempts, Acceptance, Telling, Spacing
  <1>3. Waits'
    BY WaitsOn
  <1>4. \A v \in Url : v # u => SameAt(v)
    BY DEF SameAt, CallInv, TypeOK
  <1> QED
    BY <1>1, <1>2, <1>3, <1>4, StepOf

LEMMA WakeInv ==
  ASSUME CallInv, NEW u \in Url, Wake(u)
  PROVE  CallInv'
  <1> USE DEF Wake, Goto, timing, call, shared, history
  <1>1. TypeOK'
    BY DEF CallInv, TypeOK
  <1>2. Good(u)'
    <2>1. Gap \in Nat /\ Gap' = Gap
      BY ForwarderAssumption DEF Gap, Smaller, Policy
    <2>2. (Attempts(u) /\ Acceptance(u) /\ Telling(u))'
      BY DEF CallInv, TypeOK, Good, Attempts, Acceptance, Telling
    <2>3. Spacing(u)'
      BY <2>1 DEF CallInv, TypeOK, Good, Spacing
    <2> QED
      BY <2>2, <2>3 DEF Good
  <1>3. Waits'
    BY WaitsOn
  <1>4. \A v \in Url : v # u => SameAt(v)
    BY DEF SameAt, CallInv, TypeOK
  <1> QED
    BY <1>1, <1>2, <1>3, <1>4, StepOf

LEMMA ExpireInv ==
  ASSUME CallInv, NEW u \in Url, Expire(u)
  PROVE  CallInv'
  <1> USE DEF Expire, ComeTo, Goto, timing, call, shared, history
  <1>1. TypeOK'
    BY DEF CallInv, TypeOK, Outcome
  <1>2. Good(u)'
    BY DEF CallInv, TypeOK, Good, Attempts, Acceptance, Telling, Spacing
  <1>3. Waits'
    BY WaitsOn
  <1>4. \A v \in Url : v # u => SameAt(v)
    BY DEF SameAt, CallInv, TypeOK
  <1> QED
    BY <1>1, <1>2, <1>3, <1>4, StepOf

(* the end of the goroutine *)

LEMMA RecordInv ==
  ASSUME CallInv, NEW u \in Url, Record(u)
  PROVE  CallInv'
  <1> USE DEF Record, Goto, timing, call, shared
  <1>1. Verdict(u) \in {"success", "failure"}
    BY DEF Verdict
  <1>2. TypeOK'
    BY <1>1 DEF CallInv, TypeOK
  <1>3. told'[u] = Expected(outcome[u])
    <2>1. told[u] = <<>> /\ outcome[u] # "open"
      BY DEF CallInv, Good, Telling
    <2>2. told'[u] = <<Verdict(u)>>
      BY <2>1 DEF CallInv, TypeOK
    <2> QED
      BY <2>1, <2>2 DEF Verdict, Expected
  <1>4. Good(u)'
    BY <1>3 DEF CallInv, TypeOK, Good, Attempts, Acceptance, Telling, Spacing
  <1>5. Waits'
    BY WaitsOn
  <1>6. \A v \in Url : v # u => SameAt(v)
    BY DEF SameAt, CallInv, TypeOK
  <1> QED
    BY <1>2, <1>4, <1>5, <1>6, StepOf

LEMMA StoreInv ==
  ASSUME CallInv, NEW u \in Url, Store(u)
  PROVE  CallInv'
  <1> USE DEF Store, Goto, timing, call, history
  <1>1. TypeOK'
    BY DEF CallInv, TypeOK
  <1>2. Good(u)'
    BY DEF CallInv, TypeOK, Good, Attempts, Acceptance, Telling, Spacing
  <1>3. Waits'
    BY WaitsOn
  <1>4. \A v \in Url : v # u => SameAt(v)
    BY DEF SameAt, CallInv, TypeOK
  <1> QED
    BY <1>1, <1>2, <1>3, <1>4, StepOf

(* the environment and the caller *)

LEMMA OtherSteps ==
  ASSUME CallInv, Tick \/ Cancel \/ Return \/ Terminated \/ UNCHANGED vars
  PROVE  CallInv'
  <1> USE DEF timing, call, shared, history, vars
  <1>1. UNCHANGED <<pc, call, outcome, results, wg, history>>
    BY DEF Tick, Cancel, Return, Terminated
  <1>a. cancelledAt' \in 0..MaxTime + 1
    <2>1. cancelledAt' \in {cancelledAt, clock}
      BY DEF Tick, Cancel, Return, Terminated
    <2> QED
      BY <2>1, ForwarderAssumption DEF CallInv, TypeOK
  <1>b. returned' \in BOOLEAN
    BY DEF Tick, Cancel, Return, Terminated, CallInv, TypeOK
  <1>c. clock' \in 0..MaxTime /\ clock' \in Nat /\ clock' >= clock
    <2>1. clock \in Nat /\ clock \in 0..MaxTime /\ MaxTime \in Nat
      BY ClockNatural, ForwarderAssumption DEF CallInv, TypeOK
    <2>2. clock' = clock \/ (clock < MaxTime /\ clock' = clock + 1)
      BY DEF Tick, Cancel, Return, Terminated
    <2> QED
      BY <2>1, <2>2
  <1>2. TypeOK'
    BY <1>1, <1>a, <1>b, <1>c DEF CallInv, TypeOK
  <1>3. \A v \in Url : Good(v)'
    <2>1. \A v \in Url : SameAt(v)
      BY <1>1 DEF SameAt
    <2> QED
      BY <1>c, <2>1, GoodStays DEF CallInv
  <1>4. Working' = Working
    BY <1>1 DEF Working
  <1>5. Waits'
    <2>1. CASE returned' = returned
      BY <1>1, <1>4, <2>1 DEF CallInv, Waits
    <2>2. CASE Return
      <3>1. Working = {}
        BY <2>2, FS_EmptySet DEF Return, CallInv, Waits
      <3>2. \A u \in Url : pc[u] = "done"
        BY <2>2, <3>1 DEF Return, Working
      <3> QED
        BY <1>1, <1>4, <3>2 DEF CallInv, Waits
    <2> QED
      BY <2>1, <2>2 DEF Tick, Cancel, Terminated
  <1> QED
    BY <1>2, <1>3, <1>5 DEF CallInv

LEMMA NextCall == CallInv /\ [Next]_vars => CallInv'
  <1> SUFFICES ASSUME CallInv, [Next]_vars
               PROVE  CallInv'
    OBVIOUS
  <1>1. CASE Tick \/ Cancel \/ Return \/ Terminated \/ UNCHANGED vars
    BY <1>1, OtherSteps
  <1>2. ASSUME NEW u \in Url, Launch(u) \/ Refuse(u) \/ Allow(u) \/ Done(u)
        PROVE  CallInv'
    BY <1>2, LaunchInv, RefuseInv, AllowInv, DoneInv
  <1>3. ASSUME NEW u \in Url, DoNotSend(u) \/ Send(u) \/ GiveUp(u)
        PROVE  CallInv'
    <2>1. CASE GiveUp(u)
      <3>1. PICK o \in {"timeout", "network"} : NoAnswer(u, o)
        BY <2>1 DEF GiveUp, CtxError
      <3> QED
        BY <3>1, NoAnswerInv
    <2> QED
      BY <1>3, <2>1, DoNotSendInv, SendInv
  <1>4. ASSUME NEW u \in Url, Retry(u) \/ Settle(u) \/ Wake(u) \/ Expire(u)
        PROVE  CallInv'
    BY <1>4, RetryInv, SettleInv, WakeInv, ExpireInv
  <1>5. ASSUME NEW u \in Url, Record(u) \/ Store(u)
        PROVE  CallInv'
    BY <1>5, RecordInv, StoreInv
  <1>6. ASSUME NEW u \in Url, Webhook(u)
        PROVE  CallInv'
    BY <1>6, AnswerInv, NoAnswerInv DEF Webhook
  <1> QED
    BY <1>1, <1>2, <1>3, <1>4, <1>5, <1>6 DEF Next, Step

LEMMA InvariantCall == Spec => []CallInv
  BY InitCall, NextCall, PTL DEF Spec

-----------------------------------------------------------------------------
(* The map that ForwardToWebhooks returns has a result for every URL, the  *)
(* one its goroutine ended with, and the breaker was told the same, once,  *)
(* or nothing if it had refused the request.                               *)
THEOREM AgreeingOutcomes == Spec => []OutcomesAgree
  <1>1. CallInv => OutcomesAgree
    <2> SUFFICES ASSUME CallInv
                 PROVE  OutcomesAgree
      OBVIOUS
    <2>1. TypeOK /\ SendsCounted
      BY DEF CallInv, SendsCounted, Good, Attempts, Acceptance
    <2>2. AllAnswered
      BY DEF AllAnswered, CallInv, Waits, Good, Telling
    <2>3. BreakerToldOnce
      <3> SUFFICES ASSUME NEW u \in Url, results[u] # "none"
                   PROVE  told[u] = Expected(results[u])
        BY DEF BreakerToldOnce, Expected
      <3>1. pc[u] \in {"stored", "done"}
        BY DEF CallInv, TypeOK, Good, Telling
      <3> QED
        BY <3>1 DEF CallInv, Good, Telling
    <2> QED
      BY <2>1, <2>2, <2>3 DEF OutcomesAgree
  <1> QED
    BY <1>1, InvariantCall, PTL

(* forwardToWebhookWithRetry repeats no delivery that was confirmed: one   *)
(* acceptance more than answers got lost, at most.                         *)
THEOREM NoNeedlessDuplicate == Spec => []DuplicatesOnlyAfterLoss
  <1>1. CallInv => DuplicatesOnlyAfterLoss
    BY DEF CallInv, DuplicatesOnlyAfterLoss, Good, Acceptance
  <1> QED
    BY <1>1, InvariantCall, PTL

(* Two requests for a URL are the base delay apart, or the maximum, in any *)
(* policy, with jitter and without.                                        *)
THEOREM SpacedRetries == Spec => RetriesSpaced
  <1>1. ASSUME CallInv, [Next]_vars, NEW u \in Url,
               sends[u] > 0, sends'[u] > sends[u]
        PROVE  clock >= sentAt[u] + Gap
    <2>1. sends[u] \in Nat
      BY <1>1 DEF CallInv, TypeOK
    <2>2. sends'[u] # sends[u]
      BY <1>1, <2>1
    <2>3. PICK v \in Url : Send(v)
      BY <1>1, <2>2 DEF Next, Step, Webhook, vars, timing, call, shared,
         history, Tick, Cancel, Return, Terminated, Launch, Refuse, Allow,
         DoNotSend, GiveUp, Answer, NoAnswer, Retry, Settle, Wake, Expire,
         Record, Store, Done
    <2>4. v = u
      BY <1>1, <2>2, <2>3 DEF Send, CallInv, TypeOK
    <2>5. pc[u] = "attempt"
      BY <2>3, <2>4 DEF Send
    <2>6. sentAt[u] + Gap <= clock
      BY <1>1, <2>5 DEF CallInv, Good, Spacing
    <2>7. sentAt[u] \in Nat /\ clock \in Nat /\ Gap \in Nat
      BY <1>1, ForwarderAssumption DEF CallInv, TypeOK, Gap, Smaller, Policy
    <2> QED
      BY <2>6, <2>7
  <1>2. CallInv /\ [Next]_vars =>
           [\A u \in Url : sends[u] > 0 /\ sends'[u] > sends[u] =>
               clock >= sentAt[u] + Smaller(RetryStrategy.BaseDelay,
                                            RetryStrategy.MaxDelay)]_vars
    BY <1>1 DEF Gap
  <1> QED
    BY <1>2, InvariantCall, PTL DEF Spec, RetriesSpaced
=============================================================================
