-------------------------- MODULE WebhookForwarder --------------------------
(***************************************************************************)
(* One call of ForwardToWebhooks (internal/forwarder/webhook_forwarder.go):*)
(* a goroutine for each URL asks the circuit breaker, makes its attempts   *)
(* with the waits between them (forwardToWebhookWithRetry), reports to the *)
(* breaker and leaves its result in the shared map, and the caller waits   *)
(* for all of them. The caller's context may end at any time, by its       *)
(* deadline or by being cancelled.                                         *)
(*                                                                         *)
(* The breaker, specified in CircuitBreaker, may here allow or refuse any  *)
(* request. Webhooks are the environment: they answer, fail or stay silent *)
(* as they like, and may have taken an event whose answer got lost.        *)
(***************************************************************************)
EXTENDS Integers, Sequences

(* No wait under settings within the limits of Validate fills the bits of  *)
(* a time.Duration: Bridge has the others, and this module the numbers.    *)
Exact(n) == n

INSTANCE RetryPolicy WITH Wrapped <- Exact

CONSTANTS
    Url,             \* webhookURLs, without duplicates
    RetryStrategy,   \* the policy, a record as in RetryPolicy
    CtxDeadline,     \* deadline of the caller's context
    WebhookTimeout,  \* config.WebhookTimeout
    RetryMargin,     \* the 5 s required by HasTimeForRetry
    ClientTimeout,   \* the 10 s timeout of the HTTP client
    MaxTime          \* bound on the clock, for model checking

ASSUME ForwarderAssumption ==
    /\ RetryStrategy \in Policy(Nat, Nat \ {0}, Nat \ {0}, BOOLEAN)
    /\ CtxDeadline \in Nat /\ WebhookTimeout \in Nat \ {0}
    /\ RetryMargin \in Nat /\ ClientTimeout \in Nat \ {0}
    /\ MaxTime \in Nat /\ CtxDeadline <= MaxTime

VARIABLES
    clock,      \* the time
    cancelledAt,\* when the caller's context was cancelled; after MaxTime
                \* when it was not
    pc,         \* pc[u]: where the goroutine of u is
    deadline,   \* deadline[u]: of webhookCtx
    attempt,    \* attempt[u]: the loop variable
    sentAt,     \* sentAt[u]: when the request in flight, or the last, left
    wake,       \* wake[u]: when the timer of WaitForRetry fires
    outcome,    \* outcome[u]: what the last attempt, or the wait, came to
    results,    \* results[u]: what the map holds for u, "none" at first
    wg,         \* the counter of the WaitGroup
    returned,   \* ForwardToWebhooks returned
    told,       \* history: told[u], what u's goroutine told the breaker
    sends,      \* history: sends[u], requests that left for u
    accepted,   \* history: accepted[u], requests that the webhook accepted
    lost        \* history: lost[u], those whose answer did not arrive

timing == <<clock, cancelledAt>>
call == <<deadline, attempt, sentAt, wake>>
shared == <<results, wg, returned>>
history == <<told, sends, accepted, lost>>
vars == <<timing, pc, call, outcome, shared, history>>

Smaller(a, b) == IF a < b THEN a ELSE b

Init ==
    /\ clock = 0 /\ cancelledAt = MaxTime + 1
    /\ pc = [u \in Url |-> "none"]
    /\ deadline = [u \in Url |-> 0] /\ attempt = [u \in Url |-> 0]
    /\ sentAt = [u \in Url |-> 0] /\ wake = [u \in Url |-> 0]
    /\ outcome = [u \in Url |-> "none"]
    /\ results = [u \in Url |-> "none"] /\ wg = 0 /\ returned = FALSE
    /\ told = [u \in Url |-> <<>>]
    /\ sends = [u \in Url |-> 0]
    /\ accepted = [u \in Url |-> 0] /\ lost = [u \in Url |-> 0]

Goto(u, l) == pc' = [pc EXCEPT ![u] = l]

(* An attempt, or a wait, of u is over. *)
ComeTo(u, o, l) == Goto(u, l) /\ outcome' = [outcome EXCEPT ![u] = o]

-----------------------------------------------------------------------------
(* The environment *)

Tick == /\ clock < MaxTime
        /\ clock' = clock + 1
        /\ UNCHANGED <<cancelledAt, pc, call, outcome, shared, history>>

cancelled == clock >= cancelledAt

(* The Lambda invocation the context belongs to is over. *)
Cancel == /\ ~cancelled
          /\ cancelledAt' = clock
          /\ UNCHANGED <<clock, pc, call, outcome, shared, history>>

(* Mutant of CtxDone: only the deadline ends webhookCtx. *)
DeadlineOnly(u) == clock >= deadline[u]

(* webhookCtx, derived from the caller's context, is done. *)
CtxDone(u) == cancelled \/ clock >= deadline[u]

(* when it was, or will be if nothing is cancelled *)
DoneAt(u) == Smaller(deadline[u], cancelledAt)

(* DeadlineExceeded is reported as ErrTimeout, Canceled as it is. *)
CtxError(u) == IF clock >= deadline[u] THEN "timeout" ELSE "network"

-----------------------------------------------------------------------------
(* The caller *)

(* wg.Add(1) and the go statement *)
Launch(u) ==
    /\ pc[u] = "none"
    /\ Goto(u, "start")
    /\ wg' = wg + 1
    /\ UNCHANGED <<timing, call, outcome, results, returned, history>>

(* wg.Wait returns, and ForwardToWebhooks with it. *)
Return ==
    /\ ~returned
    /\ \A u \in Url : pc[u] # "none"
    /\ wg = 0
    /\ returned' = TRUE
    /\ UNCHANGED <<timing, pc, call, outcome, results, wg, history>>

-----------------------------------------------------------------------------
(* The goroutine of u *)

(* AllowRequest is false: the result is ErrCircuitOpen, and the breaker is *)
(* told nothing.                                                           *)
Refuse(u) ==
    /\ pc[u] = "start"
    /\ ComeTo(u, "open", "store")
    /\ UNCHANGED <<timing, call, shared, history>>

Allow(u) ==
    /\ pc[u] = "start"
    /\ deadline' = [deadline EXCEPT
                       ![u] = Smaller(CtxDeadline, clock + WebhookTimeout)]
    /\ Goto(u, "attempt")
    /\ UNCHANGED <<timing, attempt, sentAt, wake, outcome, shared, history>>

(* client.Do sends nothing once the context is done. *)
DoNotSend(u) ==
    /\ pc[u] = "attempt" /\ CtxDone(u)
    /\ ComeTo(u, CtxError(u), "judge")
    /\ UNCHANGED <<timing, call, shared, history>>

Send(u) ==
    /\ pc[u] = "attempt" /\ ~CtxDone(u)
    /\ sentAt' = [sentAt EXCEPT ![u] = clock]
    /\ sends' = [sends EXCEPT ![u] = @ + 1]
    /\ Goto(u, "sent")
    /\ UNCHANGED <<timing, deadline, attempt, wake, outcome, shared, told,
                   accepted, lost>>

(* A status arrives. *)
Answer(u, o) ==
    /\ pc[u] = "sent"
    /\ ComeTo(u, o, "judge")
    /\ accepted' = [accepted EXCEPT ![u] = IF o = "ok" THEN @ + 1 ELSE @]
    /\ UNCHANGED <<timing, call, shared, told, sends, lost>>

(* The attempt fails without a status; the webhook may have accepted the   *)
(* event all the same.                                                     *)
NoAnswer(u, o) ==
    /\ pc[u] = "sent"
    /\ ComeTo(u, o, "judge")
    /\ \E n \in {0, 1} : /\ accepted' = [accepted EXCEPT ![u] = @ + n]
                         /\ lost' = [lost EXCEPT ![u] = @ + n]
    /\ UNCHANGED <<timing, call, shared, told, sends>>

(* Mutant of TimedOut: a request in flight has no time limit. *)
NeverTimedOut(u) == FALSE

TimedOut(u) == CtxDone(u) \/ clock >= sentAt[u] + ClientTimeout

(* client.Do gives up: the context is done or its own timeout has passed.  *)
GiveUp(u) == /\ TimedOut(u)
             /\ NoAnswer(u, IF CtxDone(u) THEN CtxError(u) ELSE "timeout")

(* HasTimeForRetry: webhookCtx always has a deadline. *)
HasTimeForRetry(u) == clock + RetryMargin <= deadline[u]

(* Mutant of TryAgain: whatever went wrong, or right, is tried again. *)
TryAgainAnyway(u) ==
    attempt[u] < RetryStrategy.MaxRetries /\ HasTimeForRetry(u)

TryAgain(u) == /\ ShouldRetry(RetryStrategy, attempt[u], outcome[u])
               /\ HasTimeForRetry(u)

(* Mutant of DelayBefore: the delay of the attempt before. *)
DelayOfLast(n) == NextDelay(RetryStrategy, n - 1)

(* the delays WaitForRetry may choose before attempt n *)
DelayBefore(n) == NextDelay(RetryStrategy, n)

(* The loop goes on to the next attempt and sets the timer of WaitForRetry.*)
Retry(u) ==
    /\ pc[u] = "judge" /\ TryAgain(u)
    /\ attempt' = [attempt EXCEPT ![u] = @ + 1]
    /\ \E d \in DelayBefore(attempt'[u]) :
          wake' = [wake EXCEPT ![u] = clock + d]
    /\ Goto(u, "wait")
    /\ UNCHANGED <<timing, deadline, sentAt, outcome, shared, history>>

(* forwardToWebhookWithRetry returns the result of the last attempt. *)
Settle(u) ==
    /\ pc[u] = "judge" /\ ~TryAgain(u)
    /\ Goto(u, "record")
    /\ UNCHANGED <<timing, call, outcome, shared, history>>

(* The goroutine waits in its select for the timer and the context: it     *)
(* takes the one that is ready first, and either when both are at once.    *)
Wake(u) ==
    /\ pc[u] = "wait" /\ clock >= wake[u] /\ wake[u] <= DoneAt(u)
    /\ Goto(u, "attempt")
    /\ UNCHANGED <<timing, call, outcome, shared, history>>

(* The context's error replaces the last result. *)
Expire(u) ==
    /\ pc[u] = "wait" /\ CtxDone(u) /\ DoneAt(u) <= wake[u]
    /\ ComeTo(u, "network", "record")
    /\ UNCHANGED <<timing, call, shared, history>>

Verdict(u) == IF outcome[u] = "ok" THEN "success" ELSE "failure"

(* Mutant of Record: a failure is reported, a success is not. *)
RecordFailuresOnly(u) ==
    /\ pc[u] = "record"
    /\ told' = IF outcome[u] = "ok" THEN told
               ELSE [told EXCEPT ![u] = Append(@, Verdict(u))]
    /\ Goto(u, "store")
    /\ UNCHANGED <<timing, call, outcome, shared, sends, accepted, lost>>

(* RecordFailure or RecordSuccess *)
Record(u) ==
    /\ pc[u] = "record"
    /\ told' = [told EXCEPT ![u] = Append(@, Verdict(u))]
    /\ Goto(u, "store")
    /\ UNCHANGED <<timing, call, outcome, shared, sends, accepted, lost>>

(* results[webhookURL] = result, under mu *)
Store(u) ==
    /\ pc[u] = "store"
    /\ results' = [results EXCEPT ![u] = outcome[u]]
    /\ Goto(u, "stored")
    /\ UNCHANGED <<timing, call, outcome, wg, returned, history>>

(* the deferred wg.Done *)
Done(u) ==
    /\ pc[u] = "stored"
    /\ wg' = wg - 1
    /\ Goto(u, "done")
    /\ UNCHANGED <<timing, call, outcome, results, returned, history>>

(* what the program does on its own, with no webhook's help *)
Step(u) == \/ Launch(u) \/ Refuse(u) \/ Allow(u) \/ DoNotSend(u) \/ Send(u)
           \/ GiveUp(u) \/ Retry(u) \/ Settle(u) \/ Wake(u) \/ Expire(u)
           \/ Record(u) \/ Store(u) \/ Done(u)

Webhook(u) == \/ \E o \in {"ok", "client", "server"} : Answer(u, o)
              \/ NoAnswer(u, "network")

Terminated == returned /\ UNCHANGED vars

Next == \/ Tick \/ Cancel \/ Return \/ Terminated
        \/ \E u \in Url : Step(u) \/ Webhook(u)

Spec == Init /\ [][Next]_vars

(* Goroutines that can move are scheduled, timers that are due fire and    *)
(* contexts that are done are noticed. Nothing is assumed of webhooks, of  *)
(* the clock, or of the caller cancelling.                                 *)
Fairness == WF_vars(Return) /\ \A u \in Url : WF_vars(Step(u))

FairSpec == Spec /\ Fairness

-----------------------------------------------------------------------------
TypeOK ==
    /\ clock \in 0..MaxTime /\ cancelledAt \in 0..MaxTime + 1
    /\ returned \in BOOLEAN
    /\ pc \in [Url -> {"none", "start", "attempt", "sent", "judge", "wait",
                       "record", "store", "stored", "done"}]
    /\ deadline \in [Url -> 0..CtxDeadline]
    /\ attempt \in [Url -> 0..RetryStrategy.MaxRetries]
    /\ sentAt \in [Url -> Nat] /\ wake \in [Url -> Nat]
    /\ outcome \in [Url -> Outcome \cup {"none"}]
    /\ results \in [Url -> Outcome \cup {"none"}]
    /\ wg \in Nat
    /\ told \in [Url -> Seq({"success", "failure"})]
    /\ sends \in [Url -> Nat] /\ accepted \in [Url -> Nat]
    /\ lost \in [Url -> Nat]

(* No request leaves that no attempt accounts for. *)
SendsCounted ==
    \A u \in Url : /\ sends[u] <= attempt[u] + 1
                   /\ accepted[u] <= sends[u] /\ lost[u] <= accepted[u]

(* When the call returns, the map holds a result for every URL, and the    *)
(* result is the one its goroutine ended with: the WaitGroup covers the    *)
(* store, on the path of a refused request too.                            *)
AllAnswered == returned => \A u \in Url : /\ results[u] # "none"
                                          /\ results[u] = outcome[u]

(* The breaker counts calls and not attempts: by the time a result can be  *)
(* seen, the breaker was told of it exactly once and said the same, and    *)
(* was told nothing of a request that it refused.                          *)
BreakerToldOnce ==
    \A u \in Url : results[u] # "none" =>
        told[u] = CASE results[u] = "open" -> <<>>
                    [] results[u] = "ok" -> <<"success">>
                    [] OTHER -> <<"failure">>

(* What a call reports of a webhook, to its caller and to the breaker, is  *)
(* how the last attempt ended, on every path, after one attempt more than  *)
(* there were retries at most.                                             *)
OutcomesAgree == TypeOK /\ SendsCounted /\ AllAnswered /\ BreakerToldOnce

(* An event is accepted twice by a webhook only if an earlier acceptance   *)
(* went unanswered: a delivery that was confirmed is never repeated.       *)
DuplicatesOnlyAfterLoss == \A u \in Url : accepted[u] <= lost[u] + 1

(* Requests for one URL are at least the base delay apart (or the maximum, *)
(* if that is less), also when the answer came at once.                    *)
RetriesSpaced ==
    [][\A u \in Url : sends[u] > 0 /\ sends'[u] > sends[u] =>
          clock >= sentAt[u] + Smaller(RetryStrategy.BaseDelay,
                                       RetryStrategy.MaxDelay)]_vars

(* Webhooks that never answer cannot hold the call: it returns once the    *)
(* time of its deadlines has come,                                         *)
TimeEndsCall == <>(clock = MaxTime) => <>returned

(* and a cancelled call returns without any time passing: no wait and no   *)
(* request in flight outlasts the context.                                 *)
CancelEndsCall == cancelled ~> returned

(* "Check if we have time for another retry": a goroutine that waits for a *)
(* retry comes to make it, if the context is not cancelled meanwhile.      *)
(* Violated: the 5 s are compared with the time left before the delay is   *)
(* known, and the wait may be longer than both.                            *)
WakesInTime ==
    [][\A u \in Url :
          pc[u] = "wait" /\ pc'[u] # "wait" /\ ~cancelled =>
             pc'[u] = "attempt"]_vars
=============================================================================
