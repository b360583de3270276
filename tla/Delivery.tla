------------------------------ MODULE Delivery ------------------------------
(***************************************************************************)
(* An event on its way through the composed system: Handler                *)
(* (internal/handler/forwarder_handler.go) tells what it is; an ALB event  *)
(* goes to the pool of each webhook or to an overflow goroutine, and from  *)
(* there past the circuit breaker to the webhook; an SNS event is          *)
(* published (internal/forwarder/sns_forwarder.go), and Lambda sends it    *)
(* again when that failed. The parts are taken at the grain of the calls   *)
(* between them: routing and pool creation are in ALBProcessor, what makes *)
(* workers come and go in BotWorkerPool, the breaker in CircuitBreaker and *)
(* SharedCircuit, attempts and retries in WebhookForwarder, of which a     *)
(* call here is all. Here workers come and go and the breaker refuses as   *)
(* they like.                                                              *)
(*                                                                         *)
(* Lambda gives a process one event at a time, and ends the context of an  *)
(* invocation when its handler returns, while workers still hold it.       *)
(***************************************************************************)
EXTENDS Naturals, Sequences, FiniteSets, SequencesExt

CONSTANTS
    Invocations, \* how many there are; they are numbered as they arrive
    Lists,       \* the lists of webhooks an ALB event may be routed to; a
                 \* list may name a webhook more than once
    Budget,      \* the time an invocation may take
    AcceptTime,  \* 3 s, in Submit: a job with less left is not queued
    WorkTime,    \* 2 s, MinimumLambdaTimeRemaining
    QueueSize,   \* the capacity of a pool's channel
    InitialWorkers, \* 5, a literal in NewBotWorkerPool
    Workers,     \* DefaultWorkerMax, the most workers of a pool
    Slots,       \* MaxConcurrentOverflow
    MaxTries,    \* how often Lambda runs an SNS event that fails
    MaxSends,    \* how often the SDK's client sends within one Publish
    MaxTime      \* bound on the clock, for model checking only

Url == UNION {Range(list) : list \in Lists}
Place == UNION {DOMAIN list : list \in Lists}

ASSUME DeliveryAssumption ==
    /\ \A list \in Lists : list \in Seq(Url)
    /\ IsFiniteSet(Place)
    /\ {Invocations, Budget, AcceptTime, WorkTime} \subseteq Nat
    /\ {QueueSize, Workers, Slots, MaxTries, MaxSends, MaxTime}
          \subseteq Nat \ {0}
    /\ InitialWorkers \in 1..Workers

VARIABLES
    clock,
    stage,        \* stage[r]: "none"; "alb", then "answered"; "sns", then
                  \* "acknowledged" or "failed"
    urls,         \* urls[r]: the webhooks it goes to
    at,           \* at[r]: the place of Submit's loop in urls[r]
    deadline,     \* deadline[r] of the invocation's context
    tries,        \* tries[r]: how often Lambda ran it
    sends,        \* sends[r]: sends of the present Publish without answer
    published,    \* published[r]: how often SNS took it
    workers,      \* workers[u]: how many the pool of u has
    queue,        \* queue[u]: the channel of the pool of u
    job,          \* job[<<r, i>>]: where r is on its way to urls[r][i]
    overflow      \* the jobs an overflow goroutine took over

snsVars == <<tries, sends, published>>
vars == <<clock, stage, urls, at, deadline, snsVars, workers, queue, job,
          overflow>>

Request == 1..Invocations
Job == Request \X Place
Ended == {"skipped", "refused", "delivered", "failed", "lost"}
Busy == {"taken", "asking", "calling"}

Init == /\ clock = 1
        /\ stage = [r \in Request |-> "none"]
        /\ urls = [r \in Request |-> <<>>]
        /\ at = [r \in Request |-> 1]
        /\ deadline = [r \in Request |-> 0]
        /\ tries = [r \in Request |-> 0]
        /\ sends = [r \in Request |-> 0]
        /\ published = [r \in Request |-> 0]
        /\ workers = [u \in Url |-> InitialWorkers]
        /\ queue = [u \in Url |-> <<>>]
        /\ job = [p \in Job |-> "none"]
        /\ overflow = {}

Tick == /\ clock < MaxTime
        /\ clock' = clock + 1
        /\ UNCHANGED <<stage, urls, at, deadline, snsVars, workers, queue, job,
                       overflow>>

(* An event may be decoded both ways: the load balancer's comes first.     *)
(* `arn` is there when RequestContext.ELB.TargetGroupArn is, `record` when *)
(* the first record has a MessageID. *)
Route(event) == IF event.arn THEN "alb"
                ELSE IF event.record THEN "sns" ELSE "answered"

(* Handler is called. An event of no known kind is answered at once. *)
Arrive(r) ==
    /\ stage[r] = "none"
    /\ \A q \in 1..r - 1 : stage[q] \notin {"none", "alb", "sns"}
    /\ \E event \in [arn : BOOLEAN, record : BOOLEAN, urls : Lists] :
          /\ stage' = [stage EXCEPT ![r] = Route(event)]
          /\ urls' = IF Route(event) = "alb"
                     THEN [urls EXCEPT ![r] = event.urls] ELSE urls
    /\ deadline' = [deadline EXCEPT ![r] = clock + Budget]
    /\ tries' = [tries EXCEPT ![r] = 1]
    /\ UNCHANGED <<clock, at, sends, published, workers, queue, job, overflow>>

(* the webhook of a job *)
To(p) == urls[p[1]][p[2]]

Submitted(r) == at[r] > Len(urls[r])

Move(p, to) == job' = [job EXCEPT ![p] = to]

TimeLeft(r, time) == clock + time <= deadline[r]

(* BotWorkerPool.Submit, for one webhook after the other *)
Submit(r) ==
    /\ ~Submitted(r)
    /\ LET p == <<r, at[r]>>
       IN  IF TimeLeft(r, AcceptTime) /\ Len(queue[To(p)]) < QueueSize
           THEN /\ queue' = [queue EXCEPT ![To(p)] = Append(@, p)]
                /\ Move(p, "queued")
           ELSE Move(p, "dropped") /\ UNCHANGED queue
    /\ at' = [at EXCEPT ![r] = @ + 1]
    /\ UNCHANGED <<clock, stage, urls, deadline, snsVars, workers, overflow>>

(* the jobs that hold a slot *)
Overflowing == {p \in overflow : job[p] \notin Ended}

(* Mutant of Overflow: a goroutine is started without a slot. *)
OverflowUnlimited(p) ==
    /\ Submitted(p[1]) /\ job[p] = "dropped"
    /\ overflow' = overflow \cup {p}
    /\ Move(p, "asking")
    /\ UNCHANGED <<clock, stage, urls, at, deadline, snsVars, workers, queue>>

(* What was dropped gets an overflow goroutine, or is given up. *)
Overflow(p) ==
    /\ Submitted(p[1]) /\ job[p] = "dropped"
    /\ IF Cardinality(Overflowing) < Slots
       THEN overflow' = overflow \cup {p} /\ Move(p, "asking")
       ELSE UNCHANGED overflow /\ Move(p, "lost")
    /\ UNCHANGED <<clock, stage, urls, at, deadline, snsVars, workers, queue>>

(* Process returns, whatever became of the jobs. *)
Answer(r) ==
    /\ stage[r] = "alb" /\ Submitted(r)
    /\ \A i \in DOMAIN urls[r] : job[<<r, i>>] # "dropped"
    /\ stage' = [stage EXCEPT ![r] = "answered"]
    /\ UNCHANGED <<clock, urls, at, deadline, snsVars, workers, queue, job,
                   overflow>>

(* A send whose answer is lost, or an error, may have reached SNS. *)
SentOrNot(r) == published' \in {published, [published EXCEPT ![r] = @ + 1]}

(* LoadDefaultConfig gives the client the SDK's standard retryer: within   *)
(* one Publish it sends again what got no answer, a few times.             *)
SendAgain(r) ==
    /\ stage[r] = "sns" /\ sends[r] + 1 < MaxSends
    /\ SentOrNot(r)
    /\ sends' = [sends EXCEPT ![r] = @ + 1]
    /\ UNCHANGED <<clock, stage, urls, at, deadline, tries, workers, queue, job,
                   overflow>>

(* Mutant of PublishFails: the error is logged and nil is returned. *)
PublishErrorSwallowed(r) ==
    /\ stage[r] = "sns" /\ SentOrNot(r)
    /\ sends' = [sends EXCEPT ![r] = 0]
    /\ stage' = [stage EXCEPT ![r] = "acknowledged"]
    /\ UNCHANGED <<clock, urls, at, deadline, tries, workers, queue, job,
                   overflow>>

(* Publish fails, with the last of its sends or one that is not repeated.  *)
(* Handler returns the error, and Lambda runs the event again, a limited   *)
(* number of times. *)
PublishFails(r) ==
    /\ stage[r] = "sns" /\ SentOrNot(r)
    /\ sends' = [sends EXCEPT ![r] = 0]
    /\ IF tries[r] < MaxTries
       THEN /\ tries' = [tries EXCEPT ![r] = @ + 1]
            /\ deadline' = [deadline EXCEPT ![r] = clock + Budget]
            /\ UNCHANGED stage
       ELSE /\ stage' = [stage EXCEPT ![r] = "failed"]
            /\ UNCHANGED <<tries, deadline>>
    /\ UNCHANGED <<clock, urls, at, workers, queue, job, overflow>>

(* A send is answered. *)
Publish(r) ==
    /\ stage[r] = "sns"
    /\ published' = [published EXCEPT ![r] = @ + 1]
    /\ sends' = [sends EXCEPT ![r] = 0]
    /\ stage' = [stage EXCEPT ![r] = "acknowledged"]
    /\ UNCHANGED <<clock, urls, at, deadline, tries, workers, queue, job,
                   overflow>>

(* the jobs in the hands of the workers of u *)
Working(u) == {p \in Job \ overflow : job[p] \in Busy /\ To(p) = u}

Idle(u) == Cardinality(Working(u)) < workers[u]

(* A worker between two jobs retires. Each compares a count and a target   *)
(* of its own with each other, so that all of them may (BotWorkerPool).    *)
Retire(u) ==
    /\ Idle(u)
    /\ workers' = [workers EXCEPT ![u] = @ - 1]
    /\ UNCHANGED <<clock, stage, urls, at, deadline, snsVars, queue, job,
                   overflow>>

(* The autoscaler adds a worker, for a queue it found nearly full before. *)
Hire(u) ==
    /\ workers[u] < Workers
    /\ workers' = [workers EXCEPT ![u] = @ + 1]
    /\ UNCHANGED <<clock, stage, urls, at, deadline, snsVars, queue, job,
                   overflow>>

(* A worker receives from the channel ... *)
Take(u) ==
    /\ queue[u] # <<>> /\ Idle(u)
    /\ queue' = [queue EXCEPT ![u] = Tail(@)]
    /\ Move(Head(queue[u]), "taken")
    /\ UNCHANGED <<clock, stage, urls, at, deadline, snsVars, workers,
                   overflow>>

(* Mutant of Check: a job that is too late goes back into the channel. *)
CheckRequeues(p) ==
    /\ job[p] = "taken"
    /\ IF TimeLeft(p[1], WorkTime) \/ Len(queue[To(p)]) = QueueSize
       THEN Move(p, "asking") /\ UNCHANGED queue
       ELSE /\ Move(p, "queued")
            /\ queue' = [queue EXCEPT ![To(p)] = Append(@, p)]
    /\ UNCHANGED <<clock, stage, urls, at, deadline, snsVars, workers,
                   overflow>>

(* ... and looks at the deadline, not at whether the context has ended. *)
Check(p) ==
    /\ job[p] = "taken"
    /\ Move(p, IF TimeLeft(p[1], WorkTime) THEN "asking" ELSE "skipped")
    /\ UNCHANGED <<clock, stage, urls, at, deadline, snsVars, workers, queue,
                   overflow>>

(* The breaker of the webhook's key lets the call pass, or does not. *)
AllowRequest(p) ==
    /\ job[p] = "asking"
    /\ Move(p, "calling") \/ Move(p, "refused")
    /\ UNCHANGED <<clock, stage, urls, at, deadline, snsVars, workers, queue,
                   overflow>>

(* The webhook answers, refuses, or is silent until the call's timeout. *)
Ends(p) ==
    /\ job[p] = "calling"
    /\ Move(p, "delivered") \/ Move(p, "failed")
    /\ UNCHANGED <<clock, stage, urls, at, deadline, snsVars, workers, queue,
                   overflow>>

(* Mutant of CtxDone: the calls are made without the invocation's context. *)
NoContext(r) == FALSE

CtxDone(r) == stage[r] = "answered" \/ clock >= deadline[r]

(* The call ends with the context's error. *)
CutOff(p) ==
    /\ job[p] = "calling" /\ CtxDone(p[1])
    /\ Move(p, "failed")
    /\ UNCHANGED <<clock, stage, urls, at, deadline, snsVars, workers, queue,
                   overflow>>

JobStep(p) == \/ Overflow(p) \/ Check(p) \/ AllowRequest(p)
              \/ Ends(p) \/ CutOff(p)

Next == \/ Tick
        \/ \E r \in Request : \/ Arrive(r) \/ Submit(r) \/ Answer(r)
                              \/ SendAgain(r) \/ Publish(r) \/ PublishFails(r)
        \/ \E u \in Url : Retire(u) \/ Hire(u) \/ Take(u)
        \/ \E p \in Job : JobStep(p)

(* The goroutines run while the process does: the handler's, and those     *)
(* that have the job, whichever step is next; a worker that is there and   *)
(* idle takes a job or retires. A context that is done ends its call.      *)
(* Nothing is assumed of webhooks, SNS, the autoscaler or time. *)
Fairness ==
    /\ \A u \in Url : WF_vars(Take(u))
    /\ \A r \in Request : WF_vars(Submit(r) \/ Answer(r))
    /\ \A p \in Job :
          WF_vars(Overflow(p) \/ Check(p) \/ AllowRequest(p) \/ CutOff(p))

Spec == Init /\ [][Next]_vars /\ Fairness

-----------------------------------------------------------------------------
(* Types; the channels hold exactly the jobs that are queued, each once,   *)
(* and no more goroutines work than there are workers and slots. *)
TypeOK ==
    /\ clock \in 1..MaxTime
    /\ stage \in [Request -> {"none", "alb", "answered", "sns",
                              "acknowledged", "failed"}]
    /\ job \in [Job -> {"none", "queued", "dropped"} \cup Busy \cup Ended]
    /\ \A u \in Url :
          /\ Len(queue[u]) <= QueueSize
          /\ workers[u] \in 0..Workers
          /\ Cardinality(Working(u)) <= workers[u]
          /\ \A p \in Job :
                Cardinality({i \in DOMAIN queue[u] : queue[u][i] = p}) =
                    IF job[p] = "queued" /\ To(p) = u THEN 1 ELSE 0
    /\ overflow \subseteq Job
    /\ Cardinality(Overflowing) <= Slots

(* "Returns error for Lambda retry mechanism" (sns_forwarder.go:25): an    *)
(* event is acknowledged only after SNS took it and given up only after    *)
(* Lambda's last run, so that lost answers cost duplicates, up to as many  *)
(* as the client sends in every run, and never the event. *)
AcknowledgedIsOut ==
    \A r \in Request : /\ stage[r] = "acknowledged" => published[r] > 0
                       /\ stage[r] = "failed" => tries[r] = MaxTries
                       /\ published[r] <= MaxSends * tries[r]

(* Each job comes to an end: delivered, refused, failed, skipped or lost.  *)
(* No silent webhook, queue or overflow goroutine keeps it for ever        *)
(* (forwarder_handler.go:65, webhook_forwarder.go:188), except a channel   *)
(* all of whose workers have retired (bot_worker_pool.go:80);              *)
(* FullQueueDrains says when such a channel is served again.               *)
JobsEnd ==
    \A p \in Job : job[p] # "none" ~>
        job[p] \in Ended \/ (job[p] = "queued" /\ workers[To(p)] = 0)

Pool(u) == INSTANCE WorkerPool WITH
               Jobs <- Job,
               waiting <- queue[u],
               running <- Working(u),
               finished <- {p \in Job \ overflow :
                               job[p] \in Ended \ {"lost"} /\ To(p) = u},
               closed <- FALSE

(* In the composition each webhook's pool keeps the promise BotWorkerPool  *)
(* implements: first in, first out, every job started once, none again     *)
(* after the overflow took it. This is \A u \in Url : Pool(u)!Spec.        *)
PoolsKeepPromise ==
    /\ \A u \in Url : Pool(u)!Init
    /\ [][\A u \in Url : Pool(u)!Next \/ UNCHANGED Pool(u)!vars]_vars
=============================================================================
