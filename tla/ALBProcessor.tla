---------------------------- MODULE ALBProcessor ----------------------------
(***************************************************************************)
(* ALBProcessor (internal/handler/alb_processor.go) on top of the          *)
(* WorkerPoolManager: a request selects its webhook URLs, submits a job    *)
(* for each, hands the ones the pools drop to overflow goroutines as far   *)
(* as the semaphore has slots, and is answered without waiting for any.    *)
(***************************************************************************)
EXTENDS WorkerPoolManager

CONSTANTS
    WebhookURLs, CloudWebhookURLs, EnterpriseWebhookURLs, \* of the Config
    SkipHealthChecks,                                     \* of the Config
    MaxOverflow                      \* capacity of the channel overflowSem

ASSUME ALBAssumption ==
    /\ WebhookURLs \in Seq(Url \cup {NoUrl})
    /\ CloudWebhookURLs \in Seq(Url \cup {NoUrl})
    /\ EnterpriseWebhookURLs \in Seq(Url \cup {NoUrl})
    /\ SkipHealthChecks \in BOOLEAN
    /\ MaxOverflow \in Nat \ {0}

VARIABLES
    ppc,              \* ppc[r]: where Process is with request r
    k,                \* k[r]: the position of its loop over the dropped URLs
    opc,              \* opc[r][i]: the overflow goroutine of urls[r][i]
    overflowSem,      \* slots of the semaphore that are taken
    overflowActive,   \* the atomic counter of that name
    overflowDropped,  \* the atomic counter of that name
    apc               \* where Shutdown is

albVars == <<ppc, k, opc, overflowSem, overflowActive, overflowDropped, apc>>
vars == <<managerVars, albVars>>

Longest == CHOOSE n \in {Len(WebhookURLs), Len(CloudWebhookURLs),
                         Len(EnterpriseWebhookURLs)} :
              \A m \in {Len(WebhookURLs), Len(CloudWebhookURLs),
                        Len(EnterpriseWebhookURLs)} : n >= m

Started(r) == {i \in 1..Longest : opc[r][i] # "none"}

Overflowing == {p \in Request \X (1..Longest) :
                   opc[p[1]][p[2]] \notin {"none", "done"}}

Init ==
    /\ ManagerInit
    /\ ppc = [r \in Request |-> "new"]
    /\ k = [r \in Request |-> 1]
    /\ opc = [r \in Request |-> [i \in 1..Longest |-> "none"]]
    /\ overflowSem = 0 /\ overflowActive = 0 /\ overflowDropped = 0
    /\ apc = "open"

-----------------------------------------------------------------------------
(* Process *)

(* What Process tells apart in an event: whether its user agent is the     *)
(* load balancer's health checker, whether its path is one of the health   *)
(* paths, and which of the two host headers have a value, among the        *)
(* headers and among the multi-value headers.                              *)
HostHeader == {"x-dcp-destination-host", "x-github-enterprise-host"}

Event == [elbAgent : BOOLEAN, healthPath : BOOLEAN,
          headers : SUBSET HostHeader, multiValueHeaders : SUBSET HostHeader]

isHealthCheck(e) == e.elbAgent \/ e.healthPath

hasHeader(e, h) == h \in e.multiValueHeaders \cup e.headers

Cloud(e) == hasHeader(e, "x-dcp-destination-host")
Enterprise(e) == hasHeader(e, "x-github-enterprise-host")

(* Mutant of Select: a header without URLs of its own selects nothing. *)
SelectNoFallback(e) ==
    CASE Cloud(e) -> CloudWebhookURLs
      [] ~Cloud(e) /\ Enterprise(e) -> EnterpriseWebhookURLs
      [] OTHER -> WebhookURLs

(* selectWebhookURLs: the list for the host header the event carries if    *)
(* that list has URLs, else the first list that has any.                   *)
Select(e) ==
    IF Cloud(e) /\ CloudWebhookURLs # <<>> THEN CloudWebhookURLs
    ELSE IF Enterprise(e) /\ EnterpriseWebhookURLs # <<>>
    THEN EnterpriseWebhookURLs
    ELSE IF WebhookURLs # <<>> THEN WebhookURLs
    ELSE IF CloudWebhookURLs # <<>> THEN CloudWebhookURLs
    ELSE EnterpriseWebhookURLs

(* The response of r is a 200 with this status in its body. *)
Respond(r, status) == ppc' = [ppc EXCEPT ![r] = status]

Responded == {"healthy", "accepted"}

(* A health check is answered at once if the configuration says so. *)
HealthCheck(r) ==
    /\ ppc[r] = "new" /\ SkipHealthChecks
    /\ \E e \in Event : isHealthCheck(e)
    /\ Respond(r, "healthy")
    /\ UNCHANGED <<managerVars, k, opc, overflowSem, overflowActive,
                   overflowDropped, apc>>

(* The URLs are selected; without any there is nothing to do. *)
Arrive(r) ==
    /\ ppc[r] = "new"
    /\ \E e \in Event :
          LET list == Select(e)
          IN  /\ ~(SkipHealthChecks /\ isHealthCheck(e))
              /\ IF list = <<>>
                 THEN Respond(r, "accepted") /\ UNCHANGED managerVars
                 ELSE /\ ppc' = [ppc EXCEPT ![r] = "submitting"]
                      /\ SubmitCall(r, list)
    /\ UNCHANGED <<k, opc, overflowSem, overflowActive, overflowDropped, apc>>

Submitting(r) ==
    /\ ppc[r] = "submitting" /\ mpc[r] # "returned"
    /\ SubmitStep(r)
    /\ UNCHANGED albVars

(* poolManager.Submit has returned the dropped URLs. *)
Submitted(r) ==
    /\ ppc[r] = "submitting" /\ mpc[r] = "returned"
    /\ ppc' = [ppc EXCEPT ![r] = "dropping"]
    /\ UNCHANGED <<managerVars, k, opc, overflowSem, overflowActive,
                   overflowDropped, apc>>

Dropping(r) == ppc[r] = "dropping" /\ k[r] <= Len(dropped[r])

(* case p.overflowSem <- struct{}{}: go p.processOverflow *)
StartOverflow(r) ==
    /\ Dropping(r) /\ overflowSem < MaxOverflow
    /\ overflowSem' = overflowSem + 1
    /\ opc' = [opc EXCEPT ![r][dropped[r][k[r]]] = "spawned"]
    /\ k' = [k EXCEPT ![r] = @ + 1]
    /\ UNCHANGED <<managerVars, ppc, overflowActive, overflowDropped, apc>>

(* Mutant of DropOverflow: it waits for a slot. *)
BlockOnOverflow(r) == FALSE

(* default: p.overflowDropped.Add(1) *)
DropOverflow(r) ==
    /\ Dropping(r) /\ overflowSem = MaxOverflow
    /\ overflowDropped' = overflowDropped + 1
    /\ k' = [k EXCEPT ![r] = @ + 1]
    /\ UNCHANGED <<managerVars, ppc, opc, overflowSem, overflowActive, apc>>

Answer(r) ==
    /\ ppc[r] = "dropping" /\ k[r] > Len(dropped[r])
    /\ Respond(r, "accepted")
    /\ UNCHANGED <<managerVars, k, opc, overflowSem, overflowActive,
                   overflowDropped, apc>>

Process(r) == \/ HealthCheck(r) \/ Arrive(r) \/ Submitting(r) \/ Submitted(r)
              \/ StartOverflow(r) \/ DropOverflow(r) \/ Answer(r)

-----------------------------------------------------------------------------
(* processOverflow *)

MoveOverflow(r, i, from, to) ==
    /\ opc[r][i] = from
    /\ opc' = [opc EXCEPT ![r][i] = to]
    /\ UNCHANGED <<managerVars, ppc, k, overflowDropped, apc>>

CountActive(r, i) == /\ MoveOverflow(r, i, "spawned", "forwarding")
                     /\ overflowActive' = overflowActive + 1
                     /\ UNCHANGED overflowSem

(* ForwardToWebhooks returns, and the deferred function runs:              *)
(* overflowActive.Add(-1), then <-p.overflowSem                            *)
CountInactive(r, i) == /\ MoveOverflow(r, i, "forwarding", "releasing")
                       /\ overflowActive' = overflowActive - 1
                       /\ UNCHANGED overflowSem

(* Mutant of ReleaseSlot: the slot is not given back. *)
KeepSlot(r, i) == /\ MoveOverflow(r, i, "releasing", "done")
                  /\ UNCHANGED <<overflowSem, overflowActive>>

ReleaseSlot(r, i) == /\ MoveOverflow(r, i, "releasing", "done")
                     /\ overflowSem' = overflowSem - 1
                     /\ UNCHANGED overflowActive

OverflowStep(r, i) ==
    CountActive(r, i) \/ CountInactive(r, i) \/ ReleaseSlot(r, i)

-----------------------------------------------------------------------------
(* Shutdown: cancel shutdownCtx, which only the metrics reporter listens   *)
(* to; shut the pools, however long that takes; then wait for `done`,      *)
(* which a goroutine closes after sleeping half a second, or the timeout.  *)
BeginShutdown ==
    /\ apc = "open"
    /\ apc' = "pools"
    /\ TakeLock
    /\ UNCHANGED <<ppc, k, opc, overflowSem, overflowActive, overflowDropped>>

ShutPools ==
    /\ apc = "pools" /\ CloseStep
    /\ UNCHANGED albVars

PoolsShut ==
    /\ apc = "pools" /\ kpc = "closed"
    /\ apc' = "timer"
    /\ UNCHANGED <<managerVars, ppc, k, opc, overflowSem, overflowActive,
                   overflowDropped>>

ShutdownReturns ==
    /\ apc = "timer"
    /\ apc' \in {"completed", "timedOut"}
    /\ UNCHANGED <<managerVars, ppc, k, opc, overflowSem, overflowActive,
                   overflowDropped>>

-----------------------------------------------------------------------------
ServeStep(p) == Serve(p) /\ UNCHANGED albVars

(* Everything has come to its end. *)
Terminated ==
    /\ apc \in {"completed", "timedOut"} /\ Overflowing = {}
    /\ \A r \in Request : ppc[r] \in Responded
    /\ \A p \in Pool : p \in shut \/ load[p] = 0
    /\ UNCHANGED vars

Next == \/ \E r \in Request : Process(r)
        \/ \E r \in Request, i \in 1..Longest : OverflowStep(r, i)
        \/ \E p \in Pool : ServeStep(p)
        \/ BeginShutdown \/ ShutPools \/ PoolsShut \/ ShutdownReturns
        \/ Terminated

Spec == Init /\ [][Next]_vars

(* The goroutine of a request runs, and each pool's Shutdown returns       *)
(* (ShutdownReturns of BotWorkerPool). Nothing is assumed of the workers   *)
(* and of the overflow goroutines: the webhooks may never answer.          *)
Fairness == /\ \A r \in Request : WF_vars(Process(r))
            /\ WF_vars(ShutPools)

FairSpec == Spec /\ Fairness

-----------------------------------------------------------------------------
(* Properties *)

TypeOK ==
    /\ ManagerTypeOK
    /\ ppc \in [Request -> {"new", "submitting", "dropping"} \cup Responded]
    /\ opc \in [Request -> [1..Longest ->
                   {"none", "spawned", "forwarding", "releasing", "done"}]]
    /\ k \in [Request -> Nat \ {0}]
    /\ \A r \in Request : k[r] <= Len(dropped[r]) + 1
    /\ overflowSem \in 0..MaxOverflow
    /\ overflowActive \in Nat /\ overflowDropped \in Nat
    /\ apc \in {"open", "pools", "timer", "completed", "timedOut"}

Forwarding == {p \in Overflowing : opc[p[1]][p[2]] = "forwarding"}

(* A slot of the semaphore is taken exactly as long as its goroutine has   *)
(* not given it back, so none leaks, and overflowActive counts exactly the *)
(* goroutines that forward.                                                *)
SlotsAccounted ==
    /\ TypeOK
    /\ overflowSem = Cardinality(Overflowing)
    /\ overflowActive = Cardinality(Forwarding)

(* the dropped URLs, by place in `dropped`, that got no goroutine *)
GivenUp == {p \in Request \X (1..Longest) :
               p[2] < k[p[1]] /\ dropped[p[1]][p[2]] \notin Started(p[1])}

(* A request is answered as accepted only when it has been submitted for a *)
(* list of URLs (Validate demands that some list has any), and every URL   *)
(* of it has been accepted by a pool, given to one overflow goroutine, or  *)
(* counted in overflowDropped; no URL has had two of these.                *)
EveryUrlAccounted ==
    /\ NoneForgotten
    /\ \A r \in Request : ppc[r] = "accepted" =>
          /\ Longest > 0 => mpc[r] = "returned"
          /\ k[r] = Len(dropped[r]) + 1
    /\ \A r \in Request : \A i \in Started(r) : IsDropped(r, i)
    /\ overflowDropped = Cardinality(GivenUp)

(* A load balancer's request is answered even when no webhook ever is, no  *)
(* queue ever drains and no overflow goroutine ends; during Shutdown it    *)
(* may have to wait for the lock, and Shutdown releases it.                *)
AlwaysResponds ==
    \A r \in Request : ppc[r] = "submitting" ~> ppc[r] \in Responded
=============================================================================
