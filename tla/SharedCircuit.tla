---------------------------- MODULE SharedCircuit ----------------------------
(***************************************************************************)
(* Who opens a circuit. The key of a circuit is the host and path of a     *)
(* webhook, in lower case (internal/forwarder/headers.go:98): webhooks     *)
(* that differ elsewhere share it. Their calls carry the context of the    *)
(* invocation that queued them, which ends when the handler has returned,  *)
(* although workers still call or only begin to; a call ended by its       *)
(* context counts as a failure like one its webhook refused. The steps on  *)
(* the entry are those of CircuitBreaker, one atomic access each.          *)
(*                                                                         *)
(* A webhook whose URL has neither host nor path has the empty key, for    *)
(* which no entry is kept: it is none of those here.                       *)
(***************************************************************************)
EXTENDS CircuitBreaker

CONSTANTS
    Webhook,   \* the webhooks with this key
    Healthy    \* the ones that answer every call that is not cut off

ASSUME SharedAssumption == Healthy \subseteq Webhook /\ Webhook # {}

VARIABLES
    call,      \* call[c]: the call of c until its outcome is recorded,
               \* as <<its webhook, whether its context is done>>, and
               \* <<>> when there is none or it succeeded
    causes,    \* history, along with `failures`: which call each was of
    against,   \* history: against[c] is what causes was when c had counted
               \* as far as the threshold
    grounds    \* history: against[c] of the c that opened the circuit last

history == <<causes, against, grounds>>
sharedVars == <<vars, call, history>>

SharedInit == /\ Init
              /\ call = [c \in Caller |-> <<>>]
              /\ causes = <<>>
              /\ against = [c \in Caller |-> <<>>]
              /\ grounds = <<>>

(* The handler returns, or its deadline passes: the contexts of all calls  *)
(* that belong to the invocation are done. Lambda runs one at a time, so   *)
(* the calls that are left belong to earlier ones and theirs are done too. *)
EndInvocation ==
    LET inFlight == {c \in Caller : op[c] \in {"allow", "call"}}
    IN  /\ \E c \in inFlight : ~call[c][2]
        /\ call' = [c \in Caller |-> IF c \in inFlight
                                     THEN <<call[c][1], TRUE>> ELSE call[c]]
        /\ UNCHANGED <<vars, history>>

(* A worker or an overflow goroutine comes to the breaker with a job of    *)
(* the present invocation, or of an earlier one.                           *)
Begin(c) == /\ AllowRequest(c)
            /\ \E w \in Webhook, done \in BOOLEAN :
                  call' = [call EXCEPT ![c] = <<w, done>>]
            /\ UNCHANGED history

Faulty(made) == made[1] \notin Healthy \/ made[2]

(* A call fails for one of two reasons. *)
Fails(c) == CallFails(c) /\ Faulty(call[c]) /\ UNCHANGED <<call, history>>

Resets(c) == SuccessResets(c) /\ causes' = <<>>
             /\ UNCHANGED <<call, against, grounds>>

Counts(c) == /\ CountFailure(c)
             /\ causes' = Latest(Append(causes, call[c]))
             /\ against' = IF newFailCount'[c] < Threshold THEN against
                           ELSE [against EXCEPT ![c] = causes']
             /\ UNCHANGED <<call, grounds>>

(* A call that succeeded, was refused or is recorded is forgotten. *)
Settled(c) ==
    /\ IF op'[c] \in {"none", "success"}
       THEN /\ call' = [call EXCEPT ![c] = <<>>]
            /\ against' = [against EXCEPT ![c] = <<>>]
       ELSE UNCHANGED <<call, against>>
    /\ UNCHANGED causes

Opens(c) == TripOpens(c) /\ grounds' = against[c] /\ Settled(c)

(* the steps whose history is no other than what they leave of it *)
Other(c) == /\ \/ LoadOpenedUntil(c) \/ LoadLastFailure(c)
               \/ ExpireFailures(c) \/ AllowClear(c) \/ CallSucceeds(c)
               \/ SuccessForgets(c) \/ SuccessCloses(c)
               \/ StampFailure(c) \/ TripResets(c)
            /\ grounds' = IF openedUntil' = 0 THEN <<>> ELSE grounds
            /\ Settled(c)

TimePasses == Tick /\ UNCHANGED <<call, history>>

SharedNext ==
    \/ TimePasses
    \/ EndInvocation
    \/ \E c \in Caller : \/ Begin(c) \/ Fails(c) \/ Resets(c)
                         \/ Counts(c) \/ Opens(c) \/ Other(c)

SharedSpec == SharedInit /\ [][SharedNext]_sharedVars

-----------------------------------------------------------------------------
(* While a circuit is open, whoever opened it had counted, since one and   *)
(* the same success, Threshold failures of webhooks with its key, and each *)
(* was of a webhook that does not answer every call or of a call cut off   *)
(* by the end of its invocation: however the separate stores of a success  *)
(* and of failures fall between each other, a webhook's own answers never  *)
(* count against it. Those of the webhooks it shares the circuit with do   *)
(* (breaker.go:95 and 124, headers.go:98, alb_processor.go:157).           *)
OpensByFaults ==
    openedUntil # 0 =>
        /\ Len(grounds) = Threshold
        /\ \A i \in DOMAIN grounds : Faulty(grounds[i])
=============================================================================
