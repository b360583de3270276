--------------------------- MODULE CircuitBreaker ---------------------------
(***************************************************************************)
(* The breaker of one key of WindowedCircuitBreaker (internal/forwarder/   *)
(* breaker.go) and the goroutines of ForwardToWebhooks that use it: each   *)
(* asks AllowRequest, makes its call if it may, and records the outcome.   *)
(* The three fields of the entry are separate atomics, and each load and   *)
(* store is a step of its own; the mutex covers only the lookup of the     *)
(* entry, which never changes once it exists. Keys share nothing else.     *)
(*                                                                         *)
(* Time is counted in units of the model; 0 is the zero time.Time.         *)
(***************************************************************************)
EXTENDS Naturals, Sequences

CONSTANTS
    Caller,      \* goroutines calling webhooks with this key
    Threshold,   \* failures before the circuit opens
    Window,      \* how long a failure is remembered
    Cooldown,    \* how long the circuit stays open
    MaxTime      \* bound on the clock, for model checking

ASSUME BreakerAssumption ==
    /\ Threshold \in Nat \ {0} /\ Window \in Nat \ {0}
    /\ Cooldown \in Nat \ {0} /\ MaxTime \in Nat

VARIABLES
    clock,        \* the time
    failCount, lastFailure, openedUntil,   \* the fields of the breakerEntry
    op,           \* op[c]: "allow", "success", "failure", "call" or "none"
    pc,           \* pc[c]: the next step of that operation
    now,          \* now[c]: the local `now`
    newFailCount, \* newFailCount[c]: the local of that name
    failures      \* history: the times the last Threshold failures since
                  \* the last success were counted, oldest first

entry == <<failCount, lastFailure, openedUntil>>
vars == <<clock, entry, op, pc, now, newFailCount, failures>>

Init ==
    /\ clock = 1
    /\ failCount = 0 /\ lastFailure = 0 /\ openedUntil = 0
    /\ op = [c \in Caller |-> "none"]
    /\ pc = [c \in Caller |-> "idle"]
    /\ now = [c \in Caller |-> 0]
    /\ newFailCount = [c \in Caller |-> 0]
    /\ failures = <<>>

Tick == /\ clock < MaxTime
        /\ clock' = clock + 1
        /\ UNCHANGED <<entry, op, pc, now, newFailCount, failures>>

At(c, o, l) == op[c] = o /\ pc[c] = l

Goto(c, l) == pc' = [pc EXCEPT ![c] = l] /\ op' = op

Enter(c, o, l) == pc' = [pc EXCEPT ![c] = l] /\ op' = [op EXCEPT ![c] = o]

(* The operation is over: the caller forgets its locals. *)
Return(c) == /\ Enter(c, "none", "idle")
             /\ now' = [now EXCEPT ![c] = 0]
             /\ newFailCount' = [newFailCount EXCEPT ![c] = 0]

-----------------------------------------------------------------------------
(* What AllowRequest and RecordFailure have in common *)

(* now := time.Now() *)
ReadClock(c, o) == /\ Enter(c, o, "opened")
                   /\ now' = [now EXCEPT ![c] = clock]
                   /\ UNCHANGED <<clock, entry, newFailCount, failures>>

(* openedUntil.After(now) *)
OpenFor(c) == openedUntil > now[c]

(* An open circuit ends the operation: the request is denied, or the       *)
(* failure not counted.                                                    *)
LoadOpenedUntil(c) ==
    /\ pc[c] = "opened"
    /\ IF OpenFor(c)
       THEN Return(c)
       ELSE Goto(c, "last") /\ UNCHANGED <<now, newFailCount>>
    /\ UNCHANGED <<clock, entry, failures>>

Expired(c) == lastFailure # 0 /\ now[c] - lastFailure > Window

(* where each operation goes on once it has dealt with the window *)
AfterWindow(c) == IF op[c] = "allow" THEN "clear" ELSE "add"

LoadLastFailure(c) ==
    /\ pc[c] = "last"
    /\ Goto(c, IF Expired(c) THEN "expire" ELSE AfterWindow(c))
    /\ UNCHANGED <<clock, entry, now, newFailCount, failures>>

(* entry.failCount.Store(0) *)
ExpireFailures(c) ==
    /\ pc[c] = "expire"
    /\ failCount' = 0
    /\ Goto(c, AfterWindow(c))
    /\ UNCHANGED <<clock, lastFailure, openedUntil, now, newFailCount,
                   failures>>

-----------------------------------------------------------------------------
(* AllowRequest, from the load of openedUntil on *)

(* entry.openedUntil.Store(time.Time{}); return true *)
AllowClear(c) ==
    /\ At(c, "allow", "clear")
    /\ openedUntil' = 0
    /\ Enter(c, "call", "sent")
    /\ now' = [now EXCEPT ![c] = 0]
    /\ UNCHANGED <<clock, failCount, lastFailure, newFailCount, failures>>

(* The webhook answered, or it did not: forwardToWebhookWithRetry returns  *)
(* no error, and RecordSuccess begins, or it returns one.                  *)
CallSucceeds(c) ==
    /\ At(c, "call", "sent")
    /\ Enter(c, "success", "reset")
    /\ UNCHANGED <<clock, entry, now, newFailCount, failures>>

CallFails(c) == At(c, "call", "sent") /\ ReadClock(c, "failure")

-----------------------------------------------------------------------------
(* RecordSuccess *)

(* Mutant of SuccessResets: the count survives a success. *)
SuccessKeepsCount(c) ==
    /\ At(c, "success", "reset")
    /\ failures' = <<>>
    /\ Goto(c, "forget")
    /\ UNCHANGED <<clock, entry, now, newFailCount>>

SuccessResets(c) ==
    /\ At(c, "success", "reset")
    /\ failCount' = 0
    /\ failures' = <<>>
    /\ Goto(c, "forget")
    /\ UNCHANGED <<clock, lastFailure, openedUntil, now, newFailCount>>

SuccessForgets(c) ==
    /\ At(c, "success", "forget")
    /\ lastFailure' = 0
    /\ Goto(c, "close")
    /\ UNCHANGED <<clock, failCount, openedUntil, now, newFailCount, failures>>

SuccessCloses(c) ==
    /\ At(c, "success", "close")
    /\ openedUntil' = 0
    /\ Return(c)
    /\ UNCHANGED <<clock, failCount, lastFailure, failures>>

-----------------------------------------------------------------------------
(* RecordFailure, from the count on *)

Latest(s) == IF Len(s) > Threshold THEN Tail(s) ELSE s

(* newFailCount := entry.failCount.Add(1) *)
CountFailure(c) ==
    /\ At(c, "failure", "add")
    /\ failCount' = failCount + 1
    /\ newFailCount' = [newFailCount EXCEPT ![c] = failCount + 1]
    /\ failures' = Latest(Append(failures, clock))
    /\ Goto(c, "stamp")
    /\ UNCHANGED <<clock, lastFailure, openedUntil, now>>

(* entry.lastFailure.Store(now) *)
Stamp(c) == lastFailure' = now[c]

(* the store, and the comparison of the count with the threshold *)
StampFailure(c) ==
    /\ At(c, "failure", "stamp")
    /\ Stamp(c)
    /\ IF newFailCount[c] >= Threshold
       THEN Goto(c, "restart") /\ UNCHANGED <<now, newFailCount>>
       ELSE Return(c)
    /\ UNCHANGED <<clock, failCount, openedUntil, failures>>

(* Mutant of TripResets: the count goes on from the threshold. *)
TripKeepsCount(c) ==
    /\ At(c, "failure", "restart")
    /\ Goto(c, "open")
    /\ UNCHANGED <<clock, entry, now, newFailCount, failures>>

(* entry.failCount.Store(0) *)
TripResets(c) ==
    /\ At(c, "failure", "restart")
    /\ failCount' = 0
    /\ Goto(c, "open")
    /\ UNCHANGED <<clock, lastFailure, openedUntil, now, newFailCount,
                   failures>>

(* Mutant of TripUntil: the cooldown is added to a circuit already open. *)
TripExtends(c) == IF openedUntil > now[c] THEN openedUntil + Cooldown
                  ELSE now[c] + Cooldown

TripUntil(c) == now[c] + Cooldown

(* entry.openedUntil.Store(now.Add(cb.cooldown)) *)
TripOpens(c) ==
    /\ At(c, "failure", "open")
    /\ openedUntil' = TripUntil(c)
    /\ Return(c)
    /\ UNCHANGED <<clock, failCount, lastFailure, failures>>

-----------------------------------------------------------------------------
AllowRequest(c) == At(c, "none", "idle") /\ ReadClock(c, "allow")

Next == \/ \E c \in Caller :
              \/ AllowRequest(c) \/ LoadOpenedUntil(c) \/ LoadLastFailure(c)
              \/ ExpireFailures(c) \/ AllowClear(c)
              \/ CallSucceeds(c) \/ CallFails(c)
              \/ SuccessResets(c) \/ SuccessForgets(c) \/ SuccessCloses(c)
              \/ CountFailure(c) \/ StampFailure(c)
              \/ TripResets(c) \/ TripOpens(c)
        \/ Tick

Spec == Init /\ [][Next]_vars

-----------------------------------------------------------------------------
(* Properties of any number of callers *)

(* Times never lie in the future, and a caller between operations keeps no *)
(* local of the last one.                                                  *)
TypeOK ==
    /\ clock \in Nat
    /\ failCount \in Nat /\ openedUntil \in Nat
    /\ lastFailure \in Nat /\ lastFailure <= clock
    /\ op \in [Caller -> {"none", "allow", "call", "success", "failure"}]
    /\ pc \in [Caller -> {"idle", "opened", "last", "expire", "clear", "sent",
                          "reset", "forget", "close",
                          "add", "stamp", "restart", "open"}]
    /\ now \in [Caller -> Nat]
    /\ newFailCount \in [Caller -> Nat]
    /\ failures \in Seq(Nat) /\ Len(failures) <= Threshold
    /\ \A c \in Caller : /\ now[c] <= clock
                         /\ pc[c] = "idle" <=> op[c] = "none"
                         /\ pc[c] = "idle" => now[c] = 0 /\ newFailCount[c] = 0

Tripping(c) == /\ newFailCount[c] >= Threshold
               /\ pc[c] \in {"stamp", "restart"}

(* The count reaches the threshold only while the caller that took it      *)
(* there, or past it, is on its way to open the circuit: no series of      *)
(* failures is counted and leaves the circuit closed unnoticed.            *)
ThresholdIsNoticed == failCount >= Threshold => \E c \in Caller : Tripping(c)

(* Whatever is stored by callers that overlap, the circuit is never open   *)
(* for longer than one cooldown from now.                                  *)
OpenBounded == openedUntil <= clock + Cooldown

(* The count never runs ahead of the failures seen since the last success: *)
(* a circuit does not trip on fewer than Threshold of them.                *)
CountIsBacked == Len(failures) < Threshold => failCount <= Len(failures)

-----------------------------------------------------------------------------
(* What the constants say and the code does not do *)

(* DefaultCircuitBreakerCooldown "is how long the breaker stays open":     *)
(* only the outcome of a call may end that early. Violated by an           *)
(* AllowRequest that loaded openedUntil before another caller tripped the  *)
(* circuit and clears it afterwards.                                       *)
OnlyOutcomesClose ==
    [][openedUntil > clock /\ openedUntil' < openedUntil
       => \E c \in Caller :
             pc[c] \in {"close", "open"} /\ pc'[c] = "idle"]_vars
=============================================================================
