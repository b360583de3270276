--------------------------- MODULE ConnectionWarmer ---------------------------
(***************************************************************************)
(* The warming of connections before the first event                       *)
(* (internal/forwarder/connection_warmer.go, warmConnections of main.go):  *)
(* a goroutine per webhook dials it, and the caller waits for all of them, *)
(* but no longer than a timer of its own. Hosts need not answer.           *)
(***************************************************************************)
EXTENDS Naturals

CONSTANT WarmTimeout     \* 5 s

ASSUME WarmAssumption == WarmTimeout \in Nat

VARIABLES
    dial,         \* dial[i]: "none", "dialing" or "over", for the i-th URL
    warming,      \* "off", "waiting" in the select, or "returned"
    elapsed       \* the time since warming began

warmVars == <<dial, warming, elapsed>>

WarmInit == /\ dial = <<>>
            /\ warming = "off"
            /\ elapsed = 0

(* The goroutines are started before the caller waits. A URL that cannot   *)
(* be parsed is not dialed. *)
StartWarming(urls) ==
    /\ warming = "off"
    /\ warming' = "waiting"
    /\ dial' = [i \in DOMAIN urls |->
                   IF urls[i].parses THEN "dialing" ELSE "over"]
    /\ UNCHANGED elapsed

(* The host answers or refuses, the dialer's timeout is over, or the       *)
(* context is done, which main cancels when WarmConnections has returned.  *)
DialEnds(i) ==
    /\ dial[i] = "dialing"
    /\ dial' = [dial EXCEPT ![i] = "over"]
    /\ UNCHANGED <<warming, elapsed>>

AllOver == \A i \in DOMAIN dial : dial[i] = "over"

(* Mutant of WarmingReturns: the caller waits for the goroutines only. *)
WaitForAll ==
    /\ warming = "waiting"
    /\ AllOver
    /\ warming' = "returned"
    /\ UNCHANGED <<dial, elapsed>>

(* the select: all goroutines are done, or the timer fires *)
WarmingReturns ==
    /\ warming = "waiting"
    /\ AllOver \/ elapsed >= WarmTimeout
    /\ warming' = "returned"
    /\ UNCHANGED <<dial, elapsed>>

WarmTick == /\ warming = "waiting"
            /\ elapsed < WarmTimeout
            /\ elapsed' = elapsed + 1
            /\ UNCHANGED <<dial, warming>>
=============================================================================
