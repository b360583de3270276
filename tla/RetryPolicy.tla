----------------------------- MODULE RetryPolicy -----------------------------
(***************************************************************************)
(* The decisions of ExponentialBackoffRetry (internal/forwarder/retry.go)  *)
(* and the classification of errors behind them (errors.go): what is tried *)
(* again, and after how long. A policy p is the struct's four fields;      *)
(* durations are whole units, in place of nanoseconds.                     *)
(*                                                                         *)
(* What an attempt came to is one of                                       *)
(*   "ok"      an answer with a status below 400                           *)
(*   "client"  an HTTPError with a 4xx status, "server" with a 5xx one     *)
(*   "timeout" ErrTimeout, "network" any other error of the call           *)
(*   "open"    ErrCircuitBreakerOpen                                       *)
(* forwardToWebhook gives every status from 400 up an HTTPError, so the    *)
(* branches of ShouldRetry for a bare 4xx or 5xx agree with IsRetryable.   *)
(***************************************************************************)
EXTENDS Integers

CONSTANT Wrapped(_)     \* an integer in the bits of a time.Duration

Outcome == {"ok", "client", "server", "timeout", "network", "open"}

Policy(retries, bases, maxima, jitters) ==
    [MaxRetries : retries, BaseDelay : bases, MaxDelay : maxima,
     EnableJitter : jitters]

IsRetryable(o) == o \notin {"ok", "client", "open"}

ShouldRetry(p, attempt, o) == attempt < p.MaxRetries /\ IsRetryable(o)

(* Mutant of Backoff: the doubled delay is not capped. *)
UncappedBackoff(p, attempt) == Wrapped(p.BaseDelay * 2^(attempt - 1))

(* The delay before jitter. Attempts count from 1 here. The cap comes too  *)
(* late for a product that has wrapped to a negative delay.                *)
Backoff(p, attempt) ==
    LET delay == Wrapped(p.BaseDelay * 2^(attempt - 1))
    IN  IF delay > p.MaxDelay THEN p.MaxDelay ELSE delay

(* Mutant of Variance: half of the delay instead of a quarter. *)
HalfVariance(delay) == delay \div 2

Variance(delay) == delay \div 4

(* rand.Int63n(2v) - v lies in -v .. v-1, and the sum is kept at or above  *)
(* BaseDelay, which may itself be above MaxDelay.                          *)
Jittered(p, delay) ==
    {LET sum == Wrapped(delay + jitter)
     IN  IF sum < p.BaseDelay THEN p.BaseDelay ELSE sum :
        jitter \in -Variance(delay) .. Variance(delay) - 1}

(* the delays NextDelay may return *)
NextDelay(p, attempt) ==
    IF attempt <= 0 THEN {0}
    ELSE LET delay == Backoff(p, attempt)
         IN  IF p.EnableJitter /\ Variance(delay) > 0
             THEN Jittered(p, delay)
             ELSE {delay}
=============================================================================
