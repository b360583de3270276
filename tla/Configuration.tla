---------------------------- MODULE Configuration ----------------------------
(***************************************************************************)
(* From the configuration file and the environment of the process to the   *)
(* settings the forwarder runs with (internal/config, the override helpers *)
(* of cmd/main.go, NewWebhookForwarder).                                   *)
(*                                                                         *)
(* A configuration is the struct Config, its integers together in `int`.   *)
(* A name whose capitals can matter is a pair <<name, spelling>>: two      *)
(* pairs are equal after strings.ToLower when their names are. A variable  *)
(* of the environment that is not set is "" (or its counterpart).          *)
(***************************************************************************)
EXTENDS Integers, Sequences

CONSTANTS
    AtMost,        \* AtMost[f]: the greatest value Validate lets pass
    AtLeast,       \* AtLeast[f]: where the range that the comment of field
                   \* f gives begins; the code compares nothing with it
    Default,       \* Default[f]: what replaces a value that is not positive
    Millisecond,   \* in units of time.Duration, which are nanoseconds
    Second,
    Width,         \* 64, the bits of a time.Duration
    NoUrl          \* the empty string in a list of URLs

IntField == {"WorkerCount", "QueueSize", "MaxRetries", "BaseRetryDelayMs",
             "MaxRetryDelaySeconds", "CircuitBreakerFailThreshold",
             "CircuitBreakerWindowSeconds", "CircuitBreakerCooldownSeconds",
             "WebhookTimeoutMs", "MaxConnectionsPerHost"}

(* the fields NewWebhookForwarder takes; the others steer nothing *)
Setting == {"MaxRetries", "BaseRetryDelayMs", "MaxRetryDelaySeconds",
            "CircuitBreakerFailThreshold", "CircuitBreakerWindowSeconds",
            "CircuitBreakerCooldownSeconds", "WebhookTimeoutMs"}

BoolField == {"SkipHealthChecks", "Debug", "EnableJitter"}

(* what a field counts *)
Unit(f) == IF f \in {"MaxRetries", "CircuitBreakerFailThreshold"} THEN 1
           ELSE IF f \in {"BaseRetryDelayMs", "WebhookTimeoutMs"}
                THEN Millisecond ELSE Second

ASSUME LimitAssumption ==
    /\ AtMost \in [IntField -> Nat \ {0}] /\ Default \in [Setting -> Nat \ {0}]
    /\ AtLeast \in [IntField -> Nat]
    /\ \A f \in Setting : Default[f] \in AtLeast[f]..AtMost[f]
    /\ Millisecond \in Nat \ {0} /\ Second \in Nat \ {0}
    /\ Width \in Nat \ {0}
    /\ \A f \in Setting : AtMost[f] * Unit(f) < 2^(Width - 1)
    (* nor do the waits wrap: those of the last attempts, and with jitter *)
    /\ AtMost["BaseRetryDelayMs"] * Millisecond * 2^(AtMost["MaxRetries"] - 1)
          < 2^(Width - 1)
    /\ 5 * (AtMost["MaxRetryDelaySeconds"] * Second) < 4 * 2^(Width - 1)

(* an int, which has as many bits *)
Machine == -(2^(Width - 1)) .. 2^(Width - 1) - 1

Webhook == [at : STRING \X STRING, rest : STRING, parses : BOOLEAN]

(* the struct Config, without the two fields nothing reads *)
Config == [Environment : STRING \X STRING, SNSTopicArn : STRING,
           WebhookURLs : Seq(Webhook), CloudWebhookURLs : Seq(Webhook),
           EnterpriseWebhookURLs : Seq(Webhook),
           bool : [BoolField -> BOOLEAN], int : [IntField -> Machine],
           ConnectionWarmup : BOOLEAN]

(* The environment; in `int` a sequence is empty or of one number. *)
Environ == [ENV : STRING \X STRING, ENVIRONMENT : STRING \X STRING,
            SNS_TOPIC_ARN : STRING, WEBHOOK_URLS : Seq(Webhook),
            bool : [BoolField -> STRING],
            int : [IntField \ {"MaxConnectionsPerHost"} -> Seq(Machine)]]

NumberOfUrls(c) == Len(c.WebhookURLs) + Len(c.CloudWebhookURLs)
                                      + Len(c.EnterpriseWebhookURLs)

(* Nothing is asked of the lower ends. *)
Validate(c) == /\ c.SNSTopicArn # ""
               /\ NumberOfUrls(c) > 0
               /\ \A f \in IntField : c.int[f] <= AtMost[f]

normalizeEnv(env) == IF env[1] = "" THEN "dev" ELSE env[1]

(* ENV, or else ENVIRONMENT *)
EnvOf(environ) ==
    IF environ.ENV[1] # "" THEN environ.ENV ELSE environ.ENVIRONMENT

(* `file` is configs/config.test.yml on disk or an embedded file; <<>> when *)
(* it cannot be read or is not YAML. *)
Loads(environ, file) ==
    /\ normalizeEnv(EnvOf(environ)) \in {"dev", "qa", "prod", "test"}
    /\ file # <<>>
    /\ Validate(file[1])

FirstSet(value, current) == IF value # "" THEN value ELSE current

(* any value but "true" and "1" means false *)
BoolOf(value, current) ==
    IF value = "" THEN current ELSE value \in {"true", "1"}

(* Mutant of IntOf: only a value the file leaves open is overridden. *)
IntIfUnset(value, current) ==
    IF value # <<>> /\ current = 0 THEN value[1] ELSE current

(* `value` is <<n>> where strconv.Atoi reads n; unset and unreadable: <<>> *)
IntOf(value, current) == IF value # <<>> THEN value[1] ELSE current

(* The parts between the commas of WEBHOOK_URLS that are not empty: a set  *)
(* variable of commas only empties the list.                               *)
parseWebhookURLs(parts) == SelectSeq(parts, LAMBDA url : url # NoUrl)

(* applyOverrides; the environment gives no MaxConnectionsPerHost. The     *)
(* Environment is taken as it is spelled there.                            *)
Overridden(c, environ) ==
    [c EXCEPT
       !.SNSTopicArn = FirstSet(environ.SNS_TOPIC_ARN, @),
       !.Environment = IF EnvOf(environ)[1] # "" THEN EnvOf(environ) ELSE @,
       !.bool = [f \in BoolField |-> BoolOf(environ.bool[f], @[f])],
       !.int = [f \in IntField |->
                   IF f \in DOMAIN environ.int
                   THEN IntOf(environ.int[f], @[f]) ELSE @[f]],
       !.WebhookURLs = IF environ.WEBHOOK_URLS = <<>> THEN @
                       ELSE parseWebhookURLs(environ.WEBHOOK_URLS)]

(* A product of 64 bits wraps round. *)
Wrapped(n) == ((n + 2^(Width - 1)) % 2^Width) - 2^(Width - 1)

(* Mutant of Effective: zero is replaced, a negative value is not. *)
ZeroIsDefault(f, n) == IF n = 0 THEN Default[f] * Unit(f)
                       ELSE Wrapped(n * Unit(f))

(* The field is turned into a duration first, then a value that is not     *)
(* positive is replaced.                                                   *)
Effective(f, n) == LET d == Wrapped(n * Unit(f))
                   IN  IF d <= 0 THEN Default[f] * Unit(f) ELSE d

(* What NewWebhookForwarder makes of the configuration. The constructors   *)
(* of the retry strategy and the breaker repeat the defaults and find      *)
(* nothing left to replace. *)
Settings(c) == [value |-> [f \in Setting |-> Effective(f, c.int[f])],
                EnableJitter |-> c.bool["EnableJitter"]]

RetryOf(s) == [MaxRetries |-> s.value["MaxRetries"],
               BaseDelay |-> s.value["BaseRetryDelayMs"],
               MaxDelay |-> s.value["MaxRetryDelaySeconds"],
               EnableJitter |-> s.EnableJitter]
=============================================================================
