------------------------------- MODULE Bridge -------------------------------
(***************************************************************************)
(* The life of the process (cmd/main.go): configuration, start-up, serving *)
(* and the deferred shutdowns. While it serves, this module has the two    *)
(* things that depend on the configuration and on nothing concurrent: the  *)
(* request made of an event for each webhook, and the waits of a series of *)
(* failing attempts. What runs concurrently is in the other modules, which *)
(* assume of their settings what SettingsInRange says: positive numbers.   *)
(***************************************************************************)
EXTENDS Configuration, Payload, ConnectionWarmer

INSTANCE RetryPolicy

CONSTANTS
    Scenario,    \* pairs of a configuration file, or none, and an environment
    Event        \* the ALB events that may arrive

ASSUME ScenarioAssumption ==
    Scenario \subseteq [file : Seq(Config), environ : Environ]

(* JSON objects, so their keys are finitely many *)
ASSUME EventAssumption ==
    \A e \in Event :
        /\ e.IsBase64Encoded \in BOOLEAN
        /\ IsFiniteSet(DOMAIN e.MultiValueHeaders)
        /\ e.MultiValueHeaders \in [DOMAIN e.MultiValueHeaders -> Seq(STRING)]
        /\ e.Headers \in [DOMAIN e.Headers -> STRING]
        /\ e.MultiValueQuery \in [DOMAIN e.MultiValueQuery -> Seq(STRING)]
        /\ e.Query \in [DOMAIN e.Query -> STRING]

VARIABLES
    phase,       \* where main is
    world,       \* the scenario the process finds
    config,      \* the Config, <<>> before it is loaded
    settings,    \* what the forwarder was created with, <<>> before
    open,        \* what has been set up and not been shut down
    request,     \* the last request prepared, as [event, webhook, sent]
    attempt,     \* the failed attempts of the series so far
    delay,       \* the wait that follows
    nominal      \* history: that wait by repeated doubling, without jitter

mainVars == <<phase, world, config, settings, open>>
callVars == <<request, attempt, delay, nominal>>
vars == <<mainVars, callVars, warmVars>>

Init == /\ phase = "start"
        /\ world \in Scenario
        /\ config = <<>> /\ settings = <<>> /\ open = {}
        /\ request = <<>>
        /\ attempt = 0 /\ delay = 0 /\ nominal = 0
        /\ WarmInit

(* log.Fatalf: the deferred calls are not made. *)
Exit == phase' = "exited" /\ UNCHANGED <<world, config, settings, open>>

(* The Config of the process: the file of its environment, then overrides. *)
Configured(w) ==
    Overridden([w.file[1] EXCEPT !.Environment =
                   <<normalizeEnv(EnvOf(w.environ)), "lower">>], w.environ)

(* The file must be valid by itself, and once more with the overrides. *)
Startable(w) == Loads(w.environ, w.file) /\ Validate(Configured(w))

(* mustLoadConfig *)
LoadConfig ==
    /\ phase = "start"
    /\ IF Startable(world)
       THEN /\ phase' = "configured"
            /\ config' = Configured(world)
            /\ UNCHANGED <<world, settings, open>>
       ELSE Exit
    /\ UNCHANGED <<callVars, warmVars>>

(* main goes on to `next` and has set up `part`. *)
SetUp(next, part) == /\ phase' = next
                     /\ open' = open \cup {part}
                     /\ UNCHANGED <<world, config>>

SetupAWS ==
    /\ phase = "configured"
    /\ \/ phase' = "connected" /\ UNCHANGED <<world, config, settings, open>>
       \/ Exit
    /\ UNCHANGED <<callVars, warmVars>>

SetupTelemetry ==
    /\ phase = "connected"
    /\ \/ SetUp("observed", "telemetry") /\ UNCHANGED settings
       \/ Exit
    /\ UNCHANGED <<callVars, warmVars>>

CreateForwarder ==
    /\ phase = "observed"
    /\ SetUp("forwarding", "forwarder")
    /\ settings' = Settings(config)
    /\ UNCHANGED <<callVars, warmVars>>

AllUrls == config.WebhookURLs \o config.CloudWebhookURLs
                              \o config.EnterpriseWebhookURLs

(* warmConnections, where it is configured and there is anything to warm *)
Warm == /\ phase = "forwarding"
        /\ phase' = "warming"
        /\ IF config.ConnectionWarmup /\ AllUrls # <<>>
           THEN StartWarming(AllUrls)
           ELSE UNCHANGED warmVars
        /\ UNCHANGED <<world, config, settings, open, callVars>>

Selected == WarmingReturns /\ UNCHANGED <<mainVars, callVars>>

TimePasses == WarmTick /\ UNCHANGED <<mainVars, callVars>>

DialStep == /\ \E i \in DOMAIN dial : DialEnds(i)
            /\ UNCHANGED <<mainVars, callVars>>

StartHandler ==
    /\ phase = "warming" /\ warming # "waiting"
    /\ SetUp("serving", "handler")
    /\ UNCHANGED <<settings, callVars, warmVars>>

(* A worker prepares the request of an event for a webhook, which is not   *)
(* an empty URL: those are skipped. Nothing is left of the event before.   *)
Translate(e, u) ==
    /\ phase = "serving" /\ attempt = 0 /\ request = <<>>
    /\ u # NoUrl
    /\ \E p \in newWebhookPayload(e) :
           request' = [event |-> e, webhook |-> u,
                       sent |-> newPreparedRequest(u, p, "new")]
    /\ UNCHANGED <<mainVars, attempt, delay, nominal, warmVars>>

Smaller(a, b) == IF a < b THEN a ELSE b

(* One more attempt of a series fails, and another one follows after the   *)
(* delay NextDelay gives it. The nominal wait is kept the way its comment  *)
(* says: doubled with every attempt, up to the maximum. *)
FailAgain ==
    /\ phase = "serving" /\ request = <<>>
    /\ LET p == RetryOf(settings)
       IN  /\ ShouldRetry(p, attempt, "server")
           /\ attempt' = attempt + 1
           /\ delay' \in NextDelay(p, attempt')
           /\ nominal' = Smaller(p.MaxDelay, IF attempt = 0 THEN p.BaseDelay
                                             ELSE 2 * nominal)
    /\ UNCHANGED <<mainVars, request, warmVars>>

(* lambda.Start returns; what was prepared or waited for is let go. *)
Stop == /\ phase = "serving"
        /\ phase' = "stopping"
        /\ request' = <<>> /\ attempt' = 0 /\ delay' = 0 /\ nominal' = 0
        /\ UNCHANGED <<world, config, settings, open, warmVars>>

(* Mutant of ShutDown: the deferred calls in the order they were deferred. *)
ShutDownInOrder ==
    /\ phase = "stopping" /\ open # {}
    /\ open' = IF "telemetry" \in open THEN open \ {"telemetry"}
               ELSE IF "forwarder" \in open THEN open \ {"forwarder"} ELSE {}
    /\ UNCHANGED <<phase, world, config, settings, callVars, warmVars>>

(* The deferred calls, the last one first; each ends, with an error or     *)
(* without, within its time. *)
ShutDown ==
    /\ phase = "stopping" /\ open # {}
    /\ open' = IF "handler" \in open THEN open \ {"handler"}
               ELSE IF "forwarder" \in open THEN open \ {"forwarder"} ELSE {}
    /\ UNCHANGED <<phase, world, config, settings, callVars, warmVars>>

MainStep == \/ LoadConfig \/ SetupAWS \/ SetupTelemetry \/ CreateForwarder
            \/ Warm \/ StartHandler

Next == \/ MainStep
        \/ Selected \/ TimePasses \/ DialStep
        \/ \E e \in Event : phase = "serving"
                           /\ \E i \in DOMAIN AllUrls : Translate(e, AllUrls[i])
        \/ FailAgain
        \/ Stop
        \/ ShutDown

(* main goes on where it can, time passes and the timer is served. Nothing *)
(* is assumed of the dials, of lambda.Start or of events. *)
Fairness == WF_vars(MainStep) /\ WF_vars(Selected) /\ WF_vars(TimePasses)

Spec == Init /\ [][Next]_vars /\ Fairness

-----------------------------------------------------------------------------
(* Types; and whatever the file and the environment say, negative values   *)
(* and values that wrap included, the forwarder is created with positive   *)
(* settings only. *)
TypeOK ==
    /\ phase \in {"start", "configured", "connected", "observed",
                  "forwarding", "warming", "serving", "stopping", "exited"}
    /\ config = <<>> => phase \in {"start", "exited"}
    /\ settings # <<>> => /\ \A f \in Setting : settings.value[f] \in Nat \ {0}
                          /\ settings.EnableJitter \in BOOLEAN
    /\ open \subseteq {"telemetry", "forwarder", "handler"}
    /\ warming \in {"off", "waiting", "returned"}
    /\ elapsed \in 0..WarmTimeout
    /\ \A i \in DOMAIN dial : dial[i] \in {"dialing", "over"}
    /\ attempt \in Nat /\ delay \in Int /\ nominal \in Nat

(* the file or the environment asks for a duration too negative for Width *)
Wraps(f) == config.int[f] * Unit(f) < -(2^(Width - 1))

(* the file or the environment asks for less than the documented range *)
TooSmall(f) == config.int[f] \in 1..AtLeast[f] - 1

(* What is served has a topic, a webhook, and settings in the ranges the   *)
(* comments of their fields give (config.go:24-35), wherever they came     *)
(* from, with two exceptions. Validate (config.go:43) compares nothing     *)
(* with the lower ends, so that a positive value below its range is used   *)
(* as it is; and one so negative that its duration wraps may be anything.  *)
(* All others, zero and negative ones too, end in the range (main.go:62).  *)
SettingsInRange ==
    /\ TypeOK
    /\ settings # <<>> =>
        /\ config.SNSTopicArn # ""
        /\ \E urls \in {config.WebhookURLs, config.CloudWebhookURLs,
                        config.EnterpriseWebhookURLs} : urls # <<>>
        /\ \A f \in Setting :
              \/ Wraps(f)
              \/ TooSmall(f) /\ settings.value[f] = config.int[f] * Unit(f)
              \/ settings.value[f]
                    \in AtLeast[f] * Unit(f)..AtMost[f] * Unit(f)

(* "Environment variables take precedence over YAML config values"         *)
(* (main.go:156): an integer of the environment that is positive and no    *)
(* greater than Validate allows is the one in effect, and where the        *)
(* environment is silent such an integer of the file is.                   *)
EnvironmentWins ==
    settings # <<>> =>
        \A f \in Setting :
            LET asked == IF world.environ.int[f] # <<>>
                         THEN world.environ.int[f][1]
                         ELSE world.file[1].int[f]
            IN  asked \in 1..AtMost[f] => settings.value[f] = asked * Unit(f)

(* A part is open only while the parts it uses are, in start-up and in     *)
(* shutdown, and an exit by log.Fatalf, which makes no deferred call,      *)
(* leaves nothing open (main.go:32-42). *)
DependenciesOpen ==
    /\ "handler" \in open => "forwarder" \in open
    /\ "forwarder" \in open => "telemetry" \in open
    /\ phase = "exited" => open = {}

(* headers the bridge sets itself *)
Ours == {"X-Request-Id", "X-Original-Path", "X-Original-Raw-Query",
         "X-Original-Target-Group-Arn", "X-Original-Base64-Encoded"}

(* what may come first under a name *)
FirstValues(e, name) ==
    LET multi == {e.MultiValueHeaders[key] :
                     key \in Spellings(e.MultiValueHeaders, name)} \ {<<>>}
    IN  IF multi # {} THEN {values[1] : values \in multi}
        ELSE {e.Headers[key] : key \in Spellings(e.Headers, name)}

(* A header the bridge has a default for is replaced as a whole where its  *)
(* first value is empty. *)
Replaced(e) == Ours \cup {name \in {"Content-Type", "User-Agent"} :
                             "" \in FirstValues(e, name)}

(* Every value of a header given with several, and of one given with a     *)
(* single value one that was given under the name, in any spelling.        *)
HeadersKept(e, h) ==
    /\ \A key \in DOMAIN e.MultiValueHeaders :
          key[1] \notin Replaced(e) =>
              \A v \in Range(e.MultiValueHeaders[key]) : v \in Range(h[key[1]])
    /\ \A key \in DOMAIN e.Headers :
          key[1] \notin Replaced(e)
          /\ Values(e.MultiValueHeaders, key[1]) = {<<>>} =>
              Get(h, key[1]) \in {e.Headers[k] : k \in Spellings(e.Headers, key[1])}

QueryKept(e, q) ==
    /\ \A key \in DOMAIN e.MultiValueQuery :
          \A v \in Range(e.MultiValueQuery[key]) : v \in Range(q[key])
    /\ \A key \in DOMAIN e.Query : key \in DOMAIN q

(* No part of an event is lost in translation: it is sent whole, or with   *)
(* its body decoded as its flag says, its headers, and its query both in   *)
(* the URL and in a header (payload.go, whatever the order of the maps).   *)
ContentKept ==
    request # <<>> =>
        LET e == request.event
            sent == request.sent
        IN  IF sent.body[1] = "event" THEN sent.body[2] = e
            ELSE /\ BodyDecodes(e) /\ sent.body[2] = extractBody(e)
                 /\ HeadersKept(e, sent.headers)
                 /\ QueryKept(e, buildRawQuery(e))
                 /\ request.webhook.parses =>
                       QueryKept(e, sent.url.added)

WaitsWrap == Wraps("BaseRetryDelayMs") \/ Wraps("MaxRetryDelaySeconds")

(* Every wait is within a quarter of the nominal one, except where jitter  *)
(* is raised to BaseDelay; without jitter it is the nominal one. The shift *)
(* and the cap of NextDelay agree with repeated doubling.                  *)
WaitsNearNominal ==
    attempt > 0 /\ ~WaitsWrap =>
        LET p == RetryOf(settings)
        IN  IF p.EnableJitter
            THEN \/ 3 * nominal <= 4 * delay /\ 4 * delay <= 5 * nominal
                 \/ delay = p.BaseDelay /\ delay > nominal - nominal \div 4
            ELSE delay = nominal

(* Jitter never reorders the waits: as long as the nominal wait doubles, a *)
(* later wait is longer than the one before, whatever the draw was.        *)
LaterWaitsLonger ==
    [][attempt > 0 /\ ~WaitsWrap /\ nominal' = 2 * nominal => delay' > delay]_vars

(* Once the configuration is accepted the process serves or has exited:    *)
(* warming does not hold it although no host answers (main.go:127).        *)
StartsUp == phase = "configured" ~> phase \in {"serving", "exited"}
=============================================================================
