------------------------------- MODULE MCBridge -------------------------------
(***************************************************************************)
(* Files and environments that differ from an ordinary one in a field or   *)
(* in a variable, at, below and above each limit and so negative that a    *)
(* duration wraps; every policy of a grid of delays; and events whose      *)
(* headers and queries come in both forms and several spellings.           *)
(***************************************************************************)
EXTENDS Bridge, TLC

MCAtMost == [f \in IntField |->
    CASE f = "MaxRetries" -> 5           [] f = "BaseRetryDelayMs" -> 7
      [] f = "MaxRetryDelaySeconds" -> 20 [] f = "WebhookTimeoutMs" -> 8
      [] OTHER -> 3]

MCAtLeast == [f \in IntField |->
    CASE f = "MaxRetries" -> 0
      [] f \in {"BaseRetryDelayMs", "WebhookTimeoutMs",
                "CircuitBreakerWindowSeconds",
                "CircuitBreakerCooldownSeconds"} -> 2
      [] OTHER -> 1]

MCDefault == [f \in Setting |->
    CASE f = "MaxRetries" -> 3           [] f = "MaxRetryDelaySeconds" -> 5
      [] OTHER -> 2]

Url(name, spelling, rest, parses) ==
    [at |-> <<name, spelling>>, rest |-> rest, parses |-> parses]

MCNoUrl == Url("", "lower", "", TRUE)
Hook == Url("host/hook", "lower", "https", TRUE)
HookWithQuery == Url("host/hook", "Host", "https ?bot", TRUE)
Other == Url("host/other", "lower", "http", TRUE)
Broken == Url("host/hook", "lower", "%", FALSE)

Unset == <<"", "lower">>
NoInt == [f \in IntField \ {"MaxConnectionsPerHost"} |-> <<>>]
NoBool == [f \in BoolField |-> ""]

Silent == [ENV |-> Unset, ENVIRONMENT |-> Unset, SNS_TOPIC_ARN |-> "",
           WEBHOOK_URLS |-> <<>>, bool |-> NoBool, int |-> NoInt]

File == [Environment |-> Unset, SNSTopicArn |-> "arn", WebhookURLs |-> <<>>,
         CloudWebhookURLs |-> <<Hook, HookWithQuery>>,
         EnterpriseWebhookURLs |-> <<Other>>,
         bool |-> [f \in BoolField |-> f = "EnableJitter"],
         int |-> [f \in IntField |-> 0], ConnectionWarmup |-> FALSE]

Extremes(f) == {-200, -100, -1, 0, 1, MCAtMost[f], MCAtMost[f] + 1}

OddFiles ==
    {<<>>, <<[File EXCEPT !.SNSTopicArn = ""]>>,
     <<[File EXCEPT !.CloudWebhookURLs = <<>>, !.EnterpriseWebhookURLs = <<>>]>>,
     <<[File EXCEPT !.ConnectionWarmup = TRUE]>>,
     <<[File EXCEPT !.WebhookURLs = <<Broken, MCNoUrl>>,
                    !.ConnectionWarmup = TRUE]>>}
    \cup UNION {{<<[File EXCEPT !.int[f] = n]>> : n \in Extremes(f)} :
                   f \in IntField}

OddEnvirons ==
    {[Silent EXCEPT !.ENV = env] :
        env \in {<<"prod", "PROD">>, <<"test", "lower">>, <<"stage", "lower">>}}
    \cup {[Silent EXCEPT !.ENVIRONMENT = <<"qa", "lower">>],
          [Silent EXCEPT !.SNS_TOPIC_ARN = "arn2"],
          [Silent EXCEPT !.WEBHOOK_URLS = <<MCNoUrl, MCNoUrl>>],
          [Silent EXCEPT !.WEBHOOK_URLS = <<Broken, MCNoUrl, Other>>]}
    \cup {[Silent EXCEPT !.bool["EnableJitter"] = b] : b \in {"true", "1", "no"}}
    \cup UNION {{[Silent EXCEPT !.int[f] = <<n>>] : n \in Extremes(f)} :
                   f \in DOMAIN NoInt}

Onto(file) == {[file |-> file, environ |-> e] : e \in OddEnvirons}

Grid == {[File EXCEPT !.int["MaxRetries"] = 5, !.bool["EnableJitter"] = jitter,
                      !.int["BaseRetryDelayMs"] = base,
                      !.int["MaxRetryDelaySeconds"] = most] :
            base \in {1, 2, 3, 5, 7}, most \in {1, 2, 3, 9, 20},
            jitter \in BOOLEAN}

MCScenario ==
    {[file |-> file, environ |-> Silent] : file \in OddFiles}
    \cup Onto(<<File>>)
    \cup Onto(<<[File EXCEPT !.int["MaxRetries"] = 2,
                             !.int["BaseRetryDelayMs"] = 3]>>)
    \cup Onto(<<[File EXCEPT !.CloudWebhookURLs = <<>>,
                             !.EnterpriseWebhookURLs = <<>>,
                             !.WebhookURLs = <<Hook>>]>>)
    \cup {[file |-> <<c>>, environ |-> Silent] : c \in Grid}

MCDecoded == "b64" :> "text"

Key(name, spelling) == <<name, spelling>>
GitHub == Key("X-GitHub-Event", "lower") :> <<"push">>

MultiHeaders ==
    {Empty, GitHub,
     GitHub @@ (Key("Accept", "lower") :> <<"a", "b">>)
            @@ (Key("Accept", "upper") :> <<"c">>),
     GitHub @@ (Key("X-Request-Id", "lower") :> <<"theirs">>)
            @@ (Key("Content-Type", "lower") :> <<>>),
     GitHub @@ (Key("User-Agent", "lower") :> <<"", "their agent">>)}

SingleHeaders ==
    {Empty, (Key("X-GitHub-Event", "lower") :> "push")
            @@ (Key("Accept", "lower") :> "x") @@ (Key("Accept", "upper") :> "y"),
     (Key("X-GitHub-Event", "lower") :> "") @@ (Key("Content-Type", "lower") :> "t")
                                            @@ (Key("Content-Type", "upper") :> "")}

EventOf(line, body, multi, single, query) ==
    [HTTPMethod |-> line[1], Path |-> line[2], TargetGroupArn |-> "tg",
     IsBase64Encoded |-> body[1], Body |-> body[2], MultiValueHeaders |-> multi,
     Headers |-> single, MultiValueQuery |-> query[1], Query |-> query[2]]

Lines == {<<"POST", "/github">>, <<"", "">>}
Bodies == {<<TRUE, "b64">>, <<TRUE, "text">>, <<FALSE, "text">>}
NoQuery == <<Empty, Empty>>
Query == <<("q" :> <<"1", "2">>) @@ ("r" :> <<>>), "r" :> "3">>

MCEvent ==
    {EventOf(line, body, GitHub, Empty, Query) : line \in Lines, body \in Bodies}
    \cup {EventOf(<<"POST", "/github">>, <<TRUE, "b64">>, multi, single, query) :
             multi \in MultiHeaders, single \in SingleHeaders,
             query \in {NoQuery, Query}}
=============================================================================
