------------------------------- MODULE Payload -------------------------------
(***************************************************************************)
(* The HTTP request a webhook gets for an event                            *)
(* (internal/forwarder/payload.go, headers.go).                            *)
(*                                                                         *)
(* The keys of an event's header maps are pairs <<name, spelling>>: name   *)
(* stands for what CanonicalMIMEHeaderKey makes of the key. Headers and    *)
(* queries are functions from the names present to sequences of values; a  *)
(* query stands for its encoding, which is sorted by key. Go iterates over *)
(* a map in any order, so several results are possible where keys of one   *)
(* name differ in spelling; the operators return the set of them.          *)
(***************************************************************************)
EXTENDS Sequences, FiniteSets, SequencesExt

CONSTANT Decoded     \* Decoded[b]: the base64 body b decoded, where it is one

Get(h, name) ==
    IF name \in DOMAIN h /\ h[name] # <<>> THEN h[name][1] ELSE ""

Set(h, name, value) ==
    [n \in DOMAIN h \cup {name} |-> IF n = name THEN <<value>> ELSE h[n]]

SetIfEmpty(h, name, value) == IF Get(h, name) = "" THEN Set(h, name, value)
                                                   ELSE h

Spellings(map, name) == {key \in DOMAIN map : key[1] = name}

(* Mutant of Values: the values of one spelling only. *)
ValuesOfOne(map, name) == {map[key] : key \in Spellings(map, name)}

(* all values under a name, key by key in any order *)
Values(map, name) == {FlattenSeq([i \in DOMAIN keys |-> map[keys[i]]]) :
                          keys \in SetToSeqs(Spellings(map, name))}

(* The headers with several values win over those with a single one, of    *)
(* which the first key met wins. *)
mergeHeaders(e) ==
    LET multi(name) == Values(e.MultiValueHeaders, name) \ {<<>>}
        single(name) == {<<e.Headers[key]>> : key \in Spellings(e.Headers, name)}
        choices(name) == IF multi(name) # {} THEN multi(name) ELSE single(name)
        names == {name \in {key[1] : key \in DOMAIN e.MultiValueHeaders
                                             \cup DOMAIN e.Headers} :
                     choices(name) # {}}
    IN  {h \in [names -> UNION {choices(name) : name \in names}] :
            \A name \in names : h[name] \in choices(name)}

buildRawQuery(e) ==
    LET multi == {key \in DOMAIN e.MultiValueQuery :
                     e.MultiValueQuery[key] # <<>>}
    IN  [key \in multi \cup DOMAIN e.Query |->
            IF key \in multi THEN e.MultiValueQuery[key] ELSE <<e.Query[key]>>]

Empty == [key \in {} |-> <<>>]

BodyDecodes(e) == e.IsBase64Encoded => e.Body \in DOMAIN Decoded

extractBody(e) == IF e.IsBase64Encoded THEN Decoded[e.Body] ELSE e.Body

(* headers that tell the webhook what the request to the balancer was *)
WithOrigin(h, e) ==
    LET typed == SetIfEmpty(h, "Content-Type", "application/json")
        path == IF e.Path = "" THEN typed
                ELSE Set(typed, "X-Original-Path", e.Path)
        query == IF buildRawQuery(e) = Empty THEN path
                 ELSE Set(path, "X-Original-Raw-Query", buildRawQuery(e))
        group == IF e.TargetGroupArn = "" THEN query
                 ELSE Set(query, "X-Original-Target-Group-Arn",
                          e.TargetGroupArn)
    IN  Set(group, "X-Original-Base64-Encoded",
            IF e.IsBase64Encoded THEN "true" ELSE "false")

defaultHeaders ==
    [name \in {"Content-Type", "User-Agent"} |->
        IF name = "Content-Type" THEN <<"application/json">>
                                 ELSE <<"lambda-bridge/1.0">>]

(* A GitHub event is translated; anything else, and a body that cannot be  *)
(* decoded, is sent as the JSON of the whole event. *)
newWebhookPayload(e) ==
    {IF BodyDecodes(e) /\ Get(h, "X-GitHub-Event") # ""
     THEN [method |-> e.HTTPMethod, body |-> <<"body", extractBody(e)>>,
           headers |-> WithOrigin(h, e), rawQuery |-> buildRawQuery(e)]
     ELSE [method |-> "POST", body |-> <<"event", e>>,
           headers |-> defaultHeaders, rawQuery |-> Empty] :
         h \in mergeHeaders(e)}

(* The breaker's key for a webhook: its host and path in lower case, or,   *)
(* where it is not a URL, what was configured. A webhook u is a record of  *)
(* `at`, which is <<host and path, spelling>>, the rest of the URL (scheme *)
(* and query) and whether url.Parse accepts it. Webhooks of one host and   *)
(* path share a circuit (SharedCircuit); a URL with neither has the empty  *)
(* key, for which the breaker keeps none.                                  *)
urlHash(u) == IF u.parses THEN <<"at", u.at[1]>> ELSE <<"url", u>>

(* The ID is a new one whatever the event brought along: no context ever   *)
(* carries one, and TraceIDFromContext finds none either.                  *)
newPreparedRequest(u, p, id) ==
    LET typed == SetIfEmpty(p.headers, "Content-Type", "application/json")
        named == SetIfEmpty(typed, "User-Agent", "lambda-bridge/1.0")
    IN  [method |-> IF p.method = "" THEN "POST" ELSE p.method,
         url |-> [webhook |-> u, added |-> IF u.parses THEN p.rawQuery
                                                       ELSE Empty],
         headers |-> Set(named, "X-Request-Id", id),
         body |-> p.body,
         urlHash |-> urlHash(u)]
=============================================================================
