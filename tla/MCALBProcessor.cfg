SPECIFICATION FairSpec
CONSTANTS
    u1 = u1
    u2 = u2
    NoUrl = NoUrl
    Url = {u1, u2}
    Request = {r1, r2}
    QueueSize = 1
    MaxPools = 3
    WebhookURLs <- BothURLs
    CloudWebhookURLs <- NoURLs
    EnterpriseWebhookURLs <- OneURL
    SkipHealthChecks = TRUE
    MaxOverflow = 1
INVARIANTS
    OnePoolPerUrl
    SlotsAccounted
    EveryUrlAccounted
PROPERTIES
    PoolsStay
    AlwaysResponds
