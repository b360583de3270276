SPECIFICATION FairSpec
CONSTANTS
    Url = {u1, u2}
    RetryStrategy <- SmallPolicy
    MaxRetries = 1
    BaseDelay = 1
    MaxDelay = 1
    EnableJitter = FALSE
    CtxDeadline = 2
    WebhookTimeout = 2
    RetryMargin = 1
    ClientTimeout = 1
    MaxTime = 2
INVARIANTS
    OutcomesAgree
    DuplicatesOnlyAfterLoss
PROPERTIES
    RetriesSpaced
    TimeEndsCall
    CancelEndsCall
