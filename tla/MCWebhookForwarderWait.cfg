SPECIFICATION Spec
CONSTANTS
    Url = {u1}
    RetryStrategy <- SmallPolicy
    MaxRetries = 3
    BaseDelay = 2
    MaxDelay = 10
    EnableJitter = FALSE
    CtxDeadline = 30
    WebhookTimeout = 12
    RetryMargin = 5
    ClientTimeout = 10
    MaxTime = 30
PROPERTY
    WakesInTime
