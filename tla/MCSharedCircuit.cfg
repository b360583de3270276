SPECIFICATION SharedSpec
CONSTANTS
    Caller = {c1, c2}
    Threshold = 2
    Window = 1
    Cooldown = 1
    MaxTime = 3
    Webhook = {good, bad}
    Healthy = {good}
INVARIANTS
    ThresholdIsNoticed
    OpenBounded
    CountIsBacked
    OpensByFaults
SYMMETRY Interchangeable
