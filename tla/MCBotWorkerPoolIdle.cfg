SPECIFICATION FairSpec
CONSTANTS
    NoJob = NoJob
    Jobs = {j1}
    Worker = {w1, w2}
    InitialWorkers = 2
    MinWorkers = 1
    MaxWorkers = 2
    QueueSize = 2
    ScaleUpStep = 5
    ScaleDownStep = 2
PROPERTY LoweredTargetReached
