SPECIFICATION FairSpec
CONSTANTS
    NoJob = NoJob
    Jobs = {j1, j2}
    Worker = {w1, w2, w3}
    InitialWorkers = 2
    MinWorkers = 1
    MaxWorkers = 2
    QueueSize = 2
    ScaleUpStep = 5
    ScaleDownStep = 2
INVARIANTS
    WorkersWithinMax
    QueueDepthAccurate
    ShutdownWaitsForAll
PROPERTIES
    AddsWhileCounted
    PoolSpec
    ShutdownReturns
    FullQueueDrains
    ServedWhileCounted
