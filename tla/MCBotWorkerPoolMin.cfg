SPECIFICATION Spec
CONSTANTS
    NoJob = NoJob
    Jobs = {j1, j2}
    Worker = {w1, w2}
    InitialWorkers = 2
    MinWorkers = 1
    MaxWorkers = 2
    QueueSize = 2
    ScaleUpStep = 5
    ScaleDownStep = 2
INVARIANT MinWorkersKept
