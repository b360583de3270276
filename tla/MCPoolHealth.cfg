SPECIFICATION Spec
CONSTANTS
    Worker = {w1, w2, w3}
    Threshold = 2
    MaxResults = 7
INVARIANTS
    WrongOnlyAfterOverlap
SYMMETRY Interchangeable
CHECK_DEADLOCK FALSE
