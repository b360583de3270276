SPECIFICATION Spec
CONSTANTS
    Caller = {c1, c2}
    Threshold = 2
    Window = 1
    Cooldown = 2
    MaxTime = 3
PROPERTY OnlyOutcomesClose
