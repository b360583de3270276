SPECIFICATION Spec
CONSTANTS
    AtMost <- MCAtMost
    AtLeast <- MCAtLeast
    Default <- MCDefault
    Millisecond = 3
    Second = 6
    Width = 10
    NoUrl <- MCNoUrl
    Decoded <- MCDecoded
    WarmTimeout = 2
    Scenario <- MCScenario
    Event <- MCEvent
INVARIANTS
    SettingsInRange
    EnvironmentWins
    DependenciesOpen
    ContentKept
    WaitsNearNominal
PROPERTIES
    LaterWaitsLonger
    StartsUp
CHECK_DEADLOCK FALSE
