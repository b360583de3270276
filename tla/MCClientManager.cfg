SPECIFICATION Spec
CONSTANTS
    Caller = {c1, c2, c3}
    Host = {h1, h2, h3}
    NoHost = NoHost
    MaxClients = 2
    MaxEntries = 5
    MaxHits = 3
INVARIANTS
    CacheSound
    ClientsAccounted
    ClientOfHost
PROPERTIES
    SparesLatest
SYMMETRY Interchangeable
CHECK_DEADLOCK FALSE
