SPECIFICATION Spec
CONSTANTS
    States = {s1, s2}
    Functions = {f}
    Repairs <- AsIsAndMended
    MaxConns = 2
    MaxThreads = 2
    MaxFires = 3
    MaxDepth = 4
INVARIANTS
    EntriesAreConnections
    FireReachesAll
    OnceSpawnsOnce
    ResumedForItsWait
    NoLostWaiter
PROPERTIES
    NoLateCall
