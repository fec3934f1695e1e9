SPECIFICATION FairSpec
CONSTANTS
    Pipeline = {p1}
    Docs = {d1}
    Others = {n1}
    Client = {c1}
    NumStages = 2
    Limit = 1
    MaxEvents = 2
    MaxMoves = 1
    MaxFaults = 1
CHECK_DEADLOCK FALSE
INVARIANTS
    NoSilentDrop
    DispatchReachesClients
PROPERTY EveryChangeHandled
