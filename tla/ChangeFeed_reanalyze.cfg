SPECIFICATION Spec
CONSTANTS
    Pipeline = {p1}
    Docs = {d1}
    Others = {}
    Client = {c1}
    NumStages = 1
    Limit = 1
    MaxEvents = 1
    MaxMoves = 0
    MaxFaults = 0
CHECK_DEADLOCK FALSE
INVARIANT ChangesAreDispatched
