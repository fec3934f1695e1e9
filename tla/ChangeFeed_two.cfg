SPECIFICATION Spec
CONSTANTS
    Pipeline = {p1, p2}
    Docs = {d1}
    Others = {}
    Client = {c1, c2}
    NumStages = 2
    Limit = 1
    MaxEvents = 1
    MaxMoves = 0
    MaxFaults = 2
SYMMETRY MCSymmetry
CHECK_DEADLOCK FALSE
INVARIANTS
    TypeOK
    OneMailPerChange
    MailsLostByFaults
