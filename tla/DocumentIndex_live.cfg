SPECIFICATION FairSpec
CONSTANTS
    d1 = d1
    d2 = d2
    Doc = {d1}
    Published = {}
    Content = {h1, h2}
    Worker = {w1, w2}
    NoDoc = NoDoc
    NoContent = NoContent
    Never = Never
    Replaces <- ReplacesNone
    HasClassifier = TRUE
    HasCollector = TRUE
    AutoApprove = TRUE
    Serial = FALSE
    MaxOps = 3
    MaxFaults = 1
CHECK_DEADLOCK FALSE
INVARIANTS
    UnapprovedNotFound
PROPERTIES
    ActiveGetsIndexed
