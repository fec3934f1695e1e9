SPECIFICATION Spec
CONSTANTS
    d1 = d1
    d2 = d2
    Doc = {d1, d2}
    Published = {d2}
    Content = {h1, h2}
    Worker = {w1, w2}
    NoDoc = NoDoc
    NoContent = NoContent
    Never = Never
    Replaces <- ReplacesOne
    HasClassifier = TRUE
    HasCollector = FALSE
    AutoApprove = FALSE
    Serial = TRUE
    MaxOps = 4
    MaxFaults = 0
SYMMETRY MCSymmetry
CHECK_DEADLOCK FALSE
INVARIANTS
    TypeOK
    IndexedMeansCurrent
