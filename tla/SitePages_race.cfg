SPECIFICATION FairSpec
CONSTANTS
    w1 = w1
    w2 = w2
    Page = {p1}
    Excluded = {}
    Content = {a, b}
    Dated = {a}
    NoContent = NoContent
    Missing = Missing
    NoPage = NoPage
    Worker = {w1, w2}
    Tasks <- ServerAndPanel
    Limit = 1
    HasEnricher = TRUE
    MaxAttempts = 1
    MaxMoves = 1
    MaxFaults = 1
INVARIANTS
    StaleIsQueued
PROPERTIES
    DateKept
    AnnotatedInTheEnd
