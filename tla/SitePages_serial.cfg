SPECIFICATION Spec
CONSTANTS
    w1 = w1
    w2 = w2
    Page = {p1, x}
    Excluded = {x}
    Content = {a, b}
    Dated = {a}
    NoContent = NoContent
    Missing = Missing
    NoPage = NoPage
    Worker = {w1}
    Tasks <- AllButCrawl
    Limit = 2
    HasEnricher = TRUE
    MaxAttempts = 1
    MaxMoves = 2
    MaxFaults = 1
INVARIANTS
    TypeOK
    PointHasRow
    DeadNotFound
