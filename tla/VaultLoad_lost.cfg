SPECIFICATION Spec
CONSTANTS
    Task <- LoadTask
    Upstream <- LoadUpstream
    Runs = 2
    Concurrency = 8
    DependsOnPast = FALSE
    Timeouts = TRUE
    NoEnd = NoEnd
    Blank = Blank
    SrcRow = {k1}
    Key = {k1}
    KeyOf <- OwnKey
    Val = {a, b}
    NoRow = NoRow
    NoTable = NoTable
    NoRead = NoRead
    DeltaStaging = FALSE
    Failures = FALSE
    TornOverwrite = FALSE
PROPERTY HistoryKept
