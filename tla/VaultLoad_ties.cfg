SPECIFICATION Spec
CONSTANTS
    Task <- LoadTask
    Upstream <- LoadUpstream
    Runs = 2
    Concurrency = 8
    DependsOnPast = FALSE
    Timeouts = FALSE
    NoEnd = NoEnd
    Blank = Blank
    SrcRow = {x1, x2}
    Key = {k1}
    KeyOf <- OneKey
    Val = {a, b}
    NoRow = NoRow
    NoTable = NoTable
    NoRead = NoRead
    DeltaStaging = TRUE
    Failures = TRUE
    TornOverwrite = TRUE
INVARIANTS OneActiveVersion SatAnchored
PROPERTY HistoryRecoverable
