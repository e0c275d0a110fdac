SPECIFICATION Spec
CONSTANTS
    Task <- LoadTask
    Upstream <- LoadUpstream
    Runs = 3
    Concurrency = 8
    DependsOnPast = FALSE
    Timeouts = FALSE
    NoEnd = NoEnd
    Blank = Blank
    SrcRow = {k1}
    Key = {k1}
    KeyOf <- OwnKey
    Val = {a, Blank}
    NoRow = NoRow
    NoTable = NoTable
    NoRead = NoRead
    DeltaStaging = FALSE
    Failures = TRUE
    TornOverwrite = FALSE
INVARIANTS TypeOK HubUnique WellDated AsOf CaughtUp NoTrueDuplicates
PROPERTY HistorySpec
