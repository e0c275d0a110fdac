SPECIFICATION Spec
CONSTANTS
    Task <- StageTask
    Upstream <- NoUpstream
    Runs = 2
    Concurrency = 4
    DependsOnPast = FALSE
    Timeouts = TRUE
    Name = {n1, n2}
    Columns = 2
    Rows = {"harmless", "torn"}
    RowsOf <- Contents
    Token <- Alphabet
    Quote = Quote
    Delim = Delim
    Break = Break
    Null = Null
    A = A
    B = B
    NoFile = NoFile
    Absent = Absent
    NoTable = NoTable
    Failures = TRUE
SYMMETRY Symmetry
INVARIANTS TypeOK StagedOwn LeftoversOfFailures RowsArrive
PROPERTY StagingSpec
