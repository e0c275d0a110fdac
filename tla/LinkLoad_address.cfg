SPECIFICATION Spec
CONSTANTS
    Task <- LoadTask
    Upstream <- LoadUpstream
    Runs = 2
    Concurrency = 4
    DependsOnPast = FALSE
    Timeouts = FALSE
    Parent = {p1}
    Child = {c1, c2}
    BKey = {k1, k2}
    Absent = Absent
    NoTable = NoTable
    NoRead = NoRead
    ParentDelta = FALSE
    ChildDelta = TRUE
    HubFromParent = TRUE
    MatchChild = FALSE
    Rekeying = FALSE
    Failures = TRUE
SYMMETRY Symmetry
INVARIANTS LinkComplete
