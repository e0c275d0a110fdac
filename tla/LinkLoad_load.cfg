SPECIFICATION Spec
CONSTANTS
    Task <- LoadTask
    Upstream <- LoadUpstream
    Runs = 2
    Concurrency = 4
    DependsOnPast = FALSE
    Timeouts = TRUE
    Parent = {p1, p2}
    Child = {c1}
    BKey = {k1, k2}
    Absent = Absent
    NoTable = NoTable
    NoRead = NoRead
    ParentDelta = FALSE
    ChildDelta = TRUE
    HubFromParent = TRUE
    MatchChild = TRUE
    Rekeying = FALSE
    Failures = TRUE
SYMMETRY Symmetry
INVARIANTS TypeOK LinkAnchored FeedAnchored LinkComplete LinkUnique
