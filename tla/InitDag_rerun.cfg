SPECIFICATION FairSpec
CONSTANTS
    Task <- InitTask
    Upstream <- InitUpstream
    Runs = 2
    Concurrency = 2
    DependsOnPast = FALSE
    Timeouts = FALSE
INVARIANTS TypeOK NothingRefused LoadReady Barrier SuccessIsTotal
PROPERTY InitEnds
