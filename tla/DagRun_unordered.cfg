SPECIFICATION DagSpec
CONSTANTS
    Task <- LoadTask
    Upstream <- LoadUpstream
    Runs = 3
    Concurrency = 2
    DependsOnPast = FALSE
    Timeouts = FALSE
INVARIANT Chronological
