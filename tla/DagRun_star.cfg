SPECIFICATION HungSpec
CONSTANTS
    Task <- StarTask
    Upstream <- StarUpstream
    Runs = 3
    Concurrency = 2
    DependsOnPast = TRUE
    Timeouts = TRUE
INVARIANT DagTypeOK
PROPERTY RunsGoOn
