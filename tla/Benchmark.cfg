SPECIFICATION FairBenchmarkSpec
CONSTANTS
    MaxTries = 2
    MaxToolCalls = 3
    Rounds = 3
    RetryAttempts = 3
    Cases = 2
    Baseline = 1
    Faulted = 2
    Limit = 4
    Kept = 5
    MaxRestarts = 1
CHECK_DEADLOCK FALSE
INVARIANT BenchmarkTypeOK
INVARIANT KeepsContract
INVARIANT ModelCallKeepsContract
INVARIANT ObservationsAreOfTheCase
INVARIANT FaultEndsWithCase
INVARIANT ServersStopped
PROPERTY BenchmarkEnds
