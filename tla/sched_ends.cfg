SPECIFICATION FairSpec
CONSTANTS
    Sources = {s1}
    Dispatchers = {d1}
    MaxRuns = 1
    MaxAttempts = 2
    RetryDelay = 1
    DispatchLease = 1
    ExecutionLease = 1
    ManualLease = 1
    Budget = 1
    ManualBudget = 1
    Cadence = 1
    QueueCadence = 0
    Freshness = 0
    MaxRetryAfter = 2
    LateCalls = TRUE
    Manual = FALSE
    Switches = {"pipeline", "source"}
INVARIANTS TypeOK OneExecution
PROPERTIES ResultKept NoExpiryBeforeRetry QueuedUntilTaken RunEnds
