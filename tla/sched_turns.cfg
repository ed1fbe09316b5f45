SPECIFICATION Spec
CONSTANTS
    Sources = {s1, s2}
    Dispatchers = {d1}
    MaxRuns = 2
    MaxAttempts = 1
    RetryDelay = 1
    DispatchLease = 1
    ExecutionLease = 1
    ManualLease = 1
    Budget = 1
    ManualBudget = 1
    Cadence = 1
    QueueCadence = 1
    Freshness = 0
    MaxRetryAfter = 0
    LateCalls = FALSE
    Manual = TRUE
    Switches = {"drain"}
SYMMETRY Interchangeable
INVARIANTS OneScheduledRun
PROPERTIES FairTurns NoExpiryUnderWorker
