SPECIFICATION FairSpec
CONSTANTS
    Sales = {s1}
    JobTypes = {"pdf", "fact_extraction"}
    Plans = {{"pdf", "fact_extraction"}}
    Revisions = {h1}
    MaxRows = 1
    Workers = {w1}
    BacklogWorkers = {}
    Requests = {r1, r2}
    NoRequest = none
    RpcTries = 1
    ClaimLimit = 1
    MaxAttempts = 1
    Lease = 0
    RetryDelay = 1
    SaleStates = {"open"}
    MaxWait = 1
    MaxGate = 0
PROPERTIES LeaseEnds QueuedIsTaken
