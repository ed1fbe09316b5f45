SPECIFICATION Spec
CONSTANTS
    Sales = {s1}
    JobTypes = {"pdf"}
    Plans = {{"pdf"}}
    Revisions = {h1}
    MaxRows = 1
    Workers = {w1}
    BacklogWorkers = {b1}
    Requests = {r1, r2}
    NoRequest = none
    RpcTries = 1
    ClaimLimit = 1
    MaxAttempts = 2
    Lease = 0
    RetryDelay = 1
    SaleStates = {"open"}
    MaxWait = 1
    MaxGate = 0
PROPERTIES DeadLetterStays
