SPECIFICATION Spec
CONSTANTS
    Sales = {s1}
    JobTypes = {"source_detail", "pdf", "display_description"}
    Plans = {{"source_detail"}, {"pdf"}, {"display_description"}}
    Revisions = {h1, h2, h3}
    MaxRows = 2
    Workers = {w1}
    BacklogWorkers = {b1}
    Requests = {r1, r2}
    NoRequest = none
    RpcTries = 1
    ClaimLimit = 1
    MaxAttempts = 2
    Lease = 0
    RetryDelay = 0
    SaleStates = {"open"}
    MaxWait = 0
    MaxGate = 1
SYMMETRY Interchangeable
INVARIANTS TypeOK UniqueRevision OneOpenDetail
PROPERTIES CoalescedIsNewest
