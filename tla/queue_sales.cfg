SPECIFICATION Spec
CONSTANTS
    Sales = {s1}
    JobTypes = {"pdf", "fact_extraction"}
    Plans = {{"pdf", "fact_extraction"}}
    Revisions = {h1, h2}
    MaxRows = 1
    Workers = {w1}
    BacklogWorkers = {b1}
    Requests = {r1, r2}
    NoRequest = none
    RpcTries = 2
    ClaimLimit = 2
    MaxAttempts = 1
    Lease = 0
    RetryDelay = 1
    SaleStates = {"open", "unready", "closed", "deleted"}
    MaxWait = 1
    MaxGate = 0
SYMMETRY Interchangeable
INVARIANTS OneHolder SaleExclusive PdfTextApart OneReservationPerRequest
PROPERTIES ImplementsSaleLease
