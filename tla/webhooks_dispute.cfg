SPECIFICATION Spec
CONSTANTS
    MaxSubs = 1
    MaxEvents = 3
    Stories <- Disputed
INVARIANTS DisputeSuspends
CHECK_DEADLOCK FALSE
