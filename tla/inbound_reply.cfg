SPECIFICATION FairSpec
CONSTANTS
    m1 = m1
    m2 = m2
    Emails = {m1, m2}
    Deliveries = {d1, d2}
    Workers = {w1, w2}
    MaxAttempts = 2
    Stories <- AllStories
INVARIANTS
    TypeOK
    ClosedHasNoPending
    OppositionHonoured
    NothingLost
PROPERTIES
    SettledIsFinal
    JobEnds
CHECK_DEADLOCK FALSE
