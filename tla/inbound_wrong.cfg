SPECIFICATION Spec
CONSTANTS
    m1 = m1
    m2 = m2
    Emails = {m1, m2}
    Deliveries = {d1, d2}
    Workers = {w1, w2}
    MaxAttempts = 2
    Stories <- AllStories
INVARIANT WrongRecipientStops
CHECK_DEADLOCK FALSE
