SPECIFICATION Spec
CONSTANTS
    Requests = {r1, r2}
    Nobody = Nobody
    SessionLife = 3
    ReservationLife = 3
    MinLife = 2
    AbandonAge = 1
SYMMETRY Interchangeable
INVARIANTS TypeOK PayableIsReserved OneSubscription
CHECK_DEADLOCK FALSE
