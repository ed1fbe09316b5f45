SPECIFICATION Spec
CONSTANTS
    N = 3
    Items <- AllItems
    HearingDay <- OnFirstDay
    Concurrency = 2
    MaxTries = 2
    MaxReruns = 1
    MaxSlots = 2
    MaxFaults = 2
    Passes = {p1, p2}
    Stories <- AllStories
SYMMETRY Interchangeable
INVARIANTS
    TypeOK
    OneHolder
    DeliveriesCounted
    SuccessSettles
    HalvesMeet
CHECK_DEADLOCK FALSE
