SPECIFICATION FairSpec
CONSTANTS
    MaxSubs = 2
    MaxEvents = 4
    Stories <- AllStories
INVARIANTS TypeOK SettledFollowsStripe ReversalEndsAccess AccessIsPaid PaidHasAccess
PROPERTIES AllHandled
CHECK_DEADLOCK FALSE
