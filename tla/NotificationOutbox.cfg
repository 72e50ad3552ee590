CONSTANTS
    u1 = u1
    u2 = u2
    None = None
    e1 = e1
    s1 = s1
    s2 = s2
    Users <- MCUsers
    Hooks <- MCHooks
    Slots <- MCSlots
    Batch = 1
    MaxAttempts = 2
    MaxMishaps = 1
SPECIFICATION FairSpec
CHECK_DEADLOCK FALSE
INVARIANTS
    TypeOK
    LeaseExclusive
    SentIsDelivered
    DeadAfterBudget
PROPERTIES
    SettledStays
    RowSettles
    SubscribersGetRows
    EndIsNotForgotten
