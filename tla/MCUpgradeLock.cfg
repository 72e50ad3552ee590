SPECIFICATION FairSpec
CONSTANTS
    apply = apply
    rollback = rollback
    automation = automation
    Callers <- MCCallers
    Labels <- MCCallers
    LabelOf <- MCLabelOf
    Free = Free
    Second = 2
    StaleMs = 4
    MaxTime = 8
    MaxCrashes = 1
INVARIANTS
    TypeOK
    LeaseExclusion
    LockInv
PROPERTIES
    ImplementsLease
    AbandonedIsReclaimed
CHECK_DEADLOCK TRUE
