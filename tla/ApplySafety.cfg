SPECIFICATION Spec
CONSTANTS
    f1 = f1
    o1 = o1
    o2 = o2
    Ops <- MCSerial
    MaxBuild = 2
    Families <- MCFamilies
    Provides <- MCProvides
    HeldChoices <- MCHeldChoices
    MayForce = TRUE
    SameSecond = FALSE
    MaxRuns = 2
    MaxSnaps = 3
    Faults <- MCFaults
    MaxFaults = 1
INVARIANTS
    TypeOK
    MaintenanceOwned
    WorkIsGuarded
    OneRunningPerRelease
    RollbackAvailable
PROPERTIES
    FreshRollbackExact
    SuccessIsComplete
CHECK_DEADLOCK FALSE
