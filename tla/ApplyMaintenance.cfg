SPECIFICATION Spec
CONSTANTS
    f1 = f1
    o1 = o1
    o2 = o2
    Ops <- MCSerial
    MaxBuild = 1
    Families <- MCFamilies
    Provides <- MCProvides
    HeldChoices <- MCHeldNothing
    MayForce = FALSE
    SameSecond = FALSE
    MaxRuns = 1
    MaxSnaps = 1
    Faults <- MCThrow
    MaxFaults = 1
INVARIANTS
    MaintenanceCleared
CHECK_DEADLOCK FALSE
