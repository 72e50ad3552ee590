SPECIFICATION Spec
CONSTANTS
    f1 = f1
    o1 = o1
    o2 = o2
    Ops <- MCSerial
    MaxBuild = 1
    Families <- MCFamilies
    Provides <- MCProvides
    HeldChoices <- MCHeldNothing
    MayForce = FALSE
    SameSecond = TRUE
    MaxRuns = 3
    MaxSnaps = 3
    Faults <- MCFaults
    MaxFaults = 1
INVARIANTS
    OneRunningPerRelease
CHECK_DEADLOCK FALSE
