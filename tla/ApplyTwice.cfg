SPECIFICATION Spec
CONSTANTS
    f1 = f1
    o1 = o1
    o2 = o2
    Ops <- MCConcurrent
    MaxBuild = 1
    Families <- MCFamilies
    Provides <- MCProvides
    HeldChoices <- MCHeldNothing
    MayForce = FALSE
    SameSecond = FALSE
    MaxRuns = 1
    MaxSnaps = 1
    Faults <- MCFaults
    MaxFaults = 0
INVARIANTS
    OneApplyAtATime
CHECK_DEADLOCK FALSE
