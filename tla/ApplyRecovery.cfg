SPECIFICATION RetrySpec
CONSTANTS
    f1 = f1
    o1 = o1
    o2 = o2
    Ops <- MCSerial
    MaxBuild = 1
    Families <- MCFamilies
    Provides <- MCProvides
    HeldChoices <- MCHeldNothing
    MayForce = TRUE
    SameSecond = FALSE
    MaxRuns = 2
    MaxSnaps = 3
    Faults <- MCFaults
    MaxFaults = 1
PROPERTIES
    CrashedRunResumes
CHECK_DEADLOCK FALSE
