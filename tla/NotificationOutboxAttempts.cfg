CONSTANTS
    u1 = u1
    u2 = u2
    None = None
    e1 = e1
    s1 = s1
    s2 = s2
    Users <- MCUsers
    Hooks <- MCHooks
    Slots <- MCSlots
    Batch = 1
    MaxAttempts = 1
    MaxMishaps = 0
SPECIFICATION Spec
CHECK_DEADLOCK FALSE
INVARIANT
    AttemptsWithinBudget
