CONSTANTS
    p1 = p1
    c1 = c1
    s1 = s1
    Exec = Exec
    None = None
    Posts <- MCNobody
    Cancels <- MCNobody
    Streams <- MCNobody
    AgentKinds <- MCAgentKinds
    ClientKinds <- MCClientKinds
    MaxEvents = 2
    MaxOutputs = 2
    MaxFaults = 0
    Ageing = FALSE
SPECIFICATION RetentionSpec
CHECK_DEADLOCK FALSE
INVARIANT
    FinishedIsRecorded
