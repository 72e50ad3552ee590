CONSTANTS
    p1 = p1
    c1 = c1
    s1 = s1
    Exec = Exec
    None = None
    Posts <- MCPosts
    Cancels <- MCCancels
    Streams <- MCStreams
    AgentKinds <- MCAgentKinds
    ClientKinds <- MCClientKinds
    MaxEvents = 9
    MaxOutputs = 1
    MaxFaults = 1
    Ageing = FALSE
SPECIFICATION FairSpec
CHECK_DEADLOCK FALSE
INVARIANTS
    TypeOK
    JournalExact
    AppendInv
    AppendStored
    StreamExact
    FinishedIsRecorded
PROPERTIES
    AppendOnly
    RunEnds
    EveryClientLearns
