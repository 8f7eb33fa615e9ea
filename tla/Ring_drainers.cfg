SPECIFICATION Spec

CONSTANTS
    p1 = p1
    p2 = p2
    d1 = d1
    d2 = d2
    q1 = q1
    q2 = q2
    NoPid = NoPid
    Producers = {p1}
    Pids = {q1}
    Pid <- MCPid1
    Drainers = {d1, d2}
    Takers = {d1}
    BlockCount = 2
    Capacity = 1
    MaxHead = 3
    MaxRecords = 2
    DeathPoints = {}

INVARIANT Exclusive
INVARIANT PassedAreHandled
INVARIANT TailBehind
PROPERTY BlocksLiveOnce
