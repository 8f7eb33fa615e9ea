SPECIFICATION FairSpec

CONSTANTS
    p1 = p1
    p2 = p2
    d1 = d1
    d2 = d2
    q1 = q1
    q2 = q2
    NoPid = NoPid
    Producers = {p1}
    Pids = {q1}
    Pid <- MCPid1
    Drainers = {d1}
    Takers = {d1}
    BlockCount = 2
    Capacity = 2
    MaxHead = 3
    MaxRecords = 3
    DeathPoints = {"idle", "pub_cas", "pub_commit", "load_head", "load_armed", "cas_head", "begin", "header", "commit", "end_write"}

PROPERTY EveryBlockComesBack
INVARIANT PublishedTiled
