SPECIFICATION Spec

CONSTANTS
    p1 = p1
    p2 = p2
    d1 = d1
    d2 = d2
    q1 = q1
    q2 = q2
    NoPid = NoPid
    Producers = {p1, p2}
    Pids = {q1, q2}
    Pid <- MCPid
    Drainers = {d1}
    Takers = {d1}
    BlockCount = 2
    Capacity = 1
    MaxHead = 3
    MaxRecords = 2
    DeathPoints = {"idle", "pub_commit", "own", "header", "commit", "end_write"}

SYMMETRY MCSwap
INVARIANT TypeOK
INVARIANT DrainedOnce
INVARIANT LostOnlyIfOvertaken
