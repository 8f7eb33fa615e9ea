CONSTANTS
    Threads = {t1, t2}
    Numbers = 2
    MaxFd = 1
    Streams = {s1}
    Traced = {a}
    Untraced = {u}
    NoFile = NoFile
    NoHash = NoHash
    NoThread = NoThread
    NoStream = NoStream
SPECIFICATION Spec
SYMMETRY Symmetry
INVARIANTS
    TypeOK
    TableAgrees
    CallNamesItsFile
