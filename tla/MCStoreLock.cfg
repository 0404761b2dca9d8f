CONSTANTS
    p1 = p1
    p2 = p2
    i1 = i1
    i2 = i2
    i3 = i3
    None = None
    Procs = {p1, p2}
    Asyncs = {p1}
    Inodes = {i1, i2, i3}
SPECIFICATION FairSpec
INVARIANTS
    TypeOK
PROPERTIES
    AtomicCommits
    RemovalSparesSuccessors
    LocksAreReturned
    LockNeverStuck
