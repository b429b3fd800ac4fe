SPECIFICATION Spec
CONSTANTS
    Path = {p1, p2}
    HighHash = {p2}
    Inode = {i1, i2, i3, i4}
    LargeInode = {i4}
    NoFile = NoFile
    NoRecord = NoRecord
    ConflictCopies = {FALSE}
    AtomicCopy = {FALSE}
    UserMoves = {"rename", "reuseInode", "link"}
    Faults = {}
    MaxWrites = 2
    MaxFaults = 0
    p1 = p1
    p2 = p2
    i1 = i1
    i2 = i2
    i3 = i3
    i4 = i4
SYMMETRY Symmetry
INVARIANT CalmRunConverges
PROPERTY RemoveOnlyRemoved
