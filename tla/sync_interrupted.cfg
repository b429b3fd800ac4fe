SPECIFICATION Spec
CONSTANTS
    Path = {p1, p2}
    HighHash = {p2}
    Inode = {i1, i2, i3, i4, i5}
    LargeInode = {i5}
    NoFile = NoFile
    NoRecord = NoRecord
    ConflictCopies = {TRUE, FALSE}
    AtomicCopy = {FALSE}
    UserMoves = {}
    Faults = {"chmod", "utimes", "space", "merge", "write", "lost", "crash"}
    MaxWrites = 3
    MaxFaults = 1
    p1 = p1
    p2 = p2
    i1 = i1
    i2 = i2
    i3 = i3
    i4 = i4
    i5 = i5
SYMMETRY Symmetry
INVARIANT AtMostOneSideActs
INVARIANT SecondRunIsQuiet
PROPERTY NoLostUpdate
PROPERTY OriginalOrFinal
PROPERTY NoResurrect
