SPECIFICATION FairSpec
CONSTANTS
    Path = {p1}
    HighHash = {}
    Inode = {i1, i2, i3}
    LargeInode = {i3}
    NoFile = NoFile
    NoRecord = NoRecord
    ConflictCopies = {TRUE, FALSE}
    AtomicCopy = {TRUE, FALSE}
    UserMoves = {}
    Faults = {"walk", "open", "copy", "chmod", "utimes", "space", "backup", "unlink",
              "merge", "write", "lost", "crash"}
    MaxWrites = 3
    MaxFaults = 1
    p1 = p1
    i1 = i1
    i2 = i2
    i3 = i3
INVARIANT NoJournalNoRemove
INVARIANT NoSilentDivergence
PROPERTY EventuallyEqual
