SPECIFICATION FairSpec
CONSTANTS
    Path = {p1, p2}
    NoTable = NoTable
    NoFile = NoFile
    Foreign = Foreign
    Torn = Torn
    Large = TRUE
    Faults = {"open", "unlink", "copy", "probe", "prepare", "step", "insert", "commit",
              "run", "crash"}
    MaxFaults = 2
    p1 = p1
    p2 = p2
INVARIANT ReadsJournal
PROPERTY Promise
PROPERTY JournalAgain
