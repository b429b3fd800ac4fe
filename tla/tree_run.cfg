SPECIFICATION Spec
CONSTANTS
    d = d
    e = e
    g3 = g3
    f = f
    Top = Top
    Path = {d, e, g3, f}
    Dir = {d, e, g3}
    HighHash = {d}
    Parent <- Deep
    Excluded = {}
    MaxDepth = 50
    Rest <- EmptyOrFull
    Collections = FALSE
    UserMoves = {"dirsDuringRun"}
    Faults = {"list", "push", "mkdir", "chmod", "rmdir", "unlink", "crash"}
    MaxWrites = 2
    MaxFaults = 1
INVARIANT CalmRunConverges
INVARIANT ThirdRunIsQuiet
PROPERTY RemoveOnlyRemoved
PROPERTY SettledStaysDeleted
