SPECIFICATION FairSpec
CONSTANTS
    NoFile = NoFile
    Worlds <- Writable
    Faults = {"open", "create", "exists", "mkdir", "copy", "cache", "close", "space",
              "put", "stat", "unlink", "rename", "chmod", "utimes", "crash"}
    MaxFaults = 2
    MaxVersion = 2
    MaxBlocks = 2
CHECK_DEADLOCK FALSE
INVARIANT DeliversDetected
INVARIANT StampVouches
PROPERTY Promise
PROPERTY PushEnds
