SPECIFICATION ClientSpec
CONSTANTS
    Modes = {"library", "sync", "dry_run", "test_update"}
    Excludes = {TRUE, FALSE}
    Features = {}
    Faults = {"lock", "load", "late", "phase", "merge", "write", "copy",
              "vio", "reload"}
    MaxFaults = 3
INVARIANT NoDeadHandle
INVARIANT ExitMeansDone
PROPERTY HonestJournal
