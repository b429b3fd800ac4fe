SPECIFICATION Spec
CONSTANTS
    box = box
    inner = inner
    outer = outer
    Top = Top
    NoFile = NoFile
    None = None
    Dir = {box}
    File = {inner, outer}
    Parent <- Parents
    Name <- Names
    Buffer = 2
    Counts = {1, 3}
    MaxBlocks = 4
    Faults = {"list", "tmp", "short", "reopen", "put", "get", "change"}
    MaxFaults = 2
    MaxActs = 1
INVARIANT DownloadIsWhole
PROPERTY WalkIsTrue
PROPERTY UploadIsWhole
