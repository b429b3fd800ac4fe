SPECIFICATION FairSpec
CONSTANTS
    a = a
    b = b
    f = f
    g = g
    c1 = c1
    c2 = c2
    Context = {c1, c2}
    NoContext = NoContext
    Root = Root
    Dir = {a, b}
    File = {f, g}
    Parent <- Tree
    Offers <- Usable
    Keys = {c1}
    Password <- UriPassword
    Callback = TRUE
    MaxTries = 2
    Terminals = {TRUE, FALSE}
    Features = {}
    Faults = {"load", "setup", "refuse", "key", "channel", "denied", "gone",
              "stat", "lost", "kill"}
    MaxFaults = 2
INVARIANT MissesOnlyTheRest
INVARIANT OwnServer
INVARIANT TerminalRestored
PROPERTY ConnectEnds
