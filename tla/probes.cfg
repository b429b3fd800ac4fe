SPECIFICATION Spec
CONSTANTS
    c1 = c1
    c2 = c2
    Client = {c1, c2}
    Skews <- SmallSkews
    MaxDiff = 1
    Epoch = 1000
    Faults = {"open", "local", "creat", "put", "stat", "unlink", "unix", "crash"}
    MaxFaults = 2
    MaxTime = 2
SYMMETRY ClientSymmetry
INVARIANT AdmittedInStep
INVARIANT RefusedForAReason
INVARIANT NoProbeLeft
