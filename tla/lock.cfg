SPECIFICATION FairLockSpec
CONSTANTS
    Ctx = {c1, c2}
    Pid = {q1, q2, q3}
    LargePid = {}
    NoPid = NoPid
    Features = {"crash", "tmpfile", "late"}
    MaxFailures = 2
    c1 = c1
    c2 = c2
    q1 = q1
    q2 = q2
    q3 = q3
INVARIANT ExclusiveUnlessRobbed
PROPERTY SomebodyGetsIn
