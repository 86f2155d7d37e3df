SPECIFICATION Spec
CONSTANTS
    a1 = a1
    s1 = s1
    MaxTasks = 1
    d1 = d1
    d2 = d2
    node = node
    SrcTasks = {a1}
    ScheTasks = {s1}
    OneTime = {a1}
    Src = node
    Dests = {d1}
    Auths <- MCAuths
    MaxRuns = 2
    MaxCopies = 3
    MaxTroubles = 1
INVARIANTS
    TypeOK
    ChainStateTrue
    NoRunBeforeShared
    OnceUnlessFault
PROPERTIES
    NeverBack
    TaskIsShared
CHECK_DEADLOCK FALSE
