SPECIFICATION Spec
CONSTANTS
    i1 = i1
    o1 = o1
    t1 = t1
    d1 = d1
    Items = {i1}
    Others = {o1}
    Tasks = {t1}
    TaskOf <- OneTask
    Dests = {d1}
    Parms <- MCParms
    PageSize = 2
    MaxTime = 2
    MaxCopies = 2
    MaxFaults = 1
INVARIANTS
    TypeOK
    SentIsStored
    VerifiedByChain
    InOrderRowArrives
PROPERTIES
    DataIsJudged
CHECK_DEADLOCK FALSE
