SPECIFICATION Spec
CONSTANTS
    a = a  b = b  r = r  s = s  d = d  k1 = k1  k2 = k2  k3 = k3
    Users = {a, b}
    Reports = {r}
    Stops = {s}
    Delayed = {d}
    Faulty = {b}
    Foreign = {a}
    Arrival <- MCArrival
    Key <- MCKey
    MaxTxCount = 3
    MaxUserTx = 1
    DelayBlock = 2
    MaxBlocks = 2
    MaxFaults = 2
INVARIANTS TypeOK Waits StatusTrue CollectFits
PROPERTY Answered
CHECK_DEADLOCK FALSE
