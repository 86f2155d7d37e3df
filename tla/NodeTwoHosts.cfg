SPECIFICATION Spec
CONSTANTS
    t1 = t1
    t2 = t2
    t3 = t3
    t4 = t4
    k1 = k1
    k2 = k2
    Tx = {t1, t2}
    Key = {k1, k2}
    Writes <- MCWrites
    Rejected = {}
    TxFrom <- AlwaysFrom
    TxUntil <- AlwaysUntil
    TxOrder <- TwoInOrder
    Daemons = {"BlockGenerator", "BlocksCollection", "QueueParserBlocks", "QueueParserTx"}
    Hosts = {1, 2}
    NodeCount = 3
    RbBlocks1 = 1
    BlocksPerRequest = 2
    MaxTxCount = 2
    Skew = 1
    MaxSlot = 3
    MaxCrashes = 0
INVARIANTS
    IInv
\* Time stops at MaxSlot: there the node may have nothing left to do.
CHECK_DEADLOCK FALSE
