SPECIFICATION Spec
CONSTANTS
    t1 = t1
    t2 = t2
    t3 = t3
    t4 = t4
    k1 = k1
    k2 = k2
    Tx = {t1, t2, t3}
    Key = {k1, k2}
    Writes <- MCWrites
    Rejected = {}
    TxFrom <- AlwaysFrom
    TxUntil <- AlwaysUntil
    TxOrder <- ThreeInOrder
    Daemons = {"BlockGenerator", "BlocksCollection", "QueueParserTx"}
    Hosts = {1}
    NodeCount = 2
    RbBlocks1 = 2
    BlocksPerRequest = 2
    MaxTxCount = 2
    Skew = 0
    MaxSlot = 5
    MaxCrashes = 0
PROPERTIES
    ForkedBlocksReplayed
\* Time stops at MaxSlot: there the node may have nothing left to do.
CHECK_DEADLOCK FALSE
