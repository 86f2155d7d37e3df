SPECIFICATION Spec
CONSTANTS
    s1 = s1
    s2 = s2
    StopTxs = {s1}
    Gap = 1
    MaxHeight = 3
    MaxRestarts = 1
PROPERTIES
    StaysStopped
\* A process that has ended for good leaves nothing to do once the hosts are done.
CHECK_DEADLOCK FALSE
