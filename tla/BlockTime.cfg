SPECIFICATION Spec
CONSTANTS
    Durations <- MCDurations
    NumberNodes = 2
    MaxTime = 8
INVARIANTS
    TypeOK
    RangeIsSlot
PROPERTIES
    OneBlockInSlot
\* The clock stops at MaxTime.
CHECK_DEADLOCK FALSE
