CONSTANTS
    W = 4
    Nodes <- PassNodes
SPECIFICATION Spec
INVARIANTS
    TypeOK
    ResultPreserved
    FlagsPreserved
\* The replacement sequence ends; the schedule continues after it.
CHECK_DEADLOCK FALSE
