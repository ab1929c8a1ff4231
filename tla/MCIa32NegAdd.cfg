CONSTANTS
    W = 4
    Nodes <- NegAddNodes
SPECIFICATION Spec
INVARIANTS
    FlagsPreserved
\* The replacement sequence ends; the schedule continues after it.
CHECK_DEADLOCK FALSE
