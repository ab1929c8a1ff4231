CONSTANTS
    NRegs = 3
    ClassRegs = 2
    NonSsa = {}
    Blocks <- WideBlocks
SPECIFICATION Spec
INVARIANT
    VerdictExact
CHECK_DEADLOCK FALSE
