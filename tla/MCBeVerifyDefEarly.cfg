\* The whole register file of 3 is the class, so check_reg_constraint's
\* width test cannot misfire; values have width 1 or 2, with or without
\* users.
CONSTANTS
    NRegs = 3
    ClassRegs = 3
    NonSsa = {}
    Blocks <- WideBlocks
SPECIFICATION Spec
INVARIANT
    VerdictExact
\* The walk ends after the block (or in the crash of a Phi check).
CHECK_DEADLOCK FALSE
