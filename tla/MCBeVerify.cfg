CONSTANTS
    NRegs = 3
    ClassRegs = 3
    NonSsa = {}
    Blocks <- AllPassBlocks
SPECIFICATION Spec
INVARIANT
    VerdictExact
    ScheduleSound
    PressureExact
    SpillSlotsExact
\* The walk ends after the block (or in the crash of a Phi check).
CHECK_DEADLOCK FALSE
