CONSTANTS
    W = 3
    Inputs <- MCInputs
    Adds <- MCAdds
    Values <- MCValues
SPECIFICATION Spec
INVARIANT
    LoweringCorrect
\* The lowering pass ends once every Add is lowered.
CHECK_DEADLOCK FALSE
