CONSTANTS
    W = 6
    Factor = 4
    Loops <- WrongLoops
SPECIFICATION Spec
PROPERTY
    Refines
\* The transformed code falls through to the block after the loop.
CHECK_DEADLOCK FALSE
