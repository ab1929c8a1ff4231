CONSTANTS
    W = 6
    Factor = 4
    Loops <- PassLoops
SPECIFICATION FairSpec
INVARIANTS
    TypeOK
    FixupHandlesResidue
PROPERTIES
    Refines
    Progress
\* The transformed code falls through to the block after the loop.
CHECK_DEADLOCK FALSE
