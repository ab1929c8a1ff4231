\* A release build: DEBUG_ONLY(goto duff) is compiled out.
CONSTANTS
    Root = "r"
    Trees <- MCTrees
    Builds = {FALSE}
    DuffEnvs = {0}
    Factor = 4
    MaxSize = 3
    UWidth = 16
SPECIFICATION Spec
INVARIANT SpecDuffApplied
\* unroll_loops returns when the walk of the loop tree is over.
CHECK_DEADLOCK FALSE
