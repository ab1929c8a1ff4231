CONSTANT Graphs <- MCGraphs
SPECIFICATION Spec
INVARIANT
    DepthsCorrect
PROPERTY
    Terminates
\* vl_init returns once its todo list is empty.
CHECK_DEADLOCK FALSE
