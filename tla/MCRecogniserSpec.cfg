CONSTANTS
    Headers <- MCHeaders
    LoopGraphs <- MCLoopGraphs
    PhiWebs <- MCPhiWebs
    LoopCfgs <- MCLoopCfgs
INIT Init
NEXT Next
INVARIANT AcceptedAsSpec
CHECK_DEADLOCK FALSE
