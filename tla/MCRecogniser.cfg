CONSTANTS
    Headers <- MCHeaders
    LoopGraphs <- MCLoopGraphs
    PhiWebs <- MCPhiWebs
    LoopCfgs <- MCLoopCfgs
INIT Init
NEXT Next
INVARIANTS TypeOK AcceptedIsCountedLoop
CHECK_DEADLOCK FALSE
