CONSTANTS
    MaxCageId = 2
    Threads = {t1, t2, t3}
    MaxDepth = 2
    Requests <- ThreadedRequests
    CanCrash = {t1, t2, t3}
SYMMETRY ThreadSymmetry
SPECIFICATION Spec
INVARIANT RemovedIsExiting
CHECK_DEADLOCK FALSE
