CONSTANTS
    MaxCageId = 3
    Threads = {t1, t2, t3}
    MaxDepth = 3
    Requests <- StackedRequests
    CanCrash = {}
SYMMETRY ThreadSymmetry
SPECIFICATION Spec
INVARIANTS TypeOK OneHandlerPerCall InflightExact DispatchInLiveCage RawInLiveCage
CHECK_DEADLOCK FALSE
