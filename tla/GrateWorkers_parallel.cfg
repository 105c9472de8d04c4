CONSTANTS
    Callers = {c1, c2, c3}
    LIND_GRATE_WORKERS = 0
    MAX_GRATE_WORKERS = 2
    Forked = FALSE
    Cleanup = TRUE
    MaxCalls = 2
    STACK_ARENA_BASE = 8
    GRATE_STACK_SLOT_SIZE = 4
    GRATE_STACK_GUARD_SIZE = 1
SPECIFICATION Spec
INVARIANTS StacksDisjoint ActiveExact IdleIsQuiet
PROPERTY ServiceSpec
CHECK_DEADLOCK FALSE
