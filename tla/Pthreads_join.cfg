CONSTANTS
    MaxTid = 3
    Stacks = {1, 2}
    CacheMax = 1
    Kinds = {"plain", "detached", "stopped"}
    Creators = {1}
    Joiners = {1, 2, 3}
    Detachers = {1}
    Traps = {3}
SPECIFICATION FairSpec
INVARIANTS JoinRight NoStackLeak CachedIsDone MarkedExclusive NThreadsExact
PROPERTY JoinReturns
CHECK_DEADLOCK FALSE
