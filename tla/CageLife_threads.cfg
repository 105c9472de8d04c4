CONSTANTS
    MaxCageId = 2
    Threads = {1, 2}
    ForkBy = {1}
    Forkers = {1, 2}
    SpawnBy = {1, 2}
    Options = {FALSE}
    Handled = TRUE
    MaxKills = 1
    EarlyKill = FALSE
    Crashes = {1, 2}
    Wrap = 8
SPECIFICATION Spec
CONSTRAINT EndsAlone
INVARIANTS StatusFirst ZombieOnce ChildNumExact UnreapedKnown HostStays NoLostSignal NoSpuriousSignal
CHECK_DEADLOCK FALSE
