CONSTANTS
    MaxCageId = 2
    Threads = {1, 2}
    ForkBy = {1}
    Forkers = {1}
    SpawnBy = {1}
    Options = {FALSE}
    Handled = FALSE
    MaxKills = 1
    EarlyKill = FALSE
    Crashes = {}
    Wrap = 8
SPECIFICATION FairSpec
PROPERTIES  AwaitedIsReaped
CHECK_DEADLOCK FALSE
