CONSTANTS
    MaxCageId = 1
    Threads = {1, 2}
    ForkBy = {}
    Forkers = {1}
    SpawnBy = {1}
    Options = {FALSE}
    Handled = FALSE
    MaxKills = 0
    EarlyKill = FALSE
    Crashes = {}
    Wrap = 8
SPECIFICATION FairSpec
PROPERTIES ExitGroupTerminates
CHECK_DEADLOCK FALSE
