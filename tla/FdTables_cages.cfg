CONSTANTS
    MaxCageId = 2
    Threads = {1}
    Program <- ForkedProgram
    Flags = {FALSE}
    FD_PER_PROCESS_MAX = 2
    Standard = {0}
    MaxUnder = 4
    MaxOpens = 3
SPECIFICATION Spec
INVARIANTS CountExact SameFile NoLeak CountNeverMissing
CHECK_DEADLOCK FALSE
