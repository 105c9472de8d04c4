CONSTANTS
    EndPage = 5
    HeapStart = 1
    Threads = {1}
    Mappers = {1}
    Users = {1}
    MaxPages = 3
    Prots <- ReadWrite
    Checks <- NoChecks
    Fails = {}
    Disciplined = TRUE
SPECIFICATION Spec
INVARIANT CheckSound
