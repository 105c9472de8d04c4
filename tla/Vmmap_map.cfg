CONSTANTS
    EndPage = 4
    HeapStart = 1
    Threads = {1, 2}
    Mappers = {1}
    Users = {2}
    MaxPages = 3
    Prots <- ReadWrite
    Checks <- OneCheck
    Fails = {"mmap", "brk", "munmap"}
    Disciplined = TRUE
SPECIFICATION Spec
INVARIANTS HostAgrees BrkNeverAborts CheckComplete ForkCopies
