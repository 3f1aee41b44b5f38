CONSTANTS
    NPROC = 2
    PGSIZE = 2
    NPTENTRIES = 2
    UserTables = 3
    KernTables = 1
    Memory <- Memories
    Program <- Programs
    MAXARG = 2
    Increment <- Increments
    Modulus = 64
    MaxCalls = 4
    Reader = {p1, p2}
    INPUT_BUF = 2
    IndexMod = 8
    Start = 6
    MaxKeys = 4
    Want = {1, 2}
    Keys = {"LShift", "RShift", "LCtl", "RCtl", "RAlt", "Caps", "Scroll", "a", "Up"}
    MaxDown = 2
    Buf = {b1, b2}
    Sector = {s1, s2, s3}
    Value = {1, 2}
    MaxRequests = 3
SPECIFICATION KernelSpec
INVARIANTS MemorySound NoStuckKey IdeServed
PROPERTIES Refinement TtyRefinement InputIsRead RequestEnds
CHECK_DEADLOCK FALSE
