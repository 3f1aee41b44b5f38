CONSTANTS
    Reader = {r1}
    Writer = {w1, w2}
    Byte = {0, 1}
    PIPESIZE = 2
    Modulus = 4
    Passed = 2
    MaxIO = 2
    MaxSent = 3
SPECIFICATION FairSpec
INVARIANTS NotFreedInUse SleepersWait
PROPERTIES Refinement Delivered
CHECK_DEADLOCK FALSE
