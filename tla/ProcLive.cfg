CONSTANTS
    NPROC = 3
    CPU = {c1}
    KillArg = {2, 3}
    Uid = {0}
    MaxPid = 3
SPECIFICATION FairSpec
PROPERTIES NoStarvation WaitReturns KilledExits
CHECK_DEADLOCK FALSE
