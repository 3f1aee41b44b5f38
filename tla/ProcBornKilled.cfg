CONSTANTS
    NPROC = 3
    CPU = {c1}
    KillArg = {0}
    Uid = {0}
    MaxPid = 4
SPECIFICATION Spec
PROPERTIES NewProcessNotKilled
CHECK_DEADLOCK FALSE
