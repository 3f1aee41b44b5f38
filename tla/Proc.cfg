CONSTANTS
    NPROC = 3
    CPU = {c1, c2}
    KillArg = {2}
    Uid = {0}
    MaxPid = 4
SPECIFICATION Spec
INVARIANTS ProcInv
PROPERTIES ZombieReapedByParent
SYMMETRY AnyProcessor
CHECK_DEADLOCK FALSE
