CONSTANTS
    Proc = {p1, p2}
    NoProc = NoProc
    Block = {b1, b2, b3, b4}
    Data = {d0, d1}
    Fresh = d0
    LOGSIZE = 4
    LogSize = 4
SPECIFICATION FairSpec
INVARIANTS LogInv
PROPERTIES WriteAhead Refinement SleeperWoken BootEnds
