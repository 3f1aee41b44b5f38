CONSTANTS
    Proc = {p1, p2}
    NoProc = NoProc
    Sector = {s1, s2, s3}
    NoSector = NoSector
    Depth = 2
    Data = {d0, d1}
    Fresh = d0
    NBUF = 2
    MaxDirty = 1
SPECIFICATION FairSpec
INVARIANTS BufInv
PROPERTIES Refinement SleeperWoken
CHECK_DEADLOCK FALSE
