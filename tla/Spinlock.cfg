CONSTANTS
    CPU = {c1, c2, c3}
    NoCpu = NoCpu
    NLOCK = 2
SPECIFICATION FairSpec
INVARIANTS SpinInv
PROPERTIES Progress
