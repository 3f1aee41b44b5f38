CONSTANTS
    Worker = {1, 2}
    f1 = f1
    f2 = f2
    f3 = f3
    File = {f1, f2, f3}
    inode <- Inodes
    BSIZE = 2
    NDIRECT = 2
    FirstData = 1
    Size = 13
    LOGSIZE = 6
    Modulus = 32
    Image <- Disks
    Users <- Sharing
    IOSize = {1, 4}
    Offset = {3, 31}
    MaxIO = 3
SPECIFICATION DataSpec
INVARIANTS LogNotAllocated
CHECK_DEADLOCK FALSE
