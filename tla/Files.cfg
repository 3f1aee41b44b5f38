CONSTANTS
    p1 = p1
    p2 = p2
    initproc = init
    Proc = {init, p1, p2}
    NInum = 5
    NINODE = 4
    Name = {"a", "b"}
    Call <- Calls
    MaxCalls = 3
    uid <- Uids
    Tree <- Trees
    Worker = {1, 2}
    f1 = f1
    f2 = f2
    f3 = f3
    File = {f1, f2, f3}
    inode <- Inodes
    BSIZE = 2
    NDIRECT = 2
    FirstData = 1
    Size = 18
    LOGSIZE = 6
    Modulus = 32
    Image <- Disks
    Users <- Sharing
    IOSize = {1, 4}
    Offset = {3, 31}
    MaxIO = 3
SPECIFICATION FilesSpec
INVARIANTS CacheSound TreeSound SomeoneRuns DiskConsistent TransactionFits
PROPERTIES  FileRefinement
CHECK_DEADLOCK FALSE
