CONSTANTS
    p1 = p1
    p2 = p2
    initproc = init
    Proc = {init, p1, p2}
    NInum = 5
    NINODE = 4
    Name = {"a", "b"}
    Call <- Calls
    MaxCalls = 3
    uid <- Uids
    Tree <- Trees
SPECIFICATION Spec
INVARIANTS NoWriteOutsideTrans
CHECK_DEADLOCK FALSE
