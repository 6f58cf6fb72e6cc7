\* The unlocked fs_close against fs_open: does an open file stay its caller's?
CONSTANTS
    t1 = t1
    t2 = t2
    t3 = t3
    Threads <- MCThreads
    Conds <- MCConds
    Locks <- MCConds
    Idle = Idle
    NoThread = NoThread
    NoSlot = NoSlot
    BLK = 2
    NumInodes = 2
    NumData = 3
    ByteLen <- MCByteLen
    DataBlockNum <- MCDataBlockNum
    Dir <- MCDir
    Names <- MCNames
    Vals = {0, 1, 2}
    DiskInit <- MCDiskInit
    NumSlots = 1
    MaxN = 2
    Calls = 3
    DiskPut <- IoLitPut
SPECIFICATION Spec
INVARIANT OpenFileIntegrity
\* Threads stop after their calls (or at a fault); the hart then idles.
CHECK_DEADLOCK FALSE
