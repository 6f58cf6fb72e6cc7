\* A write at a nonzero device position, after a seek or a read.
CONSTANTS
    t1 = t1
    t2 = t2
    Threads <- MCThreads
    Idle = Idle
    Conds <- MCConds
    Locks <- MCLocks
    NoThread = NoThread
    BlkSz = 2
    NumSectors = 2
    Vals = {0, 1, 2}
    DiskInit <- MCDiskInit
    Lengths = {0, 1, 2}
    WriteVals = {0}
    Positions = {2}
    UlongBits = 3
    Calls = 2
SPECIFICATION Spec
INVARIANT
    WriteEffect
\* The threads exit after their calls; the hart then idles.
CHECK_DEADLOCK FALSE
