\* Reads, writes and seeks of two threads on a two-sector device with a
\* block of two bytes, one of each length class: 0, one byte, one block.
CONSTANTS
    t1 = t1
    t2 = t2
    Threads <- MCThreads
    Idle = Idle
    Conds <- MCConds
    Locks <- MCLocks
    NoThread = NoThread
    BlkSz = 2
    NumSectors = 2
    Vals = {0, 1, 2}
    DiskInit <- MCDiskInit
    Lengths = {0, 1, 2}
    WriteVals = {0}
    Positions = {2}
    UlongBits = 3
    Calls = 2
SPECIFICATION Spec
INVARIANTS
    OneRequestInFlight
PROPERTY
    UsedWaitEnds
\* The threads exit after their calls; the hart then idles.
CHECK_DEADLOCK FALSE
