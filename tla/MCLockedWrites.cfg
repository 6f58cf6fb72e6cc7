\* Three threads, two writes each: mutual exclusion and fs_write as one
\* atomic step per call, over every interleaving of claims, waits, timer
\* preemptions and broadcasts.
CONSTANTS
    t1 = t1
    t2 = t2
    t3 = t3
    Threads <- MCThreads3
    Conds <- MCConds
    Idle = Idle
    Locks <- MCConds
    NoThread = NoThread
    Rounds = 2
SPECIFICATION Spec
INVARIANTS
    MutualExclusion
PROPERTIES
    WritesAtomic
SYMMETRY MCSymmetry
\* Once every thread has exited only the idle thread remains: the hart
\* really does stop doing work.
CHECK_DEADLOCK FALSE
