\* Two threads, one write each: does every thread finish its write and exit?
CONSTANTS
    t1 = t1
    t2 = t2
    t3 = t3
    Threads <- MCThreads2
    Conds <- MCConds
    Idle = Idle
    Locks <- MCConds
    NoThread = NoThread
    Rounds = 1
SPECIFICATION Spec
PROPERTY AllThreadsFinish
CHECK_DEADLOCK FALSE
