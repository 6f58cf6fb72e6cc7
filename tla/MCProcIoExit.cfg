\* Programs that exit while still sharing a descriptor: process_exit
\* closes it under the other process.
CONSTANTS
    NProc = 3
    IoMax = 2
    NumSlots = 2
    Names <- MCNames
    Dir <- MCDir
    Null = Null
    ExitShared = TRUE
    MaxRef = 3
SPECIFICATION Spec
INVARIANTS
    NoDanglingHandle
\* The last process may exit; the hart then has nothing to run.
CHECK_DEADLOCK FALSE
