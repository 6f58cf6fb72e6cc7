\* The io a process execs from, and the descriptors of a child whose
\* thread could not be started.
CONSTANTS
    NProc = 3
    IoMax = 2
    NumSlots = 2
    Names <- MCNames
    Dir <- MCDir
    Null = Null
    ExitShared = FALSE
    MaxRef = 3
SPECIFICATION Spec
INVARIANTS
    NoLeakedHandle
\* The last process may exit; the hart then has nothing to run.
CHECK_DEADLOCK FALSE
