\* The shipped init programs, and a process making any syscall, over the
\* process and descriptor tables.
CONSTANTS
    NProc = 3
    IoMax = 2
    NumSlots = 1
    Names <- MCNames
    Dir <- MCDir
    Null = Null
    ExitShared = FALSE
    MaxRef = 3
    Programs <- MCPrograms
    Rounds = 2
SPECIFICATION USpec
VIEW MCView
INVARIANTS
    UserTypeOK
    NoDanglingHandle
    AllExitedReleased
PROPERTIES
    ProgramsEnd
\* init1 returns from main and init2 runs trek: the hart has nothing more
\* to do in the model.
CHECK_DEADLOCK FALSE
