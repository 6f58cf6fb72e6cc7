\* Page pool, clone, exec teardown and exit: exclusivity of pages, fork
\* equality and the image exec loads.
CONSTANTS
    NFrames = 7
    StoreWords <- MCStoreWords
    Images <- MCImages
    SizeBits = 4
    StackPages <- MCStackPages
SPECIFICATION Spec
INVARIANTS
    TypeOK
    FramesExclusive
PROPERTIES
    ForkEquality
    ExecLoadsImage
CHECK_DEADLOCK FALSE
