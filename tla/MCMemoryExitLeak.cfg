\* Does process exit return every user page to the free list?
CONSTANTS
    NFrames = 7
    StoreWords <- MCStoreWords
    Images <- MCImages
    SizeBits = 4
    StackPages <- MCStackPages
SPECIFICATION Spec
PROPERTY
    UserFramesReleased
CHECK_DEADLOCK FALSE
