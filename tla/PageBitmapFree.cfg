CONSTANTS
    Words = 3
    WordBits = 4
    PageSize = 4096
    MaxFree = 2
SPECIFICATION Spec
INVARIANT FreePageFrees
CHECK_DEADLOCK FALSE
