CONSTANTS
    Words = 3
    WordBits = 4
    PageSize = 4096
    MaxFree = 2
SPECIFICATION KernelSpec
INVARIANTS
    NothingSkipped
    BitmapIsExact
PROPERTIES
    Promise
    AllocReturns
CHECK_DEADLOCK FALSE
