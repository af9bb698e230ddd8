CONSTANTS
    PageSize = 4
    NumPages = 6
    Sizes = {0, 1, 3, 4, 5, 9}
    MaxBlocks = 5
SPECIFICATION Spec
INVARIANTS
    HeapInv
    BlocksInHeapPages
    BlocksDisjoint
CHECK_DEADLOCK FALSE
