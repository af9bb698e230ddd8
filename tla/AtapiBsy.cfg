CONSTANTS
    Sector = 4
    MaxLba = 1
    Counts = {1, 2, 4, 6, 7, 8, 10}
    Positions = {0, 2, 4}
    Bursts = {2, 4}
    MayFail = TRUE
    Keyboard = TRUE
SPECIFICATION Spec
INVARIANT BsyClearAfterWait
