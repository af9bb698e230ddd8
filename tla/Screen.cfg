CONSTANTS
    Rows = 2
    Cols = 3
    TabWidth = 2
    ByteMod = 6
    Colors = {7, 15}
    MaxString = 3
    MaxKeys = 2
SPECIFICATION Spec
INVARIANTS
    AddressIsPosition
PROPERTY IsTerminal
