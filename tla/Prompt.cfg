CONSTANTS
    CounterMod = 3
    CommandSize = 3
SPECIFICATION Spec
INVARIANTS
    NewlineAhead
    LineAsTyped
    CommandAsTyped
PROPERTY ReaderReturns
CHECK_DEADLOCK FALSE
