CONSTANT Lines = {0, 1, 3, 12, 15}
SPECIFICATION IrqSpec
INVARIANTS
    NoNesting
    NothingLeftInService
    RegistersBack
PROPERTY StubReturns
CHECK_DEADLOCK FALSE
