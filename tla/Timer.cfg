CONSTANTS
    TickMod = 16
    ByteMod = 4
    Acknowledge = 2
    Durations = {0, 8}
SPECIFICATION Spec
INVARIANTS
    NoEarlyWake
    PollsSeeTheTime
PROPERTY SleepReturns
