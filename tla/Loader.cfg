CONSTANTS
    NumFrames = 40
    WordBits = 4
    ByteBits = 2
    ReservedWords = {4}
    FramesPerTable = 10
    TableAlign = 4
    KernelLow = 7
    IdLimit = 20
    UnmapLimit = 19
    PageSize = 4
    ProgramPages = 5
    AllocPageFrame = 18
    Machines <- MCMachines
    Images <- MCImages
SPECIFICATION Spec
INVARIANTS
    OneMapping
    TablesReachable
    GivenOutUsable
    ProgramLoaded
    FaultHasReason
CHECK_DEADLOCK FALSE
