CONSTANTS
    DirNames = {"a", "b"}
    FileNames = {"b"}
    Values = {"v"}
    MaxDepth = 2
    MaxEntries = 8
    MaxWritten = 1
    Machines <- MCMachines
    Discs <- MCDiscs
    Dotted = {"g.c", "h.c"}
    Filenames <- MCFilenames
    Positions = {0, 1}
    MaxFiles = 2
SPECIFICATION Spec
INVARIANTS
    DotDotIsParent
    DrivesMounted
    BootIsFirstDrive
    FindsNamedFile
    ReadsOwnFile
PROPERTY PathsKeepTheirMeaning
CHECK_DEADLOCK FALSE
