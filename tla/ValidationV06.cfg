CONSTANTS
    Operations <- V06Operations
    Programs <- MCPrograms
    Modes = {"safe", "unsafe", "tenderly"}
    Windows <- MCWindows
    importedTracer = "V07"
    expirationCheck = TRUE
    maxUint48 = 1000
    MaxSteps = 3
    MaxNow = 110
    Unknown = Unknown
SPECIFICATION Spec
INVARIANT TopLevelReconstructed
CONSTRAINT OneThing
CHECK_DEADLOCK FALSE
