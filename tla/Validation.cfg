CONSTANTS
    Operations <- MCOperations
    Programs <- MCPrograms
    Modes = {"safe", "unsafe", "tenderly"}
    Windows <- MCWindows
    importedTracer = "V06"
    expirationCheck = TRUE
    maxUint48 = 1000
    MaxSteps = 3
    MaxNow = 110
    Unknown = Unknown
SPECIFICATION Spec
INVARIANTS
    VerdictExact
    StorageMapTrue
    AcceptedInTime
    CodeChangeNoticed
CONSTRAINT OneThing
CHECK_DEADLOCK FALSE
