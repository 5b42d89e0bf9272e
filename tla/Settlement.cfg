SPECIFICATION Spec
CONSTANTS
    Ops <- MCOps
    userOperation <- MCUserOperation
    entryPointOf <- MCEntryPointOf
    imitated <- MCImitated
    Bundles <- MCBundles
    Rivals <- MCRivals
    Hashes <- MCHashes
    NoAddress = "null"
    chainId = 1
    maxBlockRange = 2
    Timeout = 2
    MaxBlocks = 4
INVARIANT ReceiptsOwn
INVARIANT ByHashAnswers
INVARIANT ReportsTrue
INVARIANT FrontrunRecognised
INVARIANT StatusKept
CHECK_DEADLOCK FALSE
