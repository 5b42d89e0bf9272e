\* An operation of another nonce key waits in the nonce queue for ever.
CONSTANTS
    alice = alice
    EP = EP
    k1 = k1
    NoEntity = NoEntity
    c1 = c1
    p1 = p1
    Clients = {c1}
    Processes = {p1}
    Ops <- MCOps
    userOp <- MCUserOp
    Addresses <- MCAddresses
    staked <- None
    EntryPointsV06 <- None
    mempoolMaxParallelOps = 2
    mempoolMaxQueuedOps = 2
    minInclusionDenominator = 1
    throttlingSlack = 0
    banSlack = 1
    throttledEntityMinMempoolCount = 1
    maxMempoolUserOperationsPerSender = 1
    maxMempoolUserOperationsPerNewUnstakedEntity = 1
    inclusionRateFactor = 1
    maxInclusionCredit = 1
    crashedOpsSeen = 2
    NonceSpace = 8
    maxAhead = 1
    dangerousSkipUserOperationValidation = FALSE
    safeMode = TRUE
    enableDebugEndpoints = FALSE
    SetReputations <- None
SPECIFICATION YoungSpec
PROPERTIES
    DueOperationsReleased
ACTION_CONSTRAINT Bounded
CHECK_DEADLOCK FALSE
