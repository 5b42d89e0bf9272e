\* Requests, the nonce queue and reputation.
CONSTANTS
    alice = alice
    bob = bob
    a0 = a0
    a1 = a1
    a1x = a1x
    a2 = a2
    b0 = b0
    pm = pm
    fac = fac
    EP = EP
    NoEntity = NoEntity
    c1 = c1
    c2 = c2
    p1 = p1
    p2 = p2
    Clients = {c1, c2}
    Processes = {p1, p2}
    Ops <- MCOps
    userOp <- MCUserOp
    Addresses <- MCAddresses
    staked <- None
    EntryPointsV06 <- None
    mempoolMaxParallelOps = 2
    mempoolMaxQueuedOps = 2
    minInclusionDenominator = 1
    throttlingSlack = 0
    banSlack = 1
    throttledEntityMinMempoolCount = 1
    maxMempoolUserOperationsPerSender = 1
    maxMempoolUserOperationsPerNewUnstakedEntity = 1
    inclusionRateFactor = 1
    maxInclusionCredit = 1
    crashedOpsSeen = 2
    NonceSpace = 8
    maxAhead = 1
    dangerousSkipUserOperationValidation = FALSE
    safeMode = TRUE
    enableDebugEndpoints = TRUE
    SetReputations <- MCReputations
SPECIFICATION Spec
INVARIANTS
    PredecessorsPresent
    UnstakedSendersLimited
PROPERTIES
    QueueKeepsArrivals
    BanLasts
SYMMETRY Symmetry
ACTION_CONSTRAINT Bounded
CHECK_DEADLOCK FALSE
