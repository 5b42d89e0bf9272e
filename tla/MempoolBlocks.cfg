\* One call of bundle() at a time, awaits that throw; blocks arrive.
CONSTANTS
    r1 = r1
    r2 = r2
    alice = alice
    bob = bob
    carol = carol
    a1 = a1
    a1x = a1x
    a2 = a2
    b1 = b1
    b2 = b2
    c1 = c1
    c2 = c2
    c2x = c2x
    pm = pm
    fac = fac
    EP = EP
    EP2 = EP2
    NoEntity = NoEntity
    Runners = {r1}
    Ops <- BlockOps
    userOp <- BlockUserOp
    balanceOf <- MCBalance
    EntryPointsV06 <- None
    enableDebugEndpoints = TRUE
    safeMode = TRUE
    enforceUniqueSendersPerBundle = TRUE
    maxGasPerBundle = 5
    mempoolMaxParallelOps = 1
    mempoolMaxQueuedOps = 1
    throttledEntityBundleCount = 1
    Lossy = TRUE
    SharedWallets = FALSE
SPECIFICATION Spec
INVARIANTS
    SingleCustody
    TransactionsDisjoint
    ResultsAwaited
PROPERTIES
    SubmittedStatusStable
CONSTRAINT OneTrouble
ACTION_CONSTRAINT Standing
