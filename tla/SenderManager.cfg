SPECIFICATION MCSpec
CONSTANTS
    w1 = w1
    w2 = w2
    w3 = w3
    c1 = c1
    c2 = c2
    c3 = c3
    c4 = c4
    r1 = r1
    r2 = r2
    NoWallet = NoWallet
    ExecutorPrivateKeys <- MCKeys
    MaxExecutors = 2
    Clients <- MCClients
    Refills <- MCRefills
    minExecutorBalance = 5
    Funds = 9
    StartBalance = 2
    Costs <- MCCosts
INVARIANT NoMoreWalletsNeverThrown
INVARIANT RefillsWithinMeans
CHECK_DEADLOCK FALSE
PROPERTY EveryClientServed
PROPERTY ImplementsPool
PROPERTY LowWalletsRefilled
