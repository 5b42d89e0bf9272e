\* Two bundles that may share one account through two wallets.
CONSTANTS
    b1 = b1
    b2 = b2
    w1 = w1
    w2 = w2
    acc = acc
    o1 = o1
    o2 = o2
    Bundles <- MCBundles
    NoBundle = NoBundle
    Operations = {o1, o2}
    Wallets = {w1, w2}
    NoWallet = NoWallet
    Accounts <- MCAccounts
    address <- SameAddress
    MaxNonce = 1
SPECIFICATION Spec
INVARIANTS
    OneTransactionPerWallet
    WalletsAccounted
SYMMETRY Symmetry
CHECK_DEADLOCK FALSE
