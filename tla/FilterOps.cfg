SPECIFICATION BundleSpec
CONSTANTS
    N = 3
    MaxRetries = 5
    floorOf <- MCFloorOf
    localOf <- MCLocalOf
    Estimates <- MCEstimates
INVARIANT OnlyCulpritsLeftOut
INVARIANT CallsBounded
INVARIANT EveryOpAnswered
INVARIANT RecordedAsSent
INVARIANT GasCoversFloor
CHECK_DEADLOCK FALSE
