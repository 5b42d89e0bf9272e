CONSTANTS
    queueValidity = 2
    maxQueueSize = 2
    Configs <- MCConfigs
    Fees = {0, 1, 200}
    gasPriceBump = 110
    multipliers = {100}
    defaultGasFee = 2
    minimumFee = 2
    weiPerUnit = 2
    None = None
    OpFees <- MCOpFees
    staticFee = 40000
    OracleValues <- MCOracleValues
    l1Units = 1000
    Costs <- MCCosts
    rollUpDivisor = 10
    maxFee = 1000000
    callGasLimitMultiplier = 100
    paymasterGasLimitMultiplier = 110
    balanceOverride = TRUE
    maxRetries = 3
    MaxNow = 4
SPECIFICATION EstimationSpec
INVARIANTS
    QuotesHonoured
    EstimatesHonoured
    EstimatedOpsFunded
CONSTRAINT OnePrice
ACTION_CONSTRAINT Bounded
CHECK_DEADLOCK FALSE
