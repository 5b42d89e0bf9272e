-------------------------- MODULE MCGasEstimation --------------------------
(* Prices and estimates of seven configurations; fees of 1 and 200 wei. *)
EXTENDS GasEstimation

CONSTANT MaxNow

MCConfigs ==
    {[legacyTransactions |-> FALSE, refreshes |-> r, chain |-> "celo", chainType |-> "default"] :
        r \in BOOLEAN}
    \cup
    {[legacyTransactions |-> TRUE, refreshes |-> r, chain |-> "avalanche", chainType |-> "hedera"] :
        r \in BOOLEAN}
    \cup
    {[legacyTransactions |-> FALSE, refreshes |-> FALSE, chain |-> "polygon", chainType |-> "default"],
     [legacyTransactions |-> FALSE, refreshes |-> TRUE, chain |-> "base", chainType |-> "op-stack"],
     [legacyTransactions |-> FALSE, refreshes |-> FALSE, chain |-> "optimism", chainType |-> "op-stack"],
     [legacyTransactions |-> FALSE, refreshes |-> FALSE, chain |-> "other", chainType |-> "arbitrum"],
     [legacyTransactions |-> FALSE, refreshes |-> FALSE, chain |-> "other", chainType |-> "mantle"]}

OwnPrice == [maxFeePerGas |-> 4, maxPriorityFeePerGas |-> 2]

\* The second operation leaves its price to the bundler, on op-stack.
MCOpFees == {OwnPrice, [maxFeePerGas |-> 4, maxPriorityFeePerGas |-> 1]}

SmallCost ==
    [paymaster |-> FALSE, verification |-> 60000, call |-> 5000,
     paymasterVerification |-> 0, paymasterPostOp |-> 0]

MCCosts ==
    {SmallCost,
     [paymaster |-> TRUE, verification |-> 60000, call |-> 200000,
      paymasterVerification |-> 30000, paymasterPostOp |-> 0]}

MCOracleValues ==
    [n \in Asked |->
        CASE n \in {"l1BaseFee", "l2BaseFee", "l1GasPrice"} -> {1, 3}
          [] n = "baseFee" -> {1, 200}
          [] n = "l1Fee" -> {100000}
          [] n = "rollupDataGasAndOverhead" -> {50000}
          [] OTHER -> {2}]

\* Where the fees of L1 matter the node's price is one and the same.
OnePrice ==
    config.chainType \in {"op-stack", "arbitrum", "mantle"} =>
        \A q \in {maxFeePerGasQueue, maxPriorityFeePerGasQueue} : Values(q) = {220}

\* Bounds: the clock, and each configuration asks for what it uses.
Bounded ==
    /\ now' =< MaxNow
    /\ config.chainType # "op-stack" => baseFeePerGasQueue' = baseFeePerGasQueue
    /\ config.chainType \in {"op-stack", "arbitrum", "mantle"} =>
        /\ quote' = None
        /\ Succeeded' =>
            /\ estimate'.cost = SmallCost /\ estimate'.version = "v0.7"
            /\ config.chainType # "op-stack" => estimate'.fees = OwnPrice
    /\ config.chainType \notin {"op-stack", "arbitrum", "mantle"} =>
        estimate' = None \/ (now' = 0 /\ (Succeeded' => estimate'.fees = OwnPrice))
=============================================================================
