--------------------------- MODULE GasEstimation ---------------------------
(***************************************************************************)
(* The gas that eth_estimateUserOperationGas of src/rpc/rpcHandler.ts      *)
(* answers, and the checks that an operation which uses the answer meets   *)
(* when it is sent: validatePreVerificationGas and the prefund check of    *)
(* src/rpc/validation/UnsafeValidator.ts.                                  *)
(*                                                                         *)
(* The preVerificationGas pays for the data on L1: src/utils/validation.ts *)
(* takes what an oracle asks when it estimates, and what the oracle asked  *)
(* at least, or at most, in the last time when it validates.  The oracles, *)
(* the simulations of the entry point and their outcomes are external.     *)
(***************************************************************************)
EXTENDS GasPrices

CONSTANTS
    OpFees,            \* the prices that operations name
    staticFee,         \* calcDefaultPreVerificationGas of the operation
    OracleValues,      \* what each value may be that an oracle answers
    l1Units,           \* gas for the operation's data, at the price of L1
    Costs,             \* the gas that operations use
    rollUpDivisor,     \* 10^6: mantleL1RollUpFeeDivisionFactor
    maxFee,            \* maxUint128
    callGasLimitMultiplier,
    paymasterGasLimitMultiplier,
    balanceOverride,   \* of the configuration
    maxRetries         \* 3

MantleNames == {"tokenRatio", "scalar", "rollupDataGasAndOverhead", "l1GasPrice"}
ArbitrumNames == {"l1BaseFee", "l2BaseFee"}
OracleNames == MantleNames \cup ArbitrumNames

Cost == [paymaster : BOOLEAN, verification : Nat, call : Nat,
         paymasterVerification : Nat, paymasterPostOp : Nat]

\* What is asked: also getL1Fee of op-stack's oracle, and a block's base fee.
Asked == OracleNames \cup {"l1Fee", "baseFee"}

ASSUME GasEstimationAssumption ==
    /\ OpFees \subseteq GasPriceParameters
    /\ \A p \in OpFees : p.maxFeePerGas > 0
    /\ OracleValues \in [Asked -> SUBSET Nat]
    /\ 0 \notin OracleValues["l2BaseFee"]
    /\ {staticFee, l1Units, maxRetries} \subseteq Nat
    /\ Costs \subseteq Cost
    /\ {rollUpDivisor, maxFee} \subseteq Nat \ {0}
    /\ {callGasLimitMultiplier, paymasterGasLimitMultiplier} \subseteq Nat
    /\ balanceOverride \in BOOLEAN

VARIABLES
    oracle,      \* the queues of ArbitrumManager and MantleManager, by name
    estimate     \* the last answer, with what it was made from

estimationVars == <<priceVars, oracle, estimate>>

-----------------------------------------------------------------------------
(* preVerificationGas.                                                     *)

SavedNames == CASE config.chainType = "arbitrum" -> ArbitrumNames
                [] config.chainType = "mantle" -> MantleNames
                [] OTHER -> {}

\* What the oracles of this chain may answer.
OracleAnswers ==
    LET names == IF config.chainType = "op-stack" THEN {"l1Fee", "baseFee"}
                 ELSE SavedNames
    IN  {a \in [names -> UNION {OracleValues[n] : n \in names}] :
            \A n \in names : a[n] \in OracleValues[n]}

\* The queues once the answer a has been saved.
Saving(a) ==
    [n \in OracleNames |-> IF n \in SavedNames THEN saveValue(oracle[n], a[n], now)
                           ELSE oracle[n]]

\* getMin..., getMax...: what an empty queue is taken for.
MinOr(queue, default) == IF queue = <<>> THEN default ELSE getMinValue(queue)
MaxOr(queue, default) == IF queue = <<>> THEN default ELSE getMaxValue(queue)

\* Mutant: the latest values of the oracle.
getLatestMantleOracleValues(saved) ==
    [n \in MantleNames |-> IF saved[n] = <<>> THEN 1 ELSE getLatestValue(saved[n])]

getMinMantleOracleValues(saved) == [n \in MantleNames |-> MinOr(saved[n], 1)]

calcMantlePreVerificationGas(fees, v) ==
    LET l1RollupFee == (v.rollupDataGasAndOverhead * v.l1GasPrice
                        * v.tokenRatio * v.scalar) \div rollUpDivisor
    IN  staticFee + l1RollupFee \div fees.maxFeePerGas

calcOptimismPreVerificationGas(fees, l1Fee, baseFee) ==
    staticFee + l1Fee \div minBigInt(fees.maxFeePerGas,
                                     baseFee + fees.maxPriorityFeePerGas)

\* gasEstimateL1Component: L1's gas in units of L2's.
gasForL1(a) == (l1Units * a["l1BaseFee"]) \div a["l2BaseFee"]

\* To estimate.
EstimatedArbitrum(a) == staticFee + gasForL1(a)

\* To validate, with a saved.
ValidatedArbitrum(a, saved) ==
    LET l1 == saved["l1BaseFee"]
        l1BaseFeeEstimate == IF a["l1BaseFee"] = 0 THEN MaxOr(l1, maxFee)
                             ELSE a["l1BaseFee"]
        feesForL1 == (gasForL1(a) * a["l2BaseFee"]) \div l1BaseFeeEstimate
    IN  staticFee + (feesForL1 * MinOr(l1, 1)) \div MaxOr(saved["l2BaseFee"], maxFee)

\* getBaseFee answers from its queue if a timer fills it.
fetchesBaseFee == ~ config.refreshes \/ baseFeePerGasQueue = <<>>
getBaseFee(a) ==
    IF fetchesBaseFee THEN a["baseFee"] ELSE getLatestValue(baseFeePerGasQueue)

\* What validatePreVerificationGas asks for if the oracles answer a.
Required(fees, a) ==
    CASE config.chainType = "op-stack" ->
           calcOptimismPreVerificationGas(fees, a["l1Fee"],
                                          MaxOr(baseFeePerGasQueue, a["baseFee"]))
      [] config.chainType = "arbitrum" -> ValidatedArbitrum(a, Saving(a))
      [] config.chainType = "mantle" ->
           calcMantlePreVerificationGas(fees, getMinMantleOracleValues(oracle))
      [] OTHER -> staticFee

\* calcPreVerificationGas, to estimate.
Estimated(fees, a) ==
    CASE config.chainType = "op-stack" ->
           calcOptimismPreVerificationGas(fees, a["l1Fee"], getBaseFee(a))
      [] config.chainType = "arbitrum" -> EstimatedArbitrum(a)
      [] config.chainType = "mantle" -> calcMantlePreVerificationGas(fees, a)
      [] OTHER -> staticFee

-----------------------------------------------------------------------------
(* The limits.                                                             *)

\* What simulateCallData answers, and then retryGetCallDataGas with ranges of
\* gas that shrink: the first answer that is not "retry".
CallDataOutcomes == {"success", "failed", "retry"}

simulateHandleOpV07(outcomes) ==
    LET answered == {i \in 1..(maxRetries + 1) : outcomes[i] # "retry"}
    IN  IF answered = {} THEN "failed" ELSE outcomes[Min(answered)]

\* Mutant: what was paid is taken for gas.
calcLimitsFromPaid(fees, preVerificationGas, r) ==
    LET callGas == IF r.gasUsed # None THEN r.gasUsed ELSE r.paid - r.preOpGas
        callGasLimit == maxBigInt(callGas, 9000) + 21000 + 50000
    IN  [verificationGasLimit |-> scaleBigIntByPercent(r.preOpGas - preVerificationGas, 150),
         callGasLimit |-> callGasLimit]

\* r: preOpGas and what was paid, and gasUsed if simulateCallData found it.
calcVerificationGasAndCallGasLimit(fees, preVerificationGas, r) ==
    LET callGas == IF r.gasUsed # None THEN r.gasUsed
                   ELSE (r.paid \div fees.maxFeePerGas) - r.preOpGas
        callGasLimit == maxBigInt(callGas, 9000) + 21000 + 50000
    IN  [verificationGasLimit |-> scaleBigIntByPercent(r.preOpGas - preVerificationGas, 150),
         callGasLimit |-> IF config.chain = "base"
                          THEN scaleBigIntByPercent(callGasLimit, 110) ELSE callGasLimit]

\* The simulation of an operation that costs c.  EntryPoint v0.6 has only what
\* was paid in all.
executionResult(version, fees, preVerificationGas, c) ==
    LET preOpGas == preVerificationGas + c.verification + c.paymasterVerification
    IN  [preOpGas |-> preOpGas,
         paid |-> (preOpGas + c.call) * fees.maxFeePerGas,
         gasUsed |-> IF version = "v0.6" THEN None ELSE c.call]

limits(version, fees, preVerificationGas, c) ==
    LET l == calcVerificationGasAndCallGasLimit(fees, preVerificationGas,
                 executionResult(version, fees, preVerificationGas, c))
        onBase == l.callGasLimit + (IF config.chain = "base" THEN 10000 ELSE 0)
        atLeast == IF config.chain \in {"base", "optimism"}
                   THEN maxBigInt(onBase, 120000) ELSE onBase
        paymaster(gas) ==
            IF version = "v0.6" \/ ~ c.paymaster THEN 0
            ELSE scaleBigIntByPercent(maxBigInt(gas, 1), paymasterGasLimitMultiplier)
    IN  [verificationGasLimit |-> l.verificationGasLimit,
         callGasLimit |-> IF version = "v0.6"
                          THEN scaleBigIntByPercent(atLeast, callGasLimitMultiplier)
                          ELSE atLeast,
         paymasterVerificationGasLimit |-> paymaster(c.paymasterVerification),
         paymasterPostOpGasLimit |-> paymaster(c.paymasterPostOp)]

-----------------------------------------------------------------------------

EstimationInit ==
    /\ PricesInit
    /\ oracle = [n \in OracleNames |-> <<>>]
    /\ estimate = None

\* The simulation of an operation of v0.6 whose sender cannot pay for it.
Unpaid(version, overridden, funded) ==
    version = "v0.6" /\ ~ funded /\ ~ (balanceOverride /\ overridden)

\* The sender's balance is overridden in the first simulation.  The second
\* one, of v0.6 with the limits that were found, is given the caller's own
\* overrides where it expects to be told whether to override the balance.
Simulated(version, funded, ownOverrides, outcome) ==
    IF \/ Unpaid(version, TRUE, funded)
       \/ Unpaid(version, ownOverrides, funded)
    THEN "AA21" ELSE outcome

\* The nonce is refused: it is used, or operations before it are missing.
Results(version) ==
    {"AA25"} \cup
    {Simulated(version, funded, ownOverrides, simulateHandleOpV07(outcomes)) :
        funded \in BOOLEAN, ownOverrides \in BOOLEAN,
        outcomes \in [1..(maxRetries + 1) -> CallDataOutcomes]}

ResultsOf == [version \in {"v0.6", "v0.7"} |-> Results(version)]

\* getGasPrice is asked if the operation on op-stack names no price itself.
PricedBy(own, price) ==
    IF config.chainType = "op-stack"
       /\ (own.maxFeePerGas =< 1 \/ own.maxPriorityFeePerGas =< 1)
    THEN price \in KnownPrices /\ getGasPrice(price)
    ELSE price = own /\ UNCHANGED <<maxFeePerGasQueue, maxPriorityFeePerGasQueue>>

\* The fees that the estimate saw, of L1 that nothing keeps, and of L2.
L1Fee(a) == IF config.chainType = "op-stack" THEN a["l1Fee"] ELSE 0
L2Fee(a) == CASE config.chainType = "op-stack" -> getBaseFee(a)
              [] config.chainType = "arbitrum" -> a["l2BaseFee"]
              [] OTHER -> 0

Answer(result, version, price, a, c) ==
    IF result # "success" THEN [result |-> result]
    ELSE [result |-> result, version |-> version, fees |-> price, cost |-> c,
          preVerificationGas |-> scaleBigIntByPercent(Estimated(price, a), 110),
          l1Fee |-> L1Fee(a), l2Fee |-> L2Fee(a), at |-> now]

\* The answer is looked at, or it is for someone else.
eth_estimateUserOperationGas ==
    /\ \E own \in OpFees, a \in OracleAnswers :
        /\ oracle' = Saving(a)
        /\ baseFeePerGasQueue' =
               IF config.chainType = "op-stack" /\ fetchesBaseFee
               THEN saveValue(baseFeePerGasQueue, a["baseFee"], now)
               ELSE baseFeePerGasQueue
        /\ \E price \in {own} \cup KnownPrices :
            /\ PricedBy(own, price)
            /\ price.maxFeePerGas > 0
            /\ \/ UNCHANGED estimate
               \/ \E version \in {"v0.6", "v0.7"}, c \in Costs :
                    estimate' \in {Answer(r, version, price, a, c) : r \in ResultsOf[version]}
    /\ UNCHANGED <<config, now, quote>>

EstimationNext ==
    \/ PricesNext /\ UNCHANGED <<oracle, estimate>>
    \/ eth_estimateUserOperationGas

EstimationSpec == EstimationInit /\ [][EstimationNext]_estimationVars

-----------------------------------------------------------------------------

EstimationTypeOK ==
    /\ PricesTypeOK
    /\ oracle \in [OracleNames -> QueueType]
    /\ estimate # None =>
        /\ estimate.result \in CallDataOutcomes \cup {"AA21", "AA25"}
        /\ estimate.result = "success" => estimate.preVerificationGas \in Nat

Succeeded == estimate # None /\ estimate.result = "success"

\* The highest fee of L2 that is known when the oracles answer a.
HighestL2Fee(a) ==
    CASE config.chainType = "op-stack" -> MaxOr(baseFeePerGasQueue, a["baseFee"])
      [] config.chainType = "arbitrum" -> MaxOr(Saving(a)["l2BaseFee"], maxFee)
      [] OTHER -> 0

\* The preVerificationGas that was estimated stays enough while the oracle's
\* value is in its queue, whatever it answers later.  On op-stack and on
\* Arbitrum this needs the queue's highest fee not to be below the one of the
\* estimate: the queues keep the lowest fees of a time.
EstimatesHonoured ==
    Succeeded /\ now - estimate.at < HonouredFor =>
        \A a \in OracleAnswers :
            L1Fee(a) = estimate.l1Fee /\ HighestL2Fee(a) >= estimate.l2Fee
            => Required(estimate.fees, a) =< estimate.preVerificationGas

\* The check of validateUserOperation, for an operation with the limits l.
\* What the entry point asks to be paid is in wei; v0.6 asks for the
\* verification gas three times if there is a paymaster.
prefund(e, l) ==
    e.fees.maxFeePerGas *
        (l.callGasLimit + e.preVerificationGas
         + l.verificationGasLimit * (IF e.version = "v0.6" /\ e.cost.paymaster THEN 3 ELSE 1)
         + l.paymasterVerificationGasLimit + l.paymasterPostOpGasLimit)

requiredPreFund(e, l) ==
    LET c == e.cost
        found == calcVerificationGasAndCallGasLimit(e.fees, e.preVerificationGas,
                     [preOpGas |-> e.preVerificationGas + c.verification
                                       + c.paymasterVerification,
                      paid |-> prefund(e, l), gasUsed |-> None])
    IN  found.callGasLimit
        + found.verificationGasLimit * (IF e.version = "v0.6" THEN 3 ELSE 1)
        + e.preVerificationGas

\* An operation that uses the estimate passes it, if it pays 4 wei or more.
EstimatedOpsFunded ==
    /\ Succeeded
    /\ estimate.fees.maxFeePerGas >= 4
    => LET l == limits(estimate.version, estimate.fees, estimate.preVerificationGas,
                       estimate.cost)
       IN  requiredPreFund(estimate, l) =< prefund(estimate, l)
=============================================================================
