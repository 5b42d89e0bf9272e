----------------------------- MODULE GasPrices -----------------------------
(***************************************************************************)
(* GasPriceManager of src/handlers/gasPriceManager.ts: the prices that the *)
(* node was seen to ask, the price that pimlico_getUserOperationGasPrice   *)
(* quotes, and the lowest price that an operation may pay.                 *)
(*                                                                         *)
(* What the node, a gas station and the fee history answer is external.    *)
(* The clock counts seconds.  Between the awaits that lead to a price and  *)
(* its saving nothing is kept, so that they are one step.                  *)
(***************************************************************************)
EXTENDS TimedQueue, FiniteSetsExt

CONSTANTS
    Configs,        \* the ways the bundler may be configured
    Fees,           \* what the node may ask
    gasPriceBump,   \* percent
    multipliers,    \* gasPriceMultipliers, percent
    defaultGasFee,  \* the least priority fee on Polygon
    minimumFee,     \* the least fees on Avalanche, and on DFK
    weiPerUnit,    \* 10^9: on Hedera prices are divided by it
    None            \* no answer, or one without the field

Config == [legacyTransactions : BOOLEAN,
           refreshes : BOOLEAN,          \* gasPriceRefreshInterval > 0
           chain : {"polygon", "celo", "avalanche", "base", "optimism", "other"},
           chainType : {"default", "op-stack", "arbitrum", "mantle", "hedera"}]

ASSUME GasPricesAssumption ==
    /\ Configs \subseteq Config
    \* Polygon has EIP-1559: its gas station's two fees differ.
    /\ \A c \in Configs : c.legacyTransactions => c.chain # "polygon"
    /\ Fees \subseteq Nat
    /\ gasPriceBump \in Nat /\ gasPriceBump >= 100
    /\ multipliers \subseteq {m \in Nat : m >= 100}
    /\ defaultGasFee \in Nat
    /\ minimumFee \in Nat
    /\ weiPerUnit \in Nat \ {0}
    /\ None \notin Nat

VARIABLES
    config,                      \* never changes
    now,
    baseFeePerGasQueue,
    maxFeePerGasQueue,
    maxPriorityFeePerGasQueue,
    quote                        \* the last price quoted, and when

queues == <<baseFeePerGasQueue, maxFeePerGasQueue, maxPriorityFeePerGasQueue>>
priceVars == <<config, now, queues, quote>>

maxBigInt(a, b) == IF a > b THEN a ELSE b
minBigInt(a, b) == IF a < b THEN a ELSE b
scaleBigIntByPercent(value, percent) == (value * percent) \div 100

Price(fee, maxPriorityFee) ==
    [maxFeePerGas |-> fee, maxPriorityFeePerGas |-> maxPriorityFee]

GasPriceParameters == [maxFeePerGas : Nat, maxPriorityFeePerGas : Nat]

-----------------------------------------------------------------------------
(* The price that the network asks.                                        *)

\* What is asked of the node and of the gas station, and what they answer.
NodeAnswer ==
    [station : [maxFeePerGas : Fees, maxPriorityFeePerGas : Fees] \cup {None},
     maxFeePerGas : Fees \cup {None}, maxPriorityFeePerGas : Fees \cup {None},
     reward : Fees \cup {None}, gasPrice : Fees]

getDefaultGasFee(c) == IF c.chain = "polygon" THEN defaultGasFee ELSE 0

AtLeast(fee, price) ==
    Price(maxBigInt(fee, price.maxFeePerGas),
          maxBigInt(fee, price.maxPriorityFeePerGas))

bumpTheGasPrice(c, price) ==
    LET maxPriorityFee == maxBigInt(price.maxPriorityFeePerGas, getDefaultGasFee(c))
        fee == maxBigInt(price.maxFeePerGas, maxPriorityFee)
        result == Price(scaleBigIntByPercent(fee, gasPriceBump),
                        scaleBigIntByPercent(maxPriorityFee, gasPriceBump))
    IN  CASE c.chain = "celo" -> AtLeast(result.maxFeePerGas, result)
          [] c.chain = "avalanche" -> AtLeast(minimumFee, result)
          [] OTHER -> result

getFallBackMaxPriorityFeePerGas(a, gasPrice) ==
    IF a.reward = None THEN gasPrice ELSE minBigInt(a.reward, gasPrice)

getLegacyTransactionGasPrice(a) ==
    LET gasPrice == IF a.maxFeePerGas = None THEN a.gasPrice ELSE a.maxFeePerGas
    IN  Price(gasPrice, gasPrice)

\* The node's own estimate, and the fee history for what it lacks.
estimateGasPrice(a) ==
    LET known == IF a.maxFeePerGas = None THEN 0 ELSE a.maxFeePerGas
        maxPriorityFee == IF a.maxPriorityFeePerGas = None
                          THEN getFallBackMaxPriorityFeePerGas(a, known)
                          ELSE a.maxPriorityFeePerGas
        fee == IF a.maxFeePerGas = None THEN a.gasPrice + maxPriorityFee
               ELSE a.maxFeePerGas
    IN  Price(fee, IF maxPriorityFee = 0 THEN fee \div 200 ELSE maxPriorityFee)

\* Each of them may also throw, and then nothing changes.
innerGetGasPrice(c, a) ==
    IF c.chain = "polygon" /\ a.station # None
    THEN bumpTheGasPrice(c, a.station)
    ELSE IF c.legacyTransactions
    THEN bumpTheGasPrice(c, getLegacyTransactionGasPrice(a))
    ELSE LET estimated == estimateGasPrice(a)
             bumped == bumpTheGasPrice(c, estimated)
         IN  Price(maxBigInt(bumped.maxFeePerGas, estimated.maxFeePerGas),
                   maxBigInt(bumped.maxPriorityFeePerGas,
                             estimated.maxPriorityFeePerGas))

NetworkPrices == [c \in Configs |-> {innerGetGasPrice(c, a) : a \in NodeAnswer}]

-----------------------------------------------------------------------------

\* After init(), that the start-up awaits.
PricesInit ==
    /\ config \in Configs
    /\ now = 0
    /\ \E price \in NetworkPrices[config] :
        /\ maxFeePerGasQueue = saveValue(<<>>, price.maxFeePerGas, now)
        /\ maxPriorityFeePerGasQueue = saveValue(<<>>, price.maxPriorityFeePerGas, now)
    /\ \E baseFee \in Fees :
           baseFeePerGasQueue = IF config.legacyTransactions THEN <<>>
                                ELSE saveValue(<<>>, baseFee, now)
    /\ quote = None

Tick ==
    /\ now' = now + 1
    /\ UNCHANGED <<config, queues, quote>>

SavePrice(price) ==
    /\ maxFeePerGasQueue' = saveValue(maxFeePerGasQueue, price.maxFeePerGas, now)
    /\ maxPriorityFeePerGasQueue' =
           saveValue(maxPriorityFeePerGasQueue, price.maxPriorityFeePerGas, now)

\* By a timer.
tryUpdateGasPrice ==
    /\ config.refreshes
    /\ \E price \in NetworkPrices[config] : SavePrice(price)
    /\ UNCHANGED <<config, now, baseFeePerGasQueue, quote>>

\* By the timer, or by whoever asks for the base fee.
updateBaseFee ==
    /\ ~ config.legacyTransactions
    /\ \E baseFee \in Fees :
           baseFeePerGasQueue' = saveValue(baseFeePerGasQueue, baseFee, now)
    /\ UNCHANGED <<config, now, maxFeePerGasQueue, maxPriorityFeePerGasQueue, quote>>

\* The prices that getGasPrice may return.  It throws if there is none.
KnownPrices ==
    IF ~ config.refreshes THEN NetworkPrices[config]
    ELSE IF maxFeePerGasQueue = <<>> \/ maxPriorityFeePerGasQueue = <<>> THEN {}
    ELSE {Price(getLatestValue(maxFeePerGasQueue),
                getLatestValue(maxPriorityFeePerGasQueue))}

\* It returns price, after saving it if it was asked for now.
getGasPrice(price) ==
    IF config.refreshes
    THEN UNCHANGED <<maxFeePerGasQueue, maxPriorityFeePerGasQueue>>
    ELSE SavePrice(price)

PerUnit(fee) == IF config.chainType = "hedera" THEN fee \div weiPerUnit ELSE fee

pimlico_getUserOperationGasPrice ==
    /\ \E price \in KnownPrices, multiplier \in multipliers :
        /\ getGasPrice(price)
        /\ quote' =
            [maxFeePerGas |->
                 scaleBigIntByPercent(PerUnit(price.maxFeePerGas), multiplier),
             maxPriorityFeePerGas |->
                 scaleBigIntByPercent(PerUnit(price.maxPriorityFeePerGas), multiplier),
             at |-> now]
    /\ UNCHANGED <<config, now, baseFeePerGasQueue>>

\* validateGasPrice lets price pass.  As soon as a price was quoted, and is
\* not 0, the queues are not empty.
Acceptable(price) ==
    /\ maxFeePerGasQueue # <<>>
    /\ price.maxFeePerGas >= PerUnit(getMinValue(maxFeePerGasQueue))
    /\ maxPriorityFeePerGasQueue # <<>>
    /\ price.maxPriorityFeePerGas >= PerUnit(getMinValue(maxPriorityFeePerGasQueue))

PricesNext ==
    \/ Tick
    \/ tryUpdateGasPrice
    \/ updateBaseFee
    \/ pimlico_getUserOperationGasPrice

PricesSpec == PricesInit /\ [][PricesNext]_priceVars

-----------------------------------------------------------------------------

QueueType == Seq(Saved)

PricesTypeOK ==
    /\ config \in Configs
    /\ now \in Nat
    /\ baseFeePerGasQueue \in QueueType
    /\ maxFeePerGasQueue \in QueueType
    /\ maxPriorityFeePerGasQueue \in QueueType
    /\ quote \in {None} \cup [maxFeePerGas : Nat, maxPriorityFeePerGas : Nat, at : Nat]

\* How long a quote is honoured, at least, for all that the network asks.
HonouredFor == (maxQueueSize - 1) * queueValidity

\* validateGasPrice accepts what pimlico_getUserOperationGasPrice quoted: the
\* price of that time, or a lower one, is in the queues until all the other
\* places have been taken, one at most every queueValidity seconds.
QuotesHonoured ==
    /\ quote # None
    /\ quote.maxFeePerGas > 0 /\ quote.maxPriorityFeePerGas > 0
    /\ now - quote.at < HonouredFor
    => Acceptable(quote)

=============================================================================
