----------------------------- MODULE BundleOps -----------------------------
(***************************************************************************)
(* The callers of filterOpsAndEstimateGas in src/executor/executor.ts:     *)
(* bundle, bundleCompressed and replaceTransaction, from their parameters  *)
(* to what they answer about each operation, and what they record of the   *)
(* transaction for the replacements to come.                               *)
(*                                                                         *)
(* The loop of FilterOps runs between "filtering" and its answer.  Wallets *)
(* and nonces are modelled in BundleTx.                                    *)
(***************************************************************************)
EXTENDS FilterOps, FiniteSetsExt

CONSTANTS
    floorOf,    \* of each operation: callGasLimit + verificationGasLimit + 5000
    localOf,    \* preVerificationGas + 3 * verificationGasLimit + callGasLimit
    Estimates   \* what eth_estimateGas may answer

ASSUME BundleOpsAssumption ==
    /\ floorOf \in [SimulatedOps -> Nat]
    /\ localOf \in [SimulatedOps -> Nat]
    /\ Estimates \subseteq Nat

VARIABLES
    kind,      \* who calls
    phase,
    results,   \* of each operation: the status and the reason in BundleResult
    sent,      \* the operations in the calldata that was sent
    recorded,  \* those in the transactionRequest.data that is kept
    gas        \* of the transaction; before, of the one that is replaced

bundleVars == <<kind, phase, results, sent, recorded, gas>>

Bundling == {"bundle", "bundleCompressed"}
Replacing == {"replaceDefault", "replaceCompressed"}

Result(status, why) == [status |-> status, reason |-> why]
NoResult == Result("none", "none")

BundleInit ==
    /\ FilterInit
    /\ kind \in Bundling \cup Replacing
    /\ phase = "parameters"
    /\ results = [i \in SimulatedOps |-> NoResult]
    /\ sent = {} /\ recorded = {}
    /\ gas \in IF kind \in Replacing THEN Estimates ELSE {0}

\* The end of the call, with results of some of the operations.
Answered(how, ops, result(_)) ==
    /\ phase' = how
    /\ results' = [i \in SimulatedOps |-> IF i \in ops THEN result(i) ELSE NoResult]
    /\ UNCHANGED <<kind, gas>>

Failure(why) == Result("failure", why)

----------------------------------------------------------------------------

ParametersReceived ==
    /\ phase = "parameters"
    /\ phase' = "filtering"
    /\ UNCHANGED <<kind, results, sent, recorded, gas, filterVars>>

\* The gas price or the nonce cannot be read.
ParametersFailed ==
    /\ phase = "parameters"
    /\ IF kind \in Bundling
       THEN Answered("returned", SimulatedOps, LAMBDA i : Result("resubmit", "parameters"))
       ELSE Answered("failed", {}, Failure)
    /\ UNCHANGED <<sent, recorded, filterVars>>

\* A turn of the loop.
Filtering ==
    /\ phase = "filtering"
    /\ FilterNext
    /\ UNCHANGED bundleVars

\* simulatedOps is empty.
NothingSimulated ==
    /\ phase = "filtering"
    /\ answer = "empty"
    /\ IF kind \in Bundling
       THEN Answered("returned", SimulatedOps, LAMBDA i : Failure("INTERNAL FAILURE"))
       ELSE Answered("failed", {}, Failure)
    /\ UNCHANGED <<sent, recorded, filterVars>>

\* Mutant: a compressed bundle, too, is given up only if all of it failed.
GivesUpIfAll == \A i \in SimulatedOps : reason[i] # "none"

\* Some must do to give up a compressed bundle, all for the others.
GivesUp ==
    IF kind = "bundleCompressed"
    THEN \E i \in SimulatedOps : reason[i] # "none"
    ELSE \A i \in SimulatedOps : reason[i] # "none"

Simulated == phase = "filtering" /\ answer \in {"estimated", "no_gas"}

\* A replacement whose operations all fail by their nonce may be mined
\* already.  The reason of a compressed bundle's failure is each operation's
\* own, and undefined for those that did not fail.
SimulationFailed ==
    /\ Simulated
    /\ GivesUp
    /\ CASE kind \in Bundling ->
              Answered("returned", SimulatedOps, LAMBDA i : Failure(reason[i]))
         [] kind \in Replacing /\ (\A i \in SimulatedOps : reason[i] = "nonce") ->
              Answered("potentially_already_included", {}, Failure)
         [] kind \in Replacing /\ (\E i \in SimulatedOps : reason[i] # "nonce") ->
              Answered("failed", {}, Failure)
    /\ UNCHANGED <<sent, recorded, filterVars>>

\* Mutant: the floor is asked for when the estimation is above it.
RaisedAbove(gasLimit, floor) == IF gasLimit > floor THEN gasLimit + floor ELSE gasLimit

RaisedTo(gasLimit, floor) == IF gasLimit < floor THEN gasLimit + floor ELSE gasLimit

innerHandleOpFloor == MapThenSumSet(LAMBDA i : floorOf[i], opsToBundle)

\* With --local-gas-limit-calculation.
localGasLimit == MapThenSumSet(LAMBDA i : localOf[i], opsToBundle)

\* That limit replaces the estimation of a replacement.
\* A compressed bundle has no floor, and a replacement of one has.
GasLimits(estimate) ==
    IF kind = "bundleCompressed" THEN {estimate + 10000}
    ELSE {RaisedTo(limit, innerHandleOpFloor) + 10000 :
            limit \in {estimate} \cup IF kind \in Replacing THEN {localGasLimit} ELSE {}}

Prepare ==
    /\ Simulated
    /\ ~ GivesUp
    /\ phase' = "sending"
    /\ \E estimate \in Estimates : \E limit \in GasLimits(estimate) :
            gas' = IF kind \in Replacing /\ gas > limit THEN gas ELSE limit
    /\ UNCHANGED <<kind, results, sent, recorded, filterVars>>

\* simulatedOpsToResults: what was left out fails with its reason.
SimulatedResult(i) ==
    IF reason[i] = "none" THEN Result("success", "none") ELSE Failure(reason[i])

\* The transaction is sent.  A compressed one is recorded with the
\* operations of the call.
SendingSucceeds ==
    /\ phase = "sending"
    /\ sent' = opsToBundle
    /\ recorded' = IF kind = "bundleCompressed" THEN SimulatedOps ELSE opsToBundle
    /\ IF kind \in Bundling
       THEN Answered("returned", SimulatedOps, SimulatedResult)
       ELSE Answered("replaced", {}, Failure)
    /\ UNCHANGED filterVars

\* The wallet cannot pay: what was to be sent is to be tried again, and
\* nothing is said of what was left out.
InsufficientFunds ==
    /\ phase = "sending"
    /\ kind = "bundle"
    /\ Answered("returned", opsToBundle, LAMBDA i : Result("resubmit", "InsufficientFundsError"))
    /\ UNCHANGED <<sent, recorded, filterVars>>

\* Mutant: only the operations that were to be sent are answered.
FailsWith == opsToBundle

\* Whom another error of sending concerns.
FailedBySending == IF kind = "bundle" THEN SimulatedOps ELSE opsToBundle

SendingFails ==
    /\ phase = "sending"
    /\ CASE kind \in Bundling ->
              Answered("returned", FailedBySending, LAMBDA i : Failure("INTERNAL FAILURE"))
         [] kind \in Replacing ->
              \/ Answered("failed", {}, Failure)
              \/ Answered("potentially_already_included", {}, Failure)
    /\ UNCHANGED <<sent, recorded, filterVars>>

BundleNext ==
    \/ ParametersReceived \/ ParametersFailed
    \/ Filtering
    \/ NothingSimulated \/ SimulationFailed
    \/ Prepare
    \/ SendingSucceeds \/ InsufficientFunds \/ SendingFails

BundleSpec == BundleInit /\ [][BundleNext]_<<filterVars, bundleVars>>

----------------------------------------------------------------------------

\* A call that returns answers for every operation it was given, so that
\* executorManager.ts:217 can take each out of the processing store: except
\* those that simulation left out before the funds were found insufficient
\* (executor.ts:897), of which nobody hears again.  It says success of what
\* was sent only, and blames the simulation only for what the node named.
EveryOpAnswered ==
    phase = "returned" =>
        \A i \in SimulatedOps :
            /\ \/ results[i].status # "none"
               \/ /\ \E j \in SimulatedOps : results[j].reason = "InsufficientFundsError"
                  /\ reason[i] # "none"
            /\ results[i].status = "success" <=> i \in sent
            /\ results[i].reason \in Reasons => i \in culprits

\* What is recorded for later replacements is what was sent, and it was
\* simulated together: also for a compressed bundle, which is recorded with
\* the operations of the call (executor.ts:1213) rather than those sent.
RecordedAsSent ==
    phase \in {"returned", "replaced"} => recorded = sent /\ sent \in {{}, estimated}

\* The gas of a bundle that is sent covers what the entry point demands for
\* its operations (executor.ts:829, :321).  The floor is of those that are
\* left, the estimation of the last attempt.
GasCoversFloor ==
    phase \in {"returned", "replaced"} /\ sent # {} /\ kind # "bundleCompressed"
        => gas >= innerHandleOpFloor + 10000
=============================================================================
