----------------------------- MODULE FilterOps -----------------------------
(***************************************************************************)
(* filterOpsAndEstimateGas of src/executor/utils.ts: which operations of a *)
(* bundle, or of a replacement, can be sent together, and with what gas.   *)
(*                                                                         *)
(* Each turn of its loop asks the node to estimate handleOps with the      *)
(* operations that have no reason to be left out.  The node may name one   *)
(* of them as failing, by its index in *that* call; the next turn goes     *)
(* without it.  Two errors are answered by another try instead, with more  *)
(* gas or a higher fee, and share five retries.                            *)
(*                                                                         *)
(* The variables are the function's own; `culprits' and `estimated' record *)
(* what the node has said, and `calls' how often it was asked.             *)
(***************************************************************************)
EXTENDS Integers, FiniteSets

CONSTANTS N,           \* operations in the call, 1..N in simulatedOps' order
          MaxRetries   \* retriesLeft at the start

ASSUME FilterAssumption ==
    /\ N \in Nat \ {0}
    /\ MaxRetries \in Nat

SimulatedOps == 1..N

\* Why an operation is left out, as far as the callers tell reasons apart:
\* AA25 and AA10 mean that it may be in a block already.
Reasons == {"AA95", "nonce", "other"}

VARIABLES
    reason,       \* simulatedOps[i].reason
    retriesLeft,
    bumps,        \* how often the gas and the fees were scaled up
    crashed,      \* calls of reputationManager.crashedHandleOps
    answer,       \* what is returned
    culprits, estimated, calls

filterVars == <<reason, retriesLeft, bumps, crashed, answer, culprits, estimated,
          calls>>

Answers == {"none",       \* not yet
            "estimated",  \* simulatedOps and the estimation
            "no_gas",     \* simulatedOps and 0n
            "empty",      \* [] and 0n
            "thrown"}

FilterInit ==
    /\ reason = [i \in SimulatedOps |-> "none"]
    /\ retriesLeft = MaxRetries
    /\ bumps = [gas |-> 0, fee |-> 0]
    /\ crashed = [i \in SimulatedOps |-> 0]
    /\ answer = "none"
    /\ culprits = {}
    /\ estimated = {}
    /\ calls = 0

\* The operations the next call is made with: the code's opsToSend.
opsToSend == {i \in SimulatedOps : reason[i] = "none"}

\* The index of operation i in that call.
opIndex(i) == Cardinality({j \in opsToSend : j < i})

\* Mutant: the index is taken in the list of all operations.
failingOpUnfiltered(k) == CHOOSE i \in SimulatedOps : i = k + 1

\* The operation that an index of the node stands for.
failingOp(k) == CHOOSE i \in opsToSend : opIndex(i) = k

\* A turn of the loop: the node is asked, and answers or the call fails.
Asked ==
    /\ answer = "none"
    /\ opsToSend # {}
    /\ calls' = calls + 1

\* The node names i, for the reason r.
LeaveOut(i, r) ==
    /\ culprits' = culprits \cup {i}
    /\ reason' = [reason EXCEPT ![failingOp(opIndex(i))] = r]

Estimated ==
    /\ Asked
    /\ estimated' = opsToSend
    /\ answer' = "estimated"
    /\ UNCHANGED <<reason, retriesLeft, bumps, crashed, culprits>>

\* Mutant: the retries are not counted.
RetryForEver(what) ==
    /\ retriesLeft > 0
    /\ bumps' = [bumps EXCEPT ![what] = @ + 1]
    /\ UNCHANGED retriesLeft

\* Another try.
Retry(what) ==
    /\ retriesLeft > 0
    /\ retriesLeft' = retriesLeft - 1
    /\ bumps' = [bumps EXCEPT ![what] = @ + 1]

\* AA95 in a revert's data: the call is repeated with 110% of the gas.
OutOfGas ==
    /\ Asked
    /\ Retry("gas")
    /\ UNCHANGED <<reason, crashed, answer, culprits, estimated>>

\* The base fee is above the fees: the call is repeated with 125% of them.
FeeCapTooLow ==
    /\ Asked
    /\ Retry("fee")
    /\ UNCHANGED <<reason, crashed, answer, culprits, estimated>>

\* FailedOp or FailedOpWithRevert in a revert's data.
FailedOp(i, r) ==
    /\ Asked
    /\ r = "AA95" => retriesLeft = 0
    /\ LeaveOut(i, r)
    /\ crashed' = [crashed EXCEPT ![failingOp(opIndex(i))] = @ + 1]
    /\ UNCHANGED <<retriesLeft, bumps, answer, estimated>>

\* FailedOp or FailedOpWithRevert in the data of an estimation error: here
\* AA95 is a reason like any other, and the reputation does not change.
FailedOpInEstimation(i, r) ==
    /\ Asked
    /\ LeaveOut(i, r)
    /\ UNCHANGED <<retriesLeft, bumps, crashed, answer, estimated>>

\* Any other error, or FeeCapTooLow with no retries left.
UnknownError ==
    /\ Asked
    /\ answer' = "empty"
    /\ UNCHANGED <<reason, retriesLeft, bumps, crashed, culprits, estimated>>

\* A revert's data with an index outside of the call: nothing catches the
\* TypeError.
UnknownIndex ==
    /\ Asked
    /\ answer' = "thrown"
    /\ UNCHANGED <<reason, retriesLeft, bumps, crashed, culprits, estimated>>

\* Every operation has a reason.
NothingLeft ==
    /\ answer = "none"
    /\ opsToSend = {}
    /\ answer' = "no_gas"
    /\ UNCHANGED <<reason, retriesLeft, bumps, crashed, culprits, estimated,
                   calls>>

FilterNext ==
    \/ Estimated
    \/ OutOfGas
    \/ FeeCapTooLow
    \/ \E i \in opsToSend, r \in Reasons : \/ FailedOp(i, r)
                                           \/ FailedOpInEstimation(i, r)
    \/ UnknownError
    \/ UnknownIndex
    \/ NothingLeft

FilterSpec == FilterInit /\ [][FilterNext]_filterVars

-----------------------------------------------------------------------------

FilterTypeOK ==
    /\ reason \in [SimulatedOps -> Reasons \cup {"none"}]
    /\ retriesLeft \in 0..MaxRetries
    /\ bumps \in [{"gas", "fee"} -> Nat]
    /\ crashed \in [SimulatedOps -> {0, 1}]
    /\ answer \in Answers
    /\ culprits \in SUBSET SimulatedOps
    /\ estimated \in SUBSET SimulatedOps
    /\ calls \in Nat

\* What the callers send after `simulatedOps.length === 0' and
\* `every(op => op.reason !== undefined)'.
opsToBundle == IF answer \in {"estimated", "no_gas"} THEN opsToSend ELSE {}

\* The operations that are sent have been simulated together, with nothing
\* added or left out since, and the gas limit is the one of that simulation.
SimulatedTogether ==
    opsToBundle # {} => answer = "estimated" /\ opsToBundle = estimated

\* Indices shift as operations are left out: still, exactly the operations
\* that the node has named are left out.
OnlyCulpritsLeftOut ==
    {i \in SimulatedOps : reason[i] # "none"} = culprits

\* Each turn takes an operation or a retry away, so that the loop ends: it
\* asks the node at most once for each of them, whatever the answers are.
CallsBounded == calls =< N + MaxRetries
=============================================================================
