--------------------------- MODULE ExecutorProofs ---------------------------
(***************************************************************************)
(* The executor, for any number of operations, retries, bundles, wallets   *)
(* and addresses.                                                          *)
(*                                                                         *)
(* What the loop of filterOpsAndEstimateGas keeps and how many calls it    *)
(* makes, and from that what bundle, bundleCompressed and                  *)
(* replaceTransaction answer and record, and that the gas they ask for     *)
(* covers the entry point's floor.                                         *)
(*                                                                         *)
(* A wallet that a call or a followed transaction needs is given to nobody *)
(* else, although operations pass from bundle to bundle: markSubmitted     *)
(* makes the only entry that an operation has.  A wallet that does not     *)
(* come back was lost in one of five known ways.                           *)
(***************************************************************************)
EXTENDS BundleOps, BundleTx, SequenceLemmas

\* What the turns have used up is what the calls have cost.
Progress ==
    answer = "none" =>
        calls = (N - Cardinality(opsToSend)) + (MaxRetries - retriesLeft)

\* Nobody's reputation has suffered without a reason.
CrashedInv ==
    \A i \in SimulatedOps : reason[i] = "none" => crashed[i] = 0

FilterInv == /\ FilterTypeOK
             /\ CrashedInv
             /\ SimulatedTogether
             /\ OnlyCulpritsLeftOut
             /\ Progress
             /\ CallsBounded

-----------------------------------------------------------------------------
(* The operations that are left, and their indices.                        *)

LEMMA AllFinite ==
    /\ IsFiniteSet(SimulatedOps)
    /\ Cardinality(SimulatedOps) = N
BY FilterAssumption, FS_Interval DEF SimulatedOps

LEMMA LeftFinite ==
    /\ IsFiniteSet(opsToSend)
    /\ Cardinality(opsToSend) \in Nat
    /\ Cardinality(opsToSend) =< N
    /\ opsToSend # {} => Cardinality(opsToSend) > 0
<1>1. opsToSend \subseteq SimulatedOps
  BY DEF opsToSend
<1>2. IsFiniteSet(opsToSend) /\ Cardinality(opsToSend) =< N
  BY <1>1, AllFinite, FS_Subset
<1>3. Cardinality(opsToSend) \in Nat
  BY <1>2, FS_CardinalityType
<1>4. opsToSend # {} => Cardinality(opsToSend) # 0
  BY <1>2, FS_EmptySet
<1> QED BY <1>2, <1>3, <1>4

\* An earlier operation has a smaller index.
LEMMA IndexGrows ==
    ASSUME NEW i \in opsToSend, NEW j \in opsToSend, i < j
    PROVE  opIndex(i) < opIndex(j)
<1> DEFINE before(k) == {l \in opsToSend : l < k}
<1>1. i \in Int /\ j \in Int /\ \A l \in opsToSend : l \in Int
  BY FilterAssumption DEF opsToSend, SimulatedOps
<1>2. before(i) \subseteq before(j) /\ i \in before(j) /\ i \notin before(i)
  <2>1. \A l \in opsToSend : l < i => l < j
    BY <1>1
  <2>2. ~ (i < i)
    BY <1>1
  <2> QED BY <2>1, <2>2
<1>3. IsFiniteSet(before(j))
  BY LeftFinite, FS_Subset
<1>4. IsFiniteSet(before(i)) /\ Cardinality(before(i)) =< Cardinality(before(j))
  BY <1>2, <1>3, FS_Subset
<1>5. Cardinality(before(i)) # Cardinality(before(j))
  BY <1>2, <1>3, FS_Subset
<1>6. Cardinality(before(i)) \in Nat /\ Cardinality(before(j)) \in Nat
  BY <1>3, <1>4, FS_CardinalityType
<1> QED BY <1>4, <1>5, <1>6 DEF opIndex

\* The index of the node leads back to the operation that it means.
LEMMA FailingOp ==
    ASSUME NEW i \in opsToSend
    PROVE  failingOp(opIndex(i)) = i
<1>1. \A j \in opsToSend : j \in Int
  BY FilterAssumption DEF opsToSend, SimulatedOps
<1>2. \A j \in opsToSend : opIndex(j) \in Nat
  <2> TAKE j \in opsToSend
  <2>1. IsFiniteSet({l \in opsToSend : l < j})
    BY LeftFinite, FS_Subset
  <2> QED BY <2>1, FS_CardinalityType DEF opIndex
<1>3. ASSUME NEW j \in opsToSend, opIndex(j) = opIndex(i)
      PROVE  j = i
  <2>1. ~ (i < j) /\ ~ (j < i)
    BY <1>2, <1>3, IndexGrows
  <2> QED BY <1>1, <2>1
<1> DEFINE f == failingOp(opIndex(i))
<1>4. f \in opsToSend /\ opIndex(f) = opIndex(i)
  BY DEF failingOp
<1> QED BY <1>3, <1>4

-----------------------------------------------------------------------------
(* The steps.                                                              *)

LEMMA FilterInitInv == FilterInit => FilterInv
<1> SUFFICES ASSUME FilterInit PROVE FilterInv
  OBVIOUS
<1>1. FilterTypeOK
  BY FilterAssumption DEF FilterInit, FilterTypeOK, Answers
<1>2. opsToSend = SimulatedOps
  BY DEF FilterInit, opsToSend
<1>3. Progress /\ CallsBounded
  BY <1>2, AllFinite, FilterAssumption DEF FilterInit, Progress, CallsBounded
<1>4. SimulatedTogether /\ OnlyCulpritsLeftOut
  BY DEF FilterInit, SimulatedTogether, OnlyCulpritsLeftOut, opsToBundle
<1> QED BY <1>1, <1>3, <1>4 DEF FilterInv, CrashedInv, FilterInit

\* A call is still allowed.
LEMMA AskedKeeps ==
    ASSUME FilterInv, Asked
    PROVE  /\ calls' = calls + 1
           /\ calls' \in Nat
           /\ CallsBounded'
<1>1. /\ Cardinality(opsToSend) \in Nat
      /\ Cardinality(opsToSend) > 0
  BY LeftFinite DEF Asked
<1>2. calls' =< N + MaxRetries
  BY <1>1, FilterAssumption DEF FilterInv, FilterTypeOK, Progress, Asked
<1> QED BY <1>2 DEF FilterInv, FilterTypeOK, Asked, CallsBounded

\* A turn that returns or throws.
LEMMA AnswerKeeps ==
    ASSUME FilterInv, Asked,
           answer' \in {"estimated", "empty", "thrown"},
           answer' = "estimated" => estimated' = opsToSend,
           answer' # "estimated" => estimated' = estimated,
           UNCHANGED <<reason, retriesLeft, bumps, crashed, culprits>>
    PROVE  FilterInv'
<1>1. opsToSend' = opsToSend /\ opsToSend \subseteq SimulatedOps
  BY DEF opsToSend
<1>2. FilterTypeOK'
  BY <1>1, AskedKeeps DEF FilterInv, FilterTypeOK, Answers
<1>3. SimulatedTogether' /\ OnlyCulpritsLeftOut' /\ Progress'
  BY <1>1 DEF FilterInv, SimulatedTogether, opsToBundle, OnlyCulpritsLeftOut, Progress
<1>4. CrashedInv'
  BY DEF FilterInv, CrashedInv
<1> QED BY <1>2, <1>3, <1>4, AskedKeeps DEF FilterInv

LEMMA RetryKeeps ==
    ASSUME FilterInv, Asked, NEW what \in {"gas", "fee"}, Retry(what),
           UNCHANGED <<reason, crashed, answer, culprits, estimated>>
    PROVE  FilterInv'
<1>1. opsToSend' = opsToSend
  BY DEF opsToSend
<1>2. retriesLeft' \in 0..MaxRetries
  BY FilterAssumption DEF FilterInv, FilterTypeOK, Retry
<1>3. bumps' \in [{"gas", "fee"} -> Nat]
  BY DEF FilterInv, FilterTypeOK, Retry
<1>4. FilterTypeOK'
  BY <1>2, <1>3, AskedKeeps DEF FilterInv, FilterTypeOK
<1>5. Progress'
  BY <1>1, AskedKeeps, LeftFinite, FilterAssumption
     DEF FilterInv, FilterTypeOK, Progress, Retry, Asked
<1>6. SimulatedTogether' /\ OnlyCulpritsLeftOut'
  BY <1>1 DEF FilterInv, SimulatedTogether, opsToBundle, OnlyCulpritsLeftOut
<1>7. CrashedInv'
  BY DEF FilterInv, CrashedInv
<1> QED BY <1>4, <1>5, <1>6, <1>7, AskedKeeps DEF FilterInv

LEMMA LeaveOutKeeps ==
    ASSUME FilterInv, Asked, NEW i \in opsToSend, NEW r \in Reasons, LeaveOut(i, r),
           crashed' \in {crashed, [crashed EXCEPT ![i] = @ + 1]},
           UNCHANGED <<retriesLeft, bumps, answer, estimated>>
    PROVE  FilterInv'
<1>1. i \in SimulatedOps /\ reason[i] = "none"
  BY DEF opsToSend
<1>2. reason' = [reason EXCEPT ![i] = r] /\ culprits' = culprits \cup {i}
  BY FailingOp DEF LeaveOut
<1>3. crashed[i] = 0
  BY <1>1 DEF FilterInv, CrashedInv
<1>4. crashed' \in [SimulatedOps -> {0, 1}]
  BY <1>1, <1>3 DEF FilterInv, FilterTypeOK
<1>5. FilterTypeOK'
  BY <1>1, <1>2, <1>4, AskedKeeps DEF FilterInv, FilterTypeOK
<1>6. r # "none"
  BY DEF Reasons
<1>7. opsToSend' = opsToSend \ {i}
  BY <1>1, <1>2, <1>6 DEF FilterInv, FilterTypeOK, opsToSend
<1>8. Cardinality(opsToSend') = Cardinality(opsToSend) - 1
  BY <1>7, LeftFinite, FS_RemoveElement
<1>9. Progress'
  BY <1>8, AskedKeeps, LeftFinite, FilterAssumption
     DEF FilterInv, FilterTypeOK, Progress, Asked
<1>10. OnlyCulpritsLeftOut'
  BY <1>1, <1>2, <1>6 DEF FilterInv, FilterTypeOK, OnlyCulpritsLeftOut
<1>11. SimulatedTogether'
  BY DEF Asked, SimulatedTogether, opsToBundle
<1>12. CrashedInv'
  BY <1>1, <1>2, <1>6 DEF FilterInv, FilterTypeOK, CrashedInv
<1> QED BY <1>5, <1>9, <1>10, <1>11, <1>12, AskedKeeps DEF FilterInv

LEMMA FilterNextInv == FilterInv /\ [FilterNext]_filterVars => FilterInv'
<1> SUFFICES ASSUME FilterInv, [FilterNext]_filterVars PROVE FilterInv'
  OBVIOUS
<1>1. CASE Estimated
  BY <1>1, AnswerKeeps DEF Estimated
<1>2. CASE OutOfGas
  BY <1>2, RetryKeeps DEF OutOfGas
<1>3. CASE FeeCapTooLow
  BY <1>3, RetryKeeps DEF FeeCapTooLow
<1>4. ASSUME NEW i \in opsToSend, NEW r \in Reasons, FailedOp(i, r)
      PROVE  FilterInv'
  BY <1>4, FailingOp, LeaveOutKeeps DEF FailedOp
<1>5. ASSUME NEW i \in opsToSend, NEW r \in Reasons, FailedOpInEstimation(i, r)
      PROVE  FilterInv'
  BY <1>5, LeaveOutKeeps DEF FailedOpInEstimation
<1>6. CASE UnknownError
  BY <1>6, AnswerKeeps DEF UnknownError
<1>7. CASE UnknownIndex
  BY <1>7, AnswerKeeps DEF UnknownIndex
<1>8. CASE NothingLeft
  <2>1. opsToSend' = opsToSend
    BY <1>8 DEF NothingLeft, opsToSend
  <2> QED BY <1>8, <2>1 DEF NothingLeft, FilterInv, FilterTypeOK, Answers, Progress,
             CrashedInv, SimulatedTogether, opsToBundle, OnlyCulpritsLeftOut, CallsBounded
<1>9. CASE UNCHANGED filterVars
  BY <1>9 DEF filterVars, FilterInv, FilterTypeOK, Progress, CrashedInv, opsToSend, SimulatedTogether,
     opsToBundle, OnlyCulpritsLeftOut, CallsBounded
<1> QED BY <1>1, <1>2, <1>3, <1>4, <1>5, <1>6, <1>7, <1>8, <1>9 DEF FilterNext

\* All the facts together.
LEMMA FilterInvAlways == FilterSpec => []FilterInv
<1> QED BY FilterInitInv, FilterNextInv, PTL DEF FilterSpec

\* The variables of filterOpsAndEstimateGas keep their types; the retries
\* never become negative and no operation is blamed twice.
THEOREM LoopTypeCorrect == FilterSpec => []FilterTypeOK
<1>1. FilterInv => FilterTypeOK
  BY DEF FilterInv
<1> QED BY <1>1, FilterInvAlways, PTL

\* What is sent has been simulated as it is sent, for any number of
\* operations and any answers of the node.
THEOREM Together == FilterSpec => []SimulatedTogether
<1>1. FilterInv => SimulatedTogether
  BY DEF FilterInv
<1> QED BY <1>1, FilterInvAlways, PTL

\* An index of the node is always resolved to the operation it stands for.
THEOREM OnlyCulprits == FilterSpec => []OnlyCulpritsLeftOut
<1>1. FilterInv => OnlyCulpritsLeftOut
  BY DEF FilterInv
<1> QED BY <1>1, FilterInvAlways, PTL

\* The loop ends after at most one call for each operation and each retry.
THEOREM Terminates == FilterSpec => []CallsBounded
<1>1. FilterInv => CallsBounded
  BY DEF FilterInv
<1> QED BY <1>1, FilterInvAlways, PTL

-----------------------------------------------------------------------------
(* The bundle around the loop.                                             *)

Ongoing == {"parameters", "filtering", "sending"}

Whys == Reasons \cup {"none", "parameters", "INTERNAL FAILURE", "InsufficientFundsError"}

BundleTypeOK ==
    /\ kind \in Bundling \cup Replacing
    /\ results \in [SimulatedOps -> [status : {"none", "success", "failure", "resubmit"},
                                     reason : Whys]]
    /\ sent \in SUBSET SimulatedOps
    /\ recorded \in SUBSET SimulatedOps

\* Nothing is answered or sent before the end.
NothingYet == phase \in Ongoing => sent = {} /\ recorded = {}

\* What is about to be sent has been simulated; all of a compressed bundle.
ReadyToSend ==
    phase = "sending" =>
        /\ opsToBundle # {}
        /\ opsToBundle = opsToSend
        /\ kind = "bundleCompressed" => opsToBundle = SimulatedOps

BInv == /\ FilterInv
        /\ BundleTypeOK
        /\ NothingYet
        /\ ReadyToSend
        /\ EveryOpAnswered
        /\ RecordedAsSent

-----------------------------------------------------------------------------

\* The words of the simulation and those of the callers differ.
LEMMA Words ==
    /\ "none" \notin Reasons
    /\ "INTERNAL FAILURE" \notin Reasons
    /\ "parameters" \notin Reasons
    /\ "InsufficientFundsError" \notin Reasons
BY DEF Reasons

\* The loop's invariant does not depend on the callers' variables.
LEMMA LoopKept == FilterInv /\ UNCHANGED filterVars => FilterInv'
BY FilterNextInv

\* Exactly those without a reason are left.
LEMMA Left ==
    ASSUME FilterInv
    PROVE  \A i \in SimulatedOps : /\ reason[i] \in Reasons \cup {"none"}
                                   /\ i \in opsToSend <=> reason[i] = "none"
                                   /\ reason[i] \in Reasons => i \in culprits
BY Words DEF FilterInv, FilterTypeOK, opsToSend, OnlyCulpritsLeftOut

LEMMA InitBInv == BundleInit => BInv
<1> SUFFICES ASSUME BundleInit PROVE BInv
  OBVIOUS
<1>1. FilterInv
  BY FilterInitInv DEF BundleInit
<1>2. BundleTypeOK
  BY DEF BundleInit, BundleTypeOK, NoResult, Result, Whys
<1>3. phase = "parameters" /\ sent = {} /\ recorded = {}
  BY DEF BundleInit
<1>4. NothingYet /\ ReadyToSend /\ EveryOpAnswered /\ RecordedAsSent
  BY <1>3 DEF NothingYet, ReadyToSend, EveryOpAnswered, RecordedAsSent
<1> QED BY <1>1, <1>2, <1>4 DEF BInv

\* A call that ends without having sent anything.
LEMMA EndsUnsent ==
    ASSUME BInv, phase \in Ongoing, UNCHANGED <<sent, recorded, filterVars, kind>>,
           phase' \in {"returned", "failed", "potentially_already_included"},
           BundleTypeOK',
           phase' = "returned" =>
              \A i \in SimulatedOps :
                /\ \/ results'[i].status # "none"
                   \/ /\ \E j \in SimulatedOps : results'[j].reason = "InsufficientFundsError"
                      /\ reason[i] # "none"
                /\ results'[i].status # "success"
                /\ results'[i].reason \in Reasons => i \in culprits
    PROVE  BInv'
<1>1. sent' = {} /\ recorded' = {}
  BY DEF BInv, NothingYet
<1>2. FilterInv'
  BY LoopKept DEF BInv
<1>3. EveryOpAnswered'
  BY <1>1 DEF EveryOpAnswered, filterVars
<1>4. RecordedAsSent'
  BY <1>1 DEF RecordedAsSent
<1>5. NothingYet' /\ ReadyToSend'
  BY <1>1 DEF NothingYet, ReadyToSend, Ongoing
<1> QED BY <1>2, <1>3, <1>4, <1>5 DEF BInv

-----------------------------------------------------------------------------
(* The steps.                                                              *)

\* What the loop does while it runs.
LEMMA FilteringKeeps == BInv /\ Filtering => BInv'
<1> SUFFICES ASSUME BInv, Filtering PROVE BInv'
  OBVIOUS
<1>1. FilterInv'
  BY FilterNextInv DEF BInv, Filtering
<1>2. phase' = "filtering" /\ UNCHANGED bundleVars
  BY DEF Filtering, bundleVars
<1>3. BundleTypeOK' /\ NothingYet'
  BY <1>2 DEF BInv, BundleTypeOK, NothingYet, bundleVars, Ongoing
<1>4. ReadyToSend' /\ EveryOpAnswered' /\ RecordedAsSent'
  BY <1>2 DEF ReadyToSend, EveryOpAnswered, RecordedAsSent
<1> QED BY <1>1, <1>3, <1>4 DEF BInv

\* Every operation is answered with the same result.
LEMMA SameForAll ==
    ASSUME BInv, phase \in Ongoing, UNCHANGED <<sent, recorded, filterVars, kind>>,
           NEW st \in {"failure", "resubmit"}, NEW why \in Whys, why \notin Reasons,
           phase' = "returned",
           results' = [i \in SimulatedOps |-> Result(st, why)]
    PROVE  BInv'
<1>1. BundleTypeOK'
  BY DEF BInv, BundleTypeOK, Result
<1>2. \A i \in SimulatedOps : results'[i].status = st /\ results'[i].reason = why
  BY DEF Result
<1>3. st # "none" /\ st # "success"
  OBVIOUS
<1> QED BY <1>1, <1>2, <1>3, EndsUnsent

\* The call ends without an answer for each operation.
LEMMA NoAnswers ==
    ASSUME BInv, phase \in Ongoing, UNCHANGED <<sent, recorded, filterVars, kind>>,
           phase' \in {"failed", "potentially_already_included"},
           results' = [i \in SimulatedOps |-> NoResult]
    PROVE  BInv'
<1>1. BundleTypeOK'
  BY DEF BInv, BundleTypeOK, NoResult, Result, Whys
<1> QED BY <1>1, EndsUnsent

LEMMA ParametersFailedKeeps == BInv /\ ParametersFailed => BInv'
<1> SUFFICES ASSUME BInv, ParametersFailed PROVE BInv'
  OBVIOUS
<1>1. phase \in Ongoing /\ UNCHANGED <<sent, recorded, filterVars, kind>>
  BY DEF ParametersFailed, Answered, Ongoing
<1>2. CASE kind \in Bundling
  <2>1. /\ phase' = "returned"
        /\ results' = [i \in SimulatedOps |-> Result("resubmit", "parameters")]
    BY <1>2 DEF ParametersFailed, Answered
  <2>2. "parameters" \in Whys
    BY DEF Whys
  <2> QED BY <1>1, <2>1, <2>2, SameForAll, Words
<1>3. CASE kind \notin Bundling
  BY <1>1, <1>3, NoAnswers DEF ParametersFailed, Answered
<1> QED BY <1>2, <1>3

LEMMA NothingSimulatedKeeps == BInv /\ NothingSimulated => BInv'
<1> SUFFICES ASSUME BInv, NothingSimulated PROVE BInv'
  OBVIOUS
<1>1. phase \in Ongoing /\ UNCHANGED <<sent, recorded, filterVars, kind>>
  BY DEF NothingSimulated, Answered, Ongoing
<1>2. CASE kind \in Bundling
  <2>1. /\ phase' = "returned"
        /\ results' = [i \in SimulatedOps |-> Result("failure", "INTERNAL FAILURE")]
    BY <1>2 DEF NothingSimulated, Answered, Failure
  <2>2. "INTERNAL FAILURE" \in Whys
    BY DEF Whys
  <2> QED BY <1>1, <2>1, <2>2, SameForAll, Words
<1>3. CASE kind \notin Bundling
  BY <1>1, <1>3, NoAnswers DEF NothingSimulated, Answered
<1> QED BY <1>2, <1>3

\* What the loop has found out, once it has returned its operations.
LEMMA AfterLoop ==
    ASSUME BInv, Simulated
    PROVE  /\ phase \in Ongoing
           /\ opsToBundle = opsToSend
BY DEF Simulated, Ongoing, opsToBundle

LEMMA SimulationFailedKeeps == BInv /\ SimulationFailed => BInv'
<1> SUFFICES ASSUME BInv, SimulationFailed PROVE BInv'
  OBVIOUS
<1>1. phase \in Ongoing /\ UNCHANGED <<sent, recorded, filterVars>>
  BY AfterLoop DEF SimulationFailed
<1>2. kind \in Bundling \/ kind \in Replacing
  BY DEF BInv, BundleTypeOK
<1>3. CASE kind \in Bundling
  <2>1. /\ phase' = "returned" /\ kind' = kind
        /\ results' = [i \in SimulatedOps |-> Result("failure", reason[i])]
    BY <1>3 DEF SimulationFailed, Answered, Failure, Bundling, Replacing
  <2>2. \A i \in SimulatedOps : /\ reason[i] \in Whys
                                /\ reason[i] \in Reasons => i \in culprits
    BY Left DEF BInv, Whys
  <2>3. BundleTypeOK'
    BY <1>1, <2>1, <2>2 DEF BInv, BundleTypeOK, Result
  <2>4. \A i \in SimulatedOps : results'[i].status = "failure" /\ results'[i].reason = reason[i]
    BY <2>1 DEF Result
  <2> QED BY <1>1, <2>1, <2>2, <2>3, <2>4, EndsUnsent
<1>4. CASE kind \in Replacing
  <2>1. /\ phase' \in {"failed", "potentially_already_included"} /\ kind' = kind
        /\ results' = [i \in SimulatedOps |-> NoResult]
    BY <1>4 DEF SimulationFailed, Answered, Bundling, Replacing
  <2> QED BY <1>1, <2>1, NoAnswers
<1> QED BY <1>2, <1>3, <1>4

LEMMA PrepareKeeps == BInv /\ Prepare => BInv'
<1> SUFFICES ASSUME BInv, Prepare PROVE BInv'
  OBVIOUS
<1>1. /\ phase \in Ongoing /\ phase' = "sending"
      /\ UNCHANGED <<kind, results, sent, recorded, filterVars>>
      /\ opsToBundle = opsToSend
  BY AfterLoop DEF Prepare
<1>2. opsToBundle' = opsToBundle /\ opsToSend' = opsToSend
  BY <1>1 DEF opsToBundle, opsToSend, filterVars
<1>3. CASE kind = "bundleCompressed"
  <2>1. opsToSend = SimulatedOps
    BY <1>3, Left DEF BInv, Prepare, GivesUp, opsToSend
  <2>2. SimulatedOps # {}
    BY FilterAssumption DEF SimulatedOps
  <2> QED BY <1>1, <1>2, <1>3, <2>1, <2>2, LoopKept
          DEF BInv, BundleTypeOK, NothingYet, ReadyToSend, EveryOpAnswered, RecordedAsSent,
              Ongoing
<1>4. CASE kind # "bundleCompressed"
  <2>1. opsToSend # {}
    BY <1>4, Left DEF BInv, Prepare, GivesUp
  <2> QED BY <1>1, <1>2, <1>4, <2>1, LoopKept
          DEF BInv, BundleTypeOK, NothingYet, ReadyToSend, EveryOpAnswered, RecordedAsSent,
              Ongoing
<1> QED BY <1>3, <1>4

\* In the phase of sending.
LEMMA Sending ==
    ASSUME BInv, phase = "sending"
    PROVE  /\ phase \in Ongoing
           /\ opsToBundle # {} /\ opsToBundle \subseteq SimulatedOps
           /\ \A i \in SimulatedOps : i \in opsToBundle <=> reason[i] = "none"
           /\ kind = "bundleCompressed" => opsToBundle = SimulatedOps
           /\ opsToBundle = estimated
BY Left DEF BInv, FilterInv, ReadyToSend, SimulatedTogether, Ongoing, opsToSend

LEMMA SendingSucceedsKeeps == BInv /\ SendingSucceeds => BInv'
<1> SUFFICES ASSUME BInv, SendingSucceeds PROVE BInv'
  OBVIOUS
<1>1. /\ sent' = opsToBundle /\ recorded' = opsToBundle
      /\ UNCHANGED <<kind, filterVars>>
      /\ phase = "sending" /\ phase' \in {"returned", "replaced"}
  BY Sending DEF SendingSucceeds, Answered
<1>2. FilterInv' /\ NothingYet' /\ ReadyToSend' /\ RecordedAsSent'
  BY <1>1, LoopKept, Sending
     DEF BInv, NothingYet, ReadyToSend, RecordedAsSent, Ongoing, filterVars
<1>3. CASE kind \in Bundling
  <2>1. results' = [i \in SimulatedOps |-> SimulatedResult(i)]
    BY <1>3 DEF SendingSucceeds, Answered
  <2>2. \A i \in SimulatedOps :
          /\ reason[i] = "none" => SimulatedResult(i) = Result("success", "none")
          /\ reason[i] # "none" => SimulatedResult(i) = Result("failure", reason[i])
    BY DEF SimulatedResult, Failure
  <2>3. BundleTypeOK'
    <3>1. \A i \in SimulatedOps : reason[i] \in Whys
      BY Left DEF BInv, Whys
    <3>2. \A i \in SimulatedOps :
            SimulatedResult(i) \in [status : {"none", "success", "failure", "resubmit"},
                                   reason : Whys]
      <4> TAKE i \in SimulatedOps
      <4>1. "none" \in Whys
        BY DEF Whys
      <4>2. CASE reason[i] = "none"
        BY <2>2, <4>1, <4>2 DEF Result
      <4>3. CASE reason[i] # "none"
        BY <2>2, <3>1, <4>3 DEF Result
      <4> QED BY <4>2, <4>3
    <3>3. opsToBundle \subseteq SimulatedOps
      BY <1>1, Sending
    <3> QED BY <1>1, <2>1, <3>2, <3>3 DEF BInv, BundleTypeOK
  <2>4. \A i \in SimulatedOps :
          /\ results'[i].status # "none"
          /\ results'[i].status = "success" <=> i \in sent'
          /\ results'[i].reason = reason[i]
    BY <1>1, <2>1, <2>2, Sending DEF Result
  <2>5. EveryOpAnswered'
    BY <1>1, <2>4, Left DEF BInv, EveryOpAnswered, filterVars
  <2> QED BY <1>2, <2>3, <2>5 DEF BInv
<1>4. CASE kind \notin Bundling
  <2>1. results' = [i \in SimulatedOps |-> NoResult] /\ phase' = "replaced"
    BY <1>4 DEF SendingSucceeds, Answered
  <2>2. BundleTypeOK' /\ EveryOpAnswered'
    BY <1>1, <2>1, Sending DEF BInv, BundleTypeOK, EveryOpAnswered, NoResult, Result, Whys
  <2> QED BY <1>2, <2>2 DEF BInv
<1> QED BY <1>3, <1>4

LEMMA InsufficientFundsKeeps == BInv /\ InsufficientFunds => BInv'
<1> SUFFICES ASSUME BInv, InsufficientFunds PROVE BInv'
  OBVIOUS
<1>1. phase = "sending" /\ phase' = "returned" /\ UNCHANGED <<sent, recorded, filterVars, kind>>
  BY DEF InsufficientFunds, Answered
<1>2. results' = [i \in SimulatedOps |->
                    IF i \in opsToBundle THEN Result("resubmit", "InsufficientFundsError")
                                         ELSE NoResult]
  BY DEF InsufficientFunds, Answered
<1>3. BundleTypeOK'
  BY <1>1, <1>2 DEF BInv, BundleTypeOK, NoResult, Result, Whys
<1>4. \A i \in SimulatedOps :
        /\ i \in opsToBundle => /\ results'[i].status = "resubmit"
                                /\ results'[i].reason = "InsufficientFundsError"
        /\ i \notin opsToBundle => /\ results'[i].status = "none"
                                   /\ results'[i].reason = "none"
  BY <1>2 DEF NoResult, Result
<1> QED BY <1>1, <1>3, <1>4, Sending, EndsUnsent, Words

LEMMA SendingFailsKeeps == BInv /\ SendingFails => BInv'
<1> SUFFICES ASSUME BInv, SendingFails PROVE BInv'
  OBVIOUS
<1>1. phase = "sending" /\ UNCHANGED <<sent, recorded, filterVars>>
  BY DEF SendingFails
<1>2. kind \in Bundling \/ kind \in Replacing
  BY DEF BInv, BundleTypeOK
<1>3. CASE kind \in Bundling
  <2>1. FailedBySending = SimulatedOps
    BY <1>1, <1>3, Sending DEF FailedBySending, Bundling
  <2>2. /\ phase' = "returned" /\ kind' = kind
        /\ results' = [i \in SimulatedOps |-> Result("failure", "INTERNAL FAILURE")]
    BY <1>3, <2>1 DEF SendingFails, Answered, Failure, Bundling, Replacing
  <2>3. "INTERNAL FAILURE" \in Whys
    BY DEF Whys
  <2> QED BY <1>1, <2>2, <2>3, Sending, SameForAll, Words
<1>4. CASE kind \in Replacing
  <2>1. /\ phase' \in {"failed", "potentially_already_included"} /\ kind' = kind
        /\ results' = [i \in SimulatedOps |-> NoResult]
    BY <1>4 DEF SendingFails, Answered, Bundling, Replacing
  <2> QED BY <1>1, <2>1, Sending, NoAnswers
<1> QED BY <1>2, <1>3, <1>4

LEMMA BundleNextKeeps == BInv /\ [BundleNext]_<<filterVars, bundleVars>> => BInv'
<1> SUFFICES ASSUME BInv, [BundleNext]_<<filterVars, bundleVars>> PROVE BInv'
  OBVIOUS
<1>1. CASE ParametersReceived
  <2>1. /\ phase' = "filtering" /\ phase = "parameters"
        /\ UNCHANGED <<kind, results, sent, recorded, filterVars>>
    BY <1>1 DEF ParametersReceived
  <2> QED BY <2>1, LoopKept DEF BInv, BundleTypeOK, NothingYet, ReadyToSend,
             EveryOpAnswered, RecordedAsSent, Ongoing
<1>2. CASE UNCHANGED <<filterVars, bundleVars>>
  <2>1. UNCHANGED <<kind, phase, results, sent, recorded>> /\ UNCHANGED filterVars
    BY <1>2 DEF bundleVars
  <2>2. opsToBundle' = opsToBundle /\ opsToSend' = opsToSend
    BY <2>1 DEF opsToBundle, opsToSend, filterVars
  <2> QED BY <2>1, <2>2, LoopKept DEF BInv, BundleTypeOK, NothingYet, ReadyToSend,
             EveryOpAnswered, RecordedAsSent, filterVars
<1> QED BY <1>1, <1>2, ParametersFailedKeeps, FilteringKeeps, NothingSimulatedKeeps,
           SimulationFailedKeeps, PrepareKeeps, SendingSucceedsKeeps, InsufficientFundsKeeps,
           SendingFailsKeeps DEF BundleNext

LEMMA BInvAlways == BundleSpec => []BInv
<1> QED BY InitBInv, BundleNextKeeps, PTL DEF BundleSpec

\* Whatever the node answers, to however many operations: a call that
\* returns has a result for each, but for those left out before the funds
\* did not suffice; success is said of what was sent, and the simulation
\* is blamed only for what the node named.
THEOREM AnswersAll == BundleSpec => []EveryOpAnswered
<1>1. BInv => EveryOpAnswered
  BY DEF BInv
<1> QED BY <1>1, BInvAlways, PTL

\* Later replacements start from what was sent, which was simulated.
THEOREM Recorded == BundleSpec => []RecordedAsSent
<1>1. BInv => RecordedAsSent
  BY DEF BInv
<1> QED BY <1>1, BInvAlways, PTL

-----------------------------------------------------------------------------
(* The gas of the transaction.                                             *)

\* The operations whose floor counts are those that are sent, before and
\* after.
GasInv ==
    /\ gas \in Nat
    /\ phase = "sending" /\ kind # "bundleCompressed" => gas >= innerHandleOpFloor + 10000
    /\ GasCoversFloor

\* The sum of a figure of the operations that are left.
Summed(f) == MapThenSumSet(LAMBDA i : f[i], opsToBundle)

LEMMA SummedType ==
    ASSUME NEW f \in [SimulatedOps -> Nat]
    PROVE  Summed(f) \in Nat
<1> DEFINE S == opsToBundle
           Body(g) == [s \in SUBSET S |->
                          IF s = {} THEN 0 ELSE f[AnyOf(s)] + g[s \ {AnyOf(s)}]]
           h == CHOOSE g : g = Body(g)
<1>1. IsFiniteSet(S) /\ Natural(S, f)
  <2>1. S \subseteq SimulatedOps
    BY DEF opsToBundle, opsToSend
  <2> QED BY <2>1, AllFinite, FS_Subset DEF Natural
<1>2. Summed(f) = h[S]
  BY DEF Summed, MapThenSumSet, MapThenFoldSet, AnyOf
<1>3. h = CHOOSE g : Adding(g, S, f)
  BY DEF Adding
<1>4. Summed(f) = Total(S, f)
  BY <1>2, <1>3 DEF Total
<1>5. Total(S, f) \in Nat
  <2> HIDE DEF S
  <2> QED BY <1>1, TotalType
<1> QED BY <1>4, <1>5

LEMMA FloorType ==
    /\ innerHandleOpFloor \in Nat
    /\ UNCHANGED filterVars => innerHandleOpFloor' = innerHandleOpFloor
<1>1. innerHandleOpFloor \in Nat
  BY BundleOpsAssumption, SummedType DEF Summed, innerHandleOpFloor
<1>2. UNCHANGED filterVars => innerHandleOpFloor' = innerHandleOpFloor
  <2> SUFFICES ASSUME UNCHANGED filterVars PROVE innerHandleOpFloor' = innerHandleOpFloor
    OBVIOUS
  <2>1. opsToBundle' = opsToBundle
    BY DEF opsToBundle, opsToSend, filterVars
  <2> QED BY <2>1 DEF innerHandleOpFloor, MapThenSumSet, MapThenFoldSet
<1> QED BY <1>1, <1>2

LEMMA RaisedEnough ==
    ASSUME NEW limit \in Nat, NEW floor \in Nat
    PROVE  RaisedTo(limit, floor) \in Nat /\ RaisedTo(limit, floor) >= floor
BY DEF RaisedTo

\* The limits that the transaction may be given.
LEMMA LimitsCover ==
    ASSUME NEW estimate \in Estimates, NEW limit \in GasLimits(estimate)
    PROVE  /\ limit \in Nat
           /\ kind # "bundleCompressed" => limit >= innerHandleOpFloor + 10000
<1>1. estimate \in Nat
  BY BundleOpsAssumption
<1>2. CASE kind = "bundleCompressed"
  BY <1>1, <1>2 DEF GasLimits
<1>3. CASE kind # "bundleCompressed"
  <2>1. localGasLimit \in Nat
    BY BundleOpsAssumption, SummedType DEF Summed, localGasLimit
  <2>2. PICK given \in {estimate, localGasLimit} :
            limit = RaisedTo(given, innerHandleOpFloor) + 10000
    BY <1>3 DEF GasLimits
  <2>3. given \in Nat
    BY <1>1, <2>1
  <2> DEFINE raised == RaisedTo(given, innerHandleOpFloor)
  <2>4. raised \in Nat /\ raised >= innerHandleOpFloor /\ innerHandleOpFloor \in Nat
    BY <2>3, FloorType, RaisedEnough
  <2>5. limit = raised + 10000
    BY <2>2
  <2> HIDE DEF raised
  <2> QED BY <2>4, <2>5
<1> QED BY <1>2, <1>3

LEMMA InitGasInv == BundleInit => GasInv
BY BundleOpsAssumption DEF BundleInit, GasInv, GasCoversFloor

LEMMA NextGasInv == BInv /\ GasInv /\ [BundleNext]_<<filterVars, bundleVars>> => GasInv'
<1> SUFFICES ASSUME BInv, GasInv, [BundleNext]_<<filterVars, bundleVars>> PROVE GasInv'
  OBVIOUS

\* Nothing is sent, or what was sent stays as it is.
<1>1. ASSUME UNCHANGED gas, phase' # "sending",
             phase' \in {"returned", "replaced"} => sent' = {}
      PROVE  GasInv'
  BY <1>1 DEF GasInv, GasCoversFloor
<1>2. phase \in Ongoing => sent = {}
  BY DEF BInv, NothingYet
<1>3. CASE UNCHANGED <<filterVars, bundleVars>>
  <2>1. UNCHANGED <<gas, phase, kind, sent>> /\ innerHandleOpFloor' = innerHandleOpFloor
    BY <1>3, FloorType DEF bundleVars
  <2> QED BY <2>1 DEF GasInv, GasCoversFloor
<1>4. CASE ParametersReceived
  BY <1>1, <1>4 DEF ParametersReceived
<1>5. CASE ParametersFailed
  BY <1>1, <1>2, <1>5 DEF ParametersFailed, Answered, Ongoing
<1>6. CASE Filtering
  <2>1. phase' = "filtering" /\ UNCHANGED gas
    BY <1>6 DEF Filtering, bundleVars
  <2> QED BY <1>1, <2>1
<1>7. CASE NothingSimulated
  BY <1>1, <1>2, <1>7 DEF NothingSimulated, Answered, Ongoing
<1>8. CASE SimulationFailed
  <2>1. phase = "filtering" /\ UNCHANGED <<gas, sent>>
        /\ phase' \in {"returned", "failed", "potentially_already_included"}
    BY <1>8 DEF SimulationFailed, Simulated, Answered, BInv, BundleTypeOK
  <2> QED BY <1>1, <1>2, <2>1 DEF Ongoing
<1>9. CASE Prepare
  <2>1. PICK estimate \in Estimates : \E limit \in GasLimits(estimate) :
            gas' = IF kind \in Replacing /\ gas > limit THEN gas ELSE limit
    BY <1>9 DEF Prepare
  <2>2. PICK limit \in GasLimits(estimate) :
            gas' = IF kind \in Replacing /\ gas > limit THEN gas ELSE limit
    BY <2>1
  <2>3. /\ limit \in Nat /\ innerHandleOpFloor \in Nat
        /\ kind # "bundleCompressed" => limit >= innerHandleOpFloor + 10000
    BY LimitsCover, FloorType
  <2>4. phase' = "sending" /\ UNCHANGED <<kind, filterVars>>
    BY <1>9 DEF Prepare
  <2>5. innerHandleOpFloor' = innerHandleOpFloor
    BY <2>4, FloorType
  <2>6. gas \in Nat
    BY DEF GasInv
  <2>7. gas' \in Nat /\ gas' >= limit
    BY <2>2, <2>3, <2>6
  <2>8. kind # "bundleCompressed" => gas' >= innerHandleOpFloor + 10000
    BY <2>3, <2>7
  <2> QED BY <2>4, <2>5, <2>7, <2>8 DEF GasInv, GasCoversFloor
<1>10. CASE SendingSucceeds
  <2>1. phase = "sending" /\ UNCHANGED <<kind, gas>> /\ UNCHANGED filterVars
        /\ phase' \in {"returned", "replaced"}
    BY <1>10 DEF SendingSucceeds, Answered
  <2>2. innerHandleOpFloor' = innerHandleOpFloor
    BY <2>1, FloorType
  <2> QED BY <2>1, <2>2 DEF GasInv, GasCoversFloor
<1>11. CASE InsufficientFunds
  BY <1>1, <1>2, <1>11 DEF InsufficientFunds, Answered, Ongoing
<1>12. CASE SendingFails
  <2>1. phase = "sending" /\ UNCHANGED <<gas, sent>>
        /\ phase' \in {"returned", "failed", "potentially_already_included"}
    BY <1>12 DEF SendingFails, Answered, BInv, BundleTypeOK
  <2> QED BY <1>1, <1>2, <2>1 DEF Ongoing
<1> QED BY <1>3, <1>4, <1>5, <1>6, <1>7, <1>8, <1>9, <1>10, <1>11, <1>12 DEF BundleNext

\* What a bundle or a replacement is sent with covers the floor that the
\* entry point asks for its operations, however many were left out on the
\* way and whatever the node estimated.
THEOREM CoversFloor == BundleSpec => []GasCoversFloor
<1>1. GasInv => GasCoversFloor
  BY DEF GasInv
<1>2. BundleSpec => []GasInv
  BY InitGasInv, NextGasInv, BInvAlways, PTL DEF BundleSpec
<1> QED BY <1>1, <1>2, PTL

\* Within its callers the loop behaves as FilterOps says, so that all that
\* is shown of it above holds of it there.
THEOREM CallsTheLoop == BundleSpec => FilterSpec
<1>1. BundleInit => FilterInit
  BY DEF BundleInit
<1>2. [BundleNext]_<<filterVars, bundleVars>> => [FilterNext]_filterVars
  BY DEF BundleNext, ParametersReceived, ParametersFailed, Filtering, NothingSimulated,
         SimulationFailed, Prepare, SendingSucceeds, InsufficientFunds, SendingFails
<1> QED BY <1>1, <1>2, PTL DEF BundleSpec, FilterSpec

-----------------------------------------------------------------------------
(* The wallets of bundles and of the transactions that are followed.       *)

Sent == Handling \cup {"pending"}

\* The bundles that own a wallet are those between getWallet and the end.
OwnerInv == \A b \in Bundles : owned[b] = NoWallet <=> pc[b] \in {"idle", "waiting"}

\* A wallet is available, or has exactly one owner.
WalletInv ==
    /\ \A b \in Bundles : owned[b] \notin free
    /\ \A b, c \in Bundles : owned[b] # NoWallet /\ owned[b] = owned[c] => b = c
    /\ \A w \in Wallets \ free : \E b \in Bundles : owned[b] = w

\* A bundle is followed only once it has been sent, by operations of its own,
\* and if one that has been sent is not followed there is a reason.
FollowedInv ==
    /\ \A o \in Operations : entry[o] \in Bundles =>
           pc[entry[o]] \in Sent /\ o \in ops[entry[o]]
    /\ \A b \in Bundles : pc[b] \in Sent => b \in followed \/ fate[b] # "none"

\* The bundles whose operations are in the processing store.
Held == {"waiting"} \cup Calling

\* A call has operations, which have no submitted entries yet and are in no
\* other call: markSubmitted makes the only entries they have.
CustodyInv ==
    /\ \A b \in Bundles : pc[b] \in Held => ops[b] # {}
    /\ \A b \in Bundles : \A o \in ops[b] : pc[b] \in Held => entry[o] = NoBundle
    /\ \A b, c \in Bundles :
           pc[b] \in Held /\ pc[c] \in Held /\ ops[b] \cap ops[c] # {} => b = c

IInv ==
    /\ TypeOK
    /\ IsFiniteSet(pool)
    /\ OwnerInv
    /\ WalletInv
    /\ FollowedInv
    /\ CustodyInv

Transactions == [account : Accounts, nonce : 0..MaxNonce,
                 by : Bundles \cup {NoBundle}]

USE DEF wallets, chain, submitted

-----------------------------------------------------------------------------

LEMMA PCsApart ==
    /\ Calling \cap Sent = {}
    /\ {"idle", "waiting"} \cap (Calling \cup Sent) = {}
    /\ PCs = {"idle", "waiting"} \cup Calling \cup Sent
    /\ "pending" \in Sent
    /\ Held \cap Sent = {} /\ Calling \subseteq Held /\ "idle" \notin Held
BY DEF Calling, Handling, PCs, Sent, Held

LEMMA AccountType ==
    ASSUME TypeOK, OwnerInv, NEW b \in Bundles, pc[b] \in Calling \cup Sent
    PROVE  owned[b] \in Wallets /\ Account(b) \in Accounts
BY PCsApart, BundleAssumption DEF TypeOK, OwnerInv, Account

\* The nonces that the node may answer are natural numbers.
LEMMA WalletCountsType ==
    ASSUME TypeOK, IsFiniteSet(pool), NEW a \in Accounts,
           NEW n \in TransactionCounts(a)
    PROVE  n \in Nat
<1>1. IsFiniteSet(Pending(a))
  BY FS_Subset DEF Pending
<1>2. Cardinality(Pending(a)) \in Nat
  BY <1>1, FS_CardinalityType
<1>3. latest[a] \in Nat
  BY BundleAssumption DEF TypeOK
<1> QED BY <1>2, <1>3 DEF TransactionCounts

LEMMA TakenType ==
    ASSUME TypeOK, IsFiniteSet(pool), OwnerInv,
           NEW b \in Bundles, pc[b] \in Calling \cup Sent,
           NEW n \in latest[Account(b)]..MaxNonce
    PROVE  Taken(b, n) \in SUBSET Transactions /\ IsFiniteSet(Taken(b, n))
<1> DEFINE kept == {p \in pool : p.account # Account(b) \/ p.nonce # n}
           new == [account |-> Account(b), nonce |-> n, by |-> b]
<1>1. n \in 0..MaxNonce
  BY AccountType, BundleAssumption DEF TypeOK
<1>2. new \in Transactions
  BY <1>1, AccountType DEF Transactions
<1>3. kept \subseteq pool /\ pool \subseteq Transactions
  BY DEF TypeOK, Transactions
<1>4. IsFiniteSet(kept) /\ IsFiniteSet({new})
  BY <1>3, FS_Subset, FS_Singleton
<1>5. IsFiniteSet(kept \cup {new})
  BY <1>4, FS_Union
<1> QED BY <1>2, <1>3, <1>5 DEF Taken

LEMMA DisownedType ==
    ASSUME NEW b \in Bundles, NEW txs \in SUBSET Transactions, IsFiniteSet(txs)
    PROVE  /\ Disowned(b, txs) \in SUBSET Transactions
           /\ IsFiniteSet(Disowned(b, txs))
<1> DEFINE f(p) == [p EXCEPT !.by = IF @ = b THEN NoBundle ELSE @]
           F == [p \in txs |-> f(p)]
           image == {F[p] : p \in DOMAIN F}
<1>1. \A p \in txs : f(p) \in Transactions
  BY DEF Transactions
<1>2. Disowned(b, txs) = {f(p) : p \in txs}
  BY DEF Disowned
<1>3. F \in Surjection(txs, {f(p) : p \in txs})
  BY DEF Surjection
<1>4. IsFiniteSet({f(p) : p \in txs})
  BY <1>3, FS_Surjection
<1> QED BY <1>1, <1>2, <1>4

\* Who has lost the last of its entries has been given a reason.
LEMMA LostForAReason ==
    ASSUME IInv, NEW S, NEW why, S = {} \/ why # "none", entry' = Without(S)
    PROVE  /\ \A b \in Bundles : pc[b] \in Sent =>
                  b \in followed' \/ FateWithout(S, why)[b] # "none"
           /\ \A b \in followed' : b \in followed
           /\ \A o \in Operations : entry'[o] \in {entry[o], NoBundle}
           /\ \A o \in Operations : o \in S => entry'[o] = NoBundle
<1>1. \A o \in Operations : entry'[o] = IF o \in S THEN NoBundle ELSE entry[o]
  BY DEF Without
<1>2. ASSUME NEW b \in Bundles, pc[b] \in Sent
      PROVE  b \in followed' \/ FateWithout(S, why)[b] # "none"
  <2>1. CASE b \notin followed
    BY <1>2, <2>1 DEF IInv, FollowedInv, FateWithout
  <2>2. CASE b \in followed /\ Entries(b) \subseteq S
    <3>1. S # {}
      BY <2>2 DEF followed
    <3> QED BY <2>2, <3>1 DEF FateWithout
  <2>3. CASE b \in followed /\ ~ (Entries(b) \subseteq S)
    <3>1. PICK o \in Operations : entry[o] = b /\ o \notin S
      BY <2>3 DEF Entries
    <3>2. entry'[o] = b
      BY <1>1, <3>1
    <3> QED BY <3>2 DEF followed, Entries
  <2> QED BY <2>1, <2>2, <2>3
<1>3. \A b \in followed' : b \in followed
  BY <1>1, BundleAssumption DEF followed, Entries
<1> QED BY <1>1, <1>2, <1>3

LEMMA FateType ==
    ASSUME TypeOK, NEW S, NEW why \in Fates
    PROVE  FateWithout(S, why) \in [Bundles -> Fates] /\ Without(S) \in [Operations -> Bundles \cup {NoBundle}]
BY DEF FateWithout, Without, TypeOK

-----------------------------------------------------------------------------

LEMMA InitHolds == Init => IInv
<1> SUFFICES ASSUME Init
             PROVE  IInv
  OBVIOUS
<1>1. TypeOK
  <2>1. NewRequest \in [nonce : Nat, attempts : 0..2, underPriced : BOOLEAN]
    BY DEF NewRequest
  <2>2. latest \in [Accounts -> 0..MaxNonce + 1]
    BY BundleAssumption DEF Init
  <2>3. /\ free \in SUBSET Wallets
        /\ asking \in SUBSET Bundles
        /\ owned \in [Bundles -> Wallets \cup {NoWallet}]
    BY DEF Init, Pool!Init
  <2>4. /\ pc \in [Bundles -> PCs]
        /\ fate \in [Bundles -> Fates]
        /\ ops \in [Bundles -> SUBSET Operations]
        /\ entry \in [Operations -> Bundles \cup {NoBundle}]
        /\ nonce \in [Bundles -> Nat]
        /\ times \in [Bundles -> 0..2]
    BY DEF Init, PCs, Fates
  <2>5. /\ mined \in SUBSET Bundles
        /\ stage \in {"idle", "refresh", "gas_price", "stuck"}
        /\ stalled \in BOOLEAN
        /\ pool = {}
    BY DEF Init
  <2>6. request \in [Bundles -> [nonce : Nat, attempts : 0..2,
                                 underPriced : BOOLEAN]]
    BY <2>1 DEF Init
  <2> QED BY <2>2, <2>3, <2>4, <2>5, <2>6 DEF TypeOK
<1>2. IsFiniteSet(pool)
  BY FS_EmptySet DEF Init
<1>3. OwnerInv /\ WalletInv
  BY BundleAssumption DEF Init, Pool!Init, OwnerInv, WalletInv
<1>4. FollowedInv /\ CustodyInv
  <2>1. \A b \in Bundles : pc[b] \notin Sent /\ pc[b] \notin Held
    BY PCsApart DEF Init
  <2>2. \A o \in Operations : entry[o] \notin Bundles
    BY BundleAssumption DEF Init
  <2> QED BY <2>1, <2>2 DEF FollowedInv, CustodyInv
<1> QED BY <1>1, <1>2, <1>3, <1>4 DEF IInv

\* A bundle that ends gives its wallet back and is not followed.
LEMMA EndsPreserves ==
    ASSUME IInv, NEW b \in Bundles, pc[b] \in Calling \cup Sent,
           NEW txs \in SUBSET Transactions, IsFiniteSet(txs),
           NEW S, pc[b] \in Sent => ops[b] \subseteq S,
           NEW why \in Fates, S = {} \/ why # "none", EndsWith(b, txs, S, why)
    PROVE  IInv'
<1> USE DEF IInv
<1>1. owned[b] \in Wallets
  BY AccountType
<1>2. /\ free' = free \cup {owned[b]}
      /\ owned' = [owned EXCEPT ![b] = NoWallet]
      /\ UNCHANGED asking
      /\ pc' = [pc EXCEPT ![b] = "idle"]
  BY DEF EndsWith, Forgotten, Pool!Give, Goes
<1>3. /\ fate' = [FateWithout(S, why) EXCEPT ![b] = "none"]
      /\ entry' = Without(S) /\ ops' = [ops EXCEPT ![b] = {}]
      /\ fate' \in [Bundles -> Fates] /\ ops' \in [Bundles -> SUBSET Operations]
      /\ entry' \in [Operations -> Bundles \cup {NoBundle}]
  <2>1. /\ fate' = [FateWithout(S, why) EXCEPT ![b] = "none"]
        /\ entry' = Without(S) /\ ops' = [ops EXCEPT ![b] = {}]
    BY DEF EndsWith
  <2>2. "none" \in Fates
    BY DEF Fates
  <2>3. ops' \in [Bundles -> SUBSET Operations]
    BY <2>1 DEF TypeOK
  <2> QED BY <2>1, <2>2, <2>3, FateType
<1>4. pool' \in SUBSET Transactions /\ IsFiniteSet(pool')
  BY DisownedType DEF EndsWith, Forgotten
<1>5. /\ free' \in SUBSET Wallets
      /\ asking' \in SUBSET Bundles
      /\ owned' \in [Bundles -> Wallets \cup {NoWallet}]
      /\ pc' \in [Bundles -> PCs]
  BY <1>1, <1>2 DEF TypeOK, PCs
<1>6. /\ nonce' \in [Bundles -> Nat]
      /\ times' \in [Bundles -> 0..2]
      /\ mined' \in SUBSET Bundles
      /\ UNCHANGED <<stage, stalled, latest>>
  BY DEF EndsWith, Forgotten, TypeOK
<1>7. request' \in [Bundles -> [nonce : Nat, attempts : 0..2,
                                underPriced : BOOLEAN]]
  BY DEF EndsWith, Forgotten, NewRequest, TypeOK
<1>8. TypeOK'
  BY <1>3, <1>4, <1>5, <1>6, <1>7 DEF TypeOK, Transactions
<1>9. OwnerInv'
  BY <1>1, <1>2 DEF OwnerInv, TypeOK
<1>10. WalletInv'
  BY <1>1, <1>2, BundleAssumption DEF WalletInv, TypeOK
<1>11. /\ \A c \in Bundles \ {b} : pc'[c] = pc[c] /\ ops'[c] = ops[c]
       /\ pc'[b] = "idle" /\ pc'[b] \notin Held /\ ops'[b] = {}
       /\ \A c \in Bundles \ {b} : fate'[c] = FateWithout(S, why)[c]
  BY <1>2, <1>3, PCsApart DEF TypeOK, FateWithout
<1>12. /\ \A c \in Bundles : pc[c] \in Sent => c \in followed' \/ FateWithout(S, why)[c] # "none"
       /\ \A o \in Operations : entry'[o] \in {entry[o], NoBundle}
       /\ \A o \in Operations : o \in S => entry'[o] = NoBundle
  BY <1>3, LostForAReason
<1>13. FollowedInv'
  <2>1. ASSUME NEW o \in Operations, entry'[o] \in Bundles
        PROVE  pc'[entry'[o]] \in Sent /\ o \in ops'[entry'[o]]
    <3>1. entry'[o] = entry[o] /\ o \notin S
      BY <1>12, <2>1, BundleAssumption
    <3>2. pc[entry[o]] \in Sent /\ o \in ops[entry[o]]
      BY <2>1, <3>1 DEF FollowedInv
    <3>3. entry[o] # b
      BY <3>1, <3>2
    <3> QED BY <1>11, <2>1, <3>1, <3>2, <3>3
  <2>2. ASSUME NEW c \in Bundles, pc'[c] \in Sent
        PROVE  c \in followed' \/ fate'[c] # "none"
    <3>1. c # b
      BY <1>11, <2>2, PCsApart
    <3> QED BY <1>11, <1>12, <2>2, <3>1
  <2> QED BY <2>1, <2>2 DEF FollowedInv
<1>14. CustodyInv'
  <2>1. \A c \in Bundles : pc'[c] \in Held => c # b /\ pc[c] \in Held /\ ops'[c] = ops[c]
    BY <1>11
  <2>2. \A c \in Bundles : ops[c] \in SUBSET Operations
    BY DEF TypeOK
  <2>3. ASSUME NEW c \in Bundles, NEW o \in ops'[c], pc'[c] \in Held
        PROVE  entry'[o] = NoBundle
    <3>1. o \in ops[c] /\ pc[c] \in Held /\ o \in Operations
      BY <2>1, <2>2, <2>3
    <3>2. entry[o] = NoBundle
      BY <3>1 DEF CustodyInv
    <3> QED BY <1>12, <3>1, <3>2
  <2> QED BY <2>1, <2>3 DEF CustodyInv
<1> QED BY <1>4, <1>8, <1>9, <1>10, <1>13, <1>14

LEMMA EndPreserves ==
    ASSUME IInv, NEW b \in Bundles, pc[b] \in Calling, Ends(b)
    PROVE  IInv'
<1>1. pool \in SUBSET Transactions /\ IsFiniteSet(pool)
  BY DEF IInv, TypeOK, Transactions
<1>2. pc[b] \notin Sent /\ "none" \in Fates
  BY PCsApart DEF Fates
<1> QED BY <1>1, <1>2, EndsPreserves DEF Ends

LEMMA ClosePreserves ==
    ASSUME IInv, NEW b \in Bundles, pc[b] \in Sent,
           NEW txs \in SUBSET Transactions, IsFiniteSet(txs), Closes(b, txs)
    PROVE  IInv'
<1>1. "shared" \in Fates
  BY DEF Fates
<1> QED BY <1>1, EndsPreserves DEF Closes

LEMMA CloseNowPreserves ==
    ASSUME IInv, NEW b \in Bundles, pc[b] \in Sent, Closes(b, pool)
    PROVE  IInv'
<1>1. pool \in SUBSET Transactions /\ IsFiniteSet(pool)
  BY DEF IInv, TypeOK, Transactions
<1> QED BY <1>1, ClosePreserves

\* A bundle that goes on with its call or its handling keeps its wallet.
LEMMA KeepsPreserves ==
    ASSUME IInv, NEW b \in Bundles,
           UNCHANGED wallets, UNCHANGED entry,
           TypeOK', IsFiniteSet(pool'),
           \/ pc[b] \in Calling /\ pc'[b] \in Calling /\ ops'[b] # {}
           \/ pc[b] \in Sent /\ pc'[b] \in Sent /\ UNCHANGED ops,
           \A c \in Bundles \ {b} : pc'[c] = pc[c],
           \A c \in Bundles \ {b} : ops'[c] = ops[c],
           ops'[b] \subseteq ops[b],
           \A c \in Bundles : fate[c] # "none" => fate'[c] # "none"
    PROVE  IInv'
<1> USE DEF IInv
<1>1. OwnerInv'
  BY PCsApart DEF OwnerInv
<1>2. WalletInv'
  BY DEF WalletInv
<1>3. followed' = followed
  BY DEF followed, Entries
<1>4. FollowedInv'
  <2>1. \A c \in Bundles : pc[c] \in Sent <=> pc'[c] \in Sent
    BY PCsApart
  <2>2. \A c \in Bundles : pc[c] \in Sent => ops'[c] = ops[c]
    BY PCsApart
  <2> QED BY <1>3, <2>1, <2>2 DEF FollowedInv
<1>5. CustodyInv'
  <2>1. \A c \in Bundles : pc'[c] \in Held => pc[c] \in Held
    BY PCsApart
  <2>2. \A c \in Bundles : ops'[c] \subseteq ops[c]
    OBVIOUS
  <2>3. \A c \in Bundles : pc[c] \in Held => ops'[c] # {}
    <3>1. \A c \in Bundles : pc[c] \in Held => ops[c] # {}
      BY DEF CustodyInv
    <3>2. pc[b] \in Held => ops'[b] # {}
      BY <3>1, PCsApart
    <3> QED BY <3>1, <3>2
  <2> QED BY <2>1, <2>2, <2>3 DEF CustodyInv
<1> QED BY <1>1, <1>2, <1>4, <1>5

-----------------------------------------------------------------------------

LEMMA BundlePreserves ==
    ASSUME IInv, NEW b \in Bundles, bundle(b)
    PROVE  IInv'
<1> USE DEF IInv
<1>1. PICK S \in (SUBSET Available) \ {{}} : ops' = [ops EXCEPT ![b] = S]
  BY DEF bundle
<1>2. /\ pc[b] = "idle" /\ pc' = [pc EXCEPT ![b] = "waiting"]
      /\ asking' = asking \cup {b}
      /\ UNCHANGED <<free, owned, nonce, request, times, submitted, stage,
                     stalled, chain>>
  BY DEF bundle, Goes, Pool!Ask
<1>3. TypeOK'
  <2>1. S \in SUBSET Operations
    BY DEF Available
  <2>2. ops' \in [Bundles -> SUBSET Operations]
    BY <1>1, <2>1 DEF TypeOK
  <2> QED BY <1>2, <2>2 DEF TypeOK, PCs
<1>4. OwnerInv' /\ WalletInv'
  BY <1>2 DEF OwnerInv, WalletInv, TypeOK
<1>5. /\ \A c \in Bundles \ {b} : pc'[c] = pc[c] /\ ops'[c] = ops[c]
      /\ pc'[b] \in Held /\ pc'[b] \notin Sent /\ pc[b] \notin Sent
      /\ ops'[b] = S /\ followed' = followed
  BY <1>1, <1>2, PCsApart DEF TypeOK, Held, followed, Entries
<1>6. FollowedInv'
  BY <1>2, <1>5 DEF FollowedInv
<1>7. CustodyInv'
  <2>1. \A o \in S : /\ entry[o] = NoBundle
                     /\ \A c \in Bundles : o \in ops[c] => pc[c] \notin Held
    BY DEF Available, Held
  <2>2. S # {} /\ entry' = entry
    BY <1>2
  <2>3. \A c \in Bundles : pc'[c] \in Held => ops'[c] # {}
    BY <1>5, <2>2 DEF CustodyInv
  <2>4. \A c \in Bundles : \A o \in ops'[c] : pc'[c] \in Held => entry'[o] = NoBundle
    BY <1>5, <2>1, <2>2 DEF CustodyInv
  <2>5. ASSUME NEW c \in Bundles, NEW d \in Bundles, pc'[c] \in Held, pc'[d] \in Held,
               NEW o \in ops'[c] \cap ops'[d]
        PROVE  c = d
    <3>1. c # b /\ d # b => c = d
      BY <1>5, <2>5 DEF CustodyInv
    <3>2. c = b /\ d # b => FALSE
      BY <1>5, <2>1, <2>5
    <3>3. c # b /\ d = b => FALSE
      BY <1>5, <2>1, <2>5
    <3> QED BY <3>1, <3>2, <3>3
  <2> QED BY <2>3, <2>4, <2>5 DEF CustodyInv
<1> QED BY <1>2, <1>3, <1>4, <1>6, <1>7

LEMMA GetWalletPreserves ==
    ASSUME IInv, NEW b \in Bundles, getWallet(b)
    PROVE  IInv'
<1> USE DEF IInv
<1>1. PICK w \in free : /\ owned' = [owned EXCEPT ![b] = w]
                        /\ free' = free \ {w}
  BY DEF getWallet, Pool!Take
<1>2. /\ pc[b] = "waiting" /\ pc' = [pc EXCEPT ![b] = "parameters"]
      /\ asking' = asking \ {b}
      /\ UNCHANGED <<nonce, request, times, ops, submitted, stage, stalled,
                     chain>>
  BY DEF getWallet, Goes, Pool!Take
<1>3. TypeOK'
  BY <1>1, <1>2 DEF TypeOK, PCs, Calling
<1>4. owned[b] = NoWallet /\ w \in Wallets /\ w # NoWallet
  BY <1>2, BundleAssumption DEF OwnerInv, TypeOK
<1>5. OwnerInv'
  BY <1>1, <1>2, <1>4 DEF OwnerInv, TypeOK
<1>6. WalletInv'
  <2>1. owned'[b] = w /\ \A c \in Bundles \ {b} : owned'[c] = owned[c]
    BY <1>1 DEF TypeOK
  <2>2. \A c \in Bundles : owned'[c] \notin free'
    BY <1>1, <2>1 DEF WalletInv
  <2>3. \A c \in Bundles \ {b} : owned[c] # w
    BY <1>1 DEF WalletInv
  <2>4. \A c, d \in Bundles :
            owned'[c] # NoWallet /\ owned'[c] = owned'[d] => c = d
    BY <2>1, <2>3 DEF WalletInv
  <2>5. ASSUME NEW v \in Wallets \ free'
        PROVE  \E c \in Bundles : owned'[c] = v
    <3>1. CASE v = w
      BY <2>1, <3>1
    <3>2. CASE v # w
      <4>1. PICK c \in Bundles : owned[c] = v
        BY <1>1, <3>2 DEF WalletInv
      <4>2. c # b
        BY <1>4, <4>1, BundleAssumption
      <4> QED BY <2>1, <4>1, <4>2
    <3> QED BY <3>1, <3>2
  <2> QED BY <2>2, <2>4, <2>5 DEF WalletInv
<1>7. /\ \A c \in Bundles \ {b} : pc'[c] = pc[c]
      /\ pc[b] \in Held /\ pc'[b] \in Held /\ pc'[b] \notin Sent /\ pc[b] \notin Sent
      /\ followed' = followed
  BY <1>2, PCsApart DEF TypeOK, Held, Calling, followed, Entries
<1>8. FollowedInv' /\ CustodyInv'
  BY <1>2, <1>7 DEF FollowedInv, CustodyInv
<1> QED BY <1>2, <1>3, <1>5, <1>6, <1>8

LEMMA ParametersPreserves ==
    ASSUME IInv, NEW b \in Bundles, Parameters(b)
    PROVE  IInv'
<1> USE DEF IInv
<1>1. pc[b] \in Calling
  BY DEF Parameters, Calling
<1>2. CASE Ends(b)
  BY <1>1, <1>2, EndPreserves
<1>3. ASSUME NEW n \in TransactionCounts(Account(b)),
             nonce' = [nonce EXCEPT ![b] = n],
             Goes(b, "filtering"),
             UNCHANGED <<wallets, request, times, ops, submitted, stage, stalled, chain>>
      PROVE  IInv'
  <2>1. n \in Nat
    BY <1>1, <1>3, AccountType, WalletCountsType
  <2>2. TypeOK'
    BY <1>3, <2>1 DEF TypeOK, Goes, PCs, Calling
  <2>3. ops[b] # {}
    BY <1>1, PCsApart DEF CustodyInv
  <2> QED BY <1>1, <1>3, <2>2, <2>3, KeepsPreserves DEF Goes, Calling, TypeOK
<1> QED BY <1>2, <1>3 DEF Parameters

\* A call that throws keeps its wallet, and its operations have no entries.
LEMMA LeavesPreserves ==
    ASSUME IInv, NEW b \in Bundles, pc[b] \in Calling, Goes(b, "pending"),
           NEW why \in Fates, why # "none", fate' = [fate EXCEPT ![b] = why],
           UNCHANGED <<wallets, nonce, request, times, ops, entry, stage, stalled, chain>>
    PROVE  IInv'
<1> USE DEF IInv
<1>1. TypeOK'
  BY DEF TypeOK, Goes, PCs
<1>2. OwnerInv' /\ WalletInv'
  BY PCsApart DEF OwnerInv, WalletInv, Goes, TypeOK
<1>3. /\ \A c \in Bundles \ {b} : pc'[c] = pc[c] /\ fate'[c] = fate[c]
      /\ pc'[b] \in Sent /\ pc'[b] \notin Held /\ fate'[b] = why /\ followed' = followed
  BY PCsApart DEF TypeOK, Goes, followed, Entries
<1>4. FollowedInv' /\ CustodyInv'
  BY <1>3 DEF FollowedInv, CustodyInv
<1> QED BY <1>1, <1>2, <1>4

LEMMA FilterPreserves ==
    ASSUME IInv, NEW b \in Bundles, Filter(b)
    PROVE  IInv'
<1> USE DEF IInv
<1>1. pc[b] \in Calling
  BY DEF Filter, Calling
<1>2. CASE Ends(b)
  BY <1>1, <1>2, EndPreserves
<1>3. ASSUME NEW S \in (SUBSET ops[b]) \ {{}}, ops' = [ops EXCEPT ![b] = S],
             Goes(b, "sending"), request' = [request EXCEPT ![b].nonce = nonce[b]],
             UNCHANGED <<wallets, nonce, times, submitted, stage, stalled, chain>>
      PROVE  IInv'
  <2>1. request' \in [Bundles -> [nonce : Nat, attempts : 0..2,
                                  underPriced : BOOLEAN]]
    BY <1>3 DEF TypeOK
  <2>2. ops' \in [Bundles -> SUBSET Operations]
    BY <1>3 DEF TypeOK
  <2>3. TypeOK'
    BY <1>3, <2>1, <2>2 DEF TypeOK, Goes, PCs, Calling
  <2>4. /\ ops'[b] \subseteq ops[b] /\ ops'[b] # {} /\ \A c \in Bundles \ {b} : ops'[c] = ops[c]
    BY <1>3 DEF TypeOK
  <2> QED BY <1>1, <1>3, <2>3, <2>4, KeepsPreserves DEF Goes, Calling, TypeOK
<1>4. CASE /\ Goes(b, "pending")
           /\ fate' = [fate EXCEPT ![b] = "threw"]
           /\ UNCHANGED <<wallets, nonce, request, times, ops, entry, stage,
                          stalled, chain>>
  BY <1>1, <1>4, LeavesPreserves DEF Fates
<1> QED BY <1>2, <1>3, <1>4 DEF Filter

LEMMA SendSucceedsPreserves ==
    ASSUME IInv, NEW b \in Bundles, SendSucceeds(b)
    PROVE  IInv'
<1> USE DEF IInv
<1> DEFINE S == conflictingOps(b, request[b].underPriced)
<1>1. pc[b] \in Calling
  BY DEF SendSucceeds, Calling
<1>2. pool' \in SUBSET Transactions /\ IsFiniteSet(pool')
  BY <1>1, TakenType DEF SendSucceeds
<1>3. /\ entry' = Without(S)
      /\ fate' = FateWithout(S, "conflict")
      /\ pc' = [pc EXCEPT ![b] = "sent"]
      /\ request' = [request EXCEPT ![b] = NewRequest]
      /\ UNCHANGED <<wallets, nonce, times, ops, stage, stalled, latest, mined>>
  BY DEF SendSucceeds, Goes
<1> HIDE DEF S
<1>4. /\ fate' \in [Bundles -> Fates] /\ entry' \in [Operations -> Bundles \cup {NoBundle}]
      /\ "conflict" # "none"
  <2>1. "conflict" \in Fates
    BY DEF Fates
  <2> QED BY <1>3, <2>1, FateType
<1>5. request' \in [Bundles -> [nonce : Nat, attempts : 0..2,
                                underPriced : BOOLEAN]]
  BY <1>3 DEF NewRequest, TypeOK
<1>6. TypeOK'
  BY <1>2, <1>3, <1>4, <1>5 DEF TypeOK, PCs, Calling, Transactions
<1>7. OwnerInv' /\ WalletInv'
  BY <1>1, <1>3, PCsApart DEF OwnerInv, WalletInv, TypeOK, Calling
<1>8. /\ \A c \in Bundles : pc[c] \in Sent => c \in followed' \/ fate'[c] # "none"
      /\ \A o \in Operations : entry'[o] \in {entry[o], NoBundle}
  BY <1>3, <1>4, LostForAReason
<1>9. /\ \A c \in Bundles : pc'[c] \in Sent <=> pc[c] \in Sent
      /\ \A c \in Bundles : pc'[c] \in Held => pc[c] \in Held
  BY <1>1, <1>3, PCsApart DEF TypeOK, Calling
<1>10. FollowedInv'
  BY <1>3, <1>8, <1>9, BundleAssumption DEF FollowedInv
<1>11. CustodyInv'
  BY <1>3, <1>8, <1>9 DEF CustodyInv, TypeOK
<1> QED BY <1>2, <1>6, <1>7, <1>10, <1>11

LEMMA AttemptPreserves ==
    ASSUME IInv, NEW b \in Bundles, pc[b] = "sending", NEW n \in Nat,
           NEW u \in BOOLEAN, Attempt(b, n, u)
    PROVE  IInv'
<1> USE DEF IInv
<1>1. pc[b] \in Calling
  BY DEF Calling
<1>2. CASE request[b].attempts < 2
  <2> DEFINE r == [nonce |-> n, attempts |-> request[b].attempts + 1,
                   underPriced |-> u]
  <2>1. request[b].attempts \in 0..2
    BY DEF TypeOK
  <2>2. r \in [nonce : Nat, attempts : 0..2, underPriced : BOOLEAN]
    BY <1>2, <2>1
  <2>3. /\ request' = [request EXCEPT ![b] = r]
        /\ UNCHANGED <<wallets, pc, nonce, times, ops, submitted, stage, stalled, chain>>
    BY <1>2 DEF Attempt, TypeOK
  <2> HIDE DEF r
  <2>4. TypeOK'
    BY <2>2, <2>3 DEF TypeOK
  <2>5. ops[b] # {}
    BY <1>1, PCsApart DEF CustodyInv
  <2> QED BY <1>1, <2>3, <2>4, <2>5, KeepsPreserves
<1>3. CASE ~ (request[b].attempts < 2)
  <2>1. pool \in SUBSET Transactions /\ IsFiniteSet(pool)
    BY DEF TypeOK, Transactions
  <2>2. EndsWith(b, pool, conflictingOps(b, u), "conflict")
    BY <1>3 DEF Attempt
  <2>3. pc[b] \notin Sent /\ "conflict" \in Fates
    BY <1>1, PCsApart DEF Fates
  <2> QED BY <1>1, <2>1, <2>2, <2>3, EndsPreserves
<1> QED BY <1>2, <1>3

LEMMA SendFailsPreserves ==
    ASSUME IInv, NEW b \in Bundles, SendFails(b)
    PROVE  IInv'
<1> USE DEF IInv
<1>1. pc[b] = "sending"
  BY DEF SendFails
<1>2. request[b].nonce \in Nat
  BY DEF TypeOK
<1>3. ASSUME NEW m \in TransactionCounts(Account(b)), Attempt(b, m, FALSE)
      PROVE  IInv'
  <2>1. m \in Nat
    BY <1>1, AccountType, WalletCountsType DEF Calling
  <2> QED BY <1>1, <1>3, <2>1, AttemptPreserves
<1>4. CASE Attempt(b, request[b].nonce, TRUE)
  BY <1>1, <1>2, <1>4, AttemptPreserves
<1>5. CASE Attempt(b, request[b].nonce, FALSE)
  BY <1>1, <1>2, <1>5, AttemptPreserves
<1> QED BY <1>3, <1>4, <1>5 DEF SendFails

LEMMA SendThrowsPreserves ==
    ASSUME IInv, NEW b \in Bundles, SendThrows(b)
    PROVE  IInv'
<1> USE DEF IInv
<1>1. pc[b] \in Calling
  BY DEF SendThrows, Calling
<1>2. CASE Ends(b)
  BY <1>1, <1>2, EndPreserves
<1>3. CASE /\ request[b].nonce \in latest[Account(b)]..MaxNonce
           /\ EndsWith(b, Taken(b, request[b].nonce), {}, "none")
  <2>1. pc[b] \notin Sent /\ "none" \in Fates
    BY <1>1, PCsApart DEF Fates
  <2> QED BY <1>1, <1>3, <2>1, TakenType, EndsPreserves
<1> QED BY <1>2, <1>3 DEF SendThrows

LEMMA ReportedPreserves ==
    ASSUME IInv, NEW b \in Bundles, Reported(b)
    PROVE  IInv'
<1> USE DEF IInv
<1>1. pc[b] \in Calling /\ pc[b] \in Held
  BY DEF Reported, Calling, Held
<1>2. CASE fate' = [fate EXCEPT ![b] = "unreported"] /\ UNCHANGED entry
  BY <1>1, <1>2, LeavesPreserves DEF Reported, Fates
<1>3. CASE /\ entry' = [o \in Operations |-> IF o \in ops[b] THEN b ELSE entry[o]]
           /\ UNCHANGED fate
  <2>1. /\ pc' = [pc EXCEPT ![b] = "pending"]
        /\ UNCHANGED <<wallets, nonce, request, times, ops, stage, stalled, chain>>
    BY DEF Reported, Goes
  <2>2. TypeOK'
    <3>1. entry' \in [Operations -> Bundles \cup {NoBundle}]
      BY <1>3 DEF TypeOK
    <3> QED BY <1>3, <2>1, <3>1 DEF TypeOK, PCs
  <2>3. OwnerInv' /\ WalletInv'
    BY <1>1, <2>1, PCsApart DEF OwnerInv, WalletInv, TypeOK
  <2>4. /\ \A c \in Bundles \ {b} : pc'[c] = pc[c]
        /\ pc'[b] \in Sent /\ pc'[b] \notin Held
    BY <2>1, PCsApart DEF TypeOK
  <2>5. /\ \A o \in Operations : entry'[o] = IF o \in ops[b] THEN b ELSE entry[o]
        /\ \A o \in ops[b] : entry[o] = NoBundle
        /\ ops[b] \in SUBSET Operations
    BY <1>1, <1>3 DEF CustodyInv, TypeOK
  <2>6. FollowedInv'
    <3>1. ASSUME NEW o \in Operations, entry'[o] \in Bundles
          PROVE  pc'[entry'[o]] \in Sent /\ o \in ops'[entry'[o]]
      <4>1. CASE o \in ops[b]
        BY <2>1, <2>4, <2>5, <4>1
      <4>2. CASE o \notin ops[b]
        <5>1. entry'[o] = entry[o]
          BY <2>5, <4>2
        <5>2. pc[entry[o]] \in Sent /\ o \in ops[entry[o]]
          BY <3>1, <5>1 DEF FollowedInv
        <5> QED BY <2>1, <2>4, <3>1, <5>1, <5>2
      <4> QED BY <4>1, <4>2
    <3>2. ASSUME NEW c \in Bundles, pc'[c] \in Sent, fate'[c] = "none"
          PROVE  c \in followed'
      <4>1. CASE c = b
        <5>1. ops[b] # {}
          BY <1>1 DEF CustodyInv
        <5>2. PICK o \in Operations : o \in ops[b]
          BY <2>5, <5>1
        <5> QED BY <2>5, <4>1, <5>2 DEF followed, Entries
      <4>2. CASE c # b
        <5>1. c \in followed
          BY <1>3, <2>4, <3>2, <4>2 DEF FollowedInv
        <5>2. PICK o \in Operations : entry[o] = c
          BY <5>1 DEF followed, Entries
        <5>3. entry'[o] = c
          BY <2>5, <5>2, BundleAssumption
        <5> QED BY <5>3 DEF followed, Entries
      <4> QED BY <4>1, <4>2
    <3> QED BY <3>1, <3>2 DEF FollowedInv
  <2>7. CustodyInv'
    <3>1. \A c \in Bundles : pc'[c] \in Held => c # b /\ pc[c] \in Held /\ ops'[c] = ops[c]
      BY <2>1, <2>4
    <3>2. ASSUME NEW c \in Bundles, NEW o \in ops'[c], pc'[c] \in Held
          PROVE  entry'[o] = NoBundle
      <4>1. c # b /\ pc[c] \in Held /\ o \in ops[c] /\ o \in Operations
        BY <3>1, <3>2 DEF TypeOK
      <4>2. o \notin ops[b]
        BY <1>1, <4>1 DEF CustodyInv
      <4> QED BY <2>5, <4>1, <4>2 DEF CustodyInv
    <3> QED BY <3>1, <3>2 DEF CustodyInv
  <2> QED BY <2>1, <2>2, <2>3, <2>6, <2>7
<1> QED BY <1>2, <1>3 DEF Reported

-----------------------------------------------------------------------------

\* Followed bundles enter a stage of handleBlock.
LEMMA EnterPreserves ==
    ASSUME IInv, NEW bs \in SUBSET followed,
           NEW to \in {"idle", "refresh", "gas_price", "stuck"},
           NEW at, bs # {} => at \in Handling, Enter(bs, to, at)
    PROVE  IInv'
<1> USE DEF IInv
<1>1. /\ pc' = [b \in Bundles |-> IF b \in bs THEN at ELSE pc[b]]
      /\ stage' = to
      /\ UNCHANGED <<wallets, nonce, request, times, ops, submitted, stalled,
                     chain>>
  BY DEF Enter
<1>2. \A b \in bs : b \in Bundles /\ pc[b] \in Sent /\ at \in Sent
  BY DEF FollowedInv, Sent, followed, Entries
<1>3. pc' \in [Bundles -> PCs]
  BY <1>1, <1>2, PCsApart DEF TypeOK
<1>4. TypeOK'
  BY <1>1, <1>3 DEF TypeOK
<1>5. OwnerInv' /\ WalletInv'
  BY <1>1, <1>2, PCsApart DEF OwnerInv, WalletInv, TypeOK
<1>6. \A b \in Bundles : /\ pc'[b] \in Sent <=> pc[b] \in Sent
                         /\ pc'[b] \in Held <=> pc[b] \in Held
  BY <1>1, <1>2, PCsApart
<1>7. followed' = followed
  BY <1>1 DEF followed, Entries
<1>8. FollowedInv' /\ CustodyInv'
  BY <1>1, <1>6, <1>7 DEF FollowedInv, CustodyInv
<1> QED BY <1>1, <1>4, <1>5, <1>8

LEMMA StagesPreserve ==
    ASSUME IInv, \/ handleBlock \/ GasPriceStage \/ GasPriceThrows
                 \/ StuckStage \/ HandlingEnds
    PROVE  IInv'
<1>1. CASE handleBlock
  BY <1>1, EnterPreserves DEF handleBlock, Handling
<1>2. CASE GasPriceStage
  BY <1>2, EnterPreserves DEF GasPriceStage, NextStage, Handling
<1>3. CASE StuckStage
  BY <1>3, EnterPreserves DEF StuckStage, NextStage, Handling
<1>4. CASE HandlingEnds
  BY <1>4, EnterPreserves DEF HandlingEnds
<1>5. CASE GasPriceThrows
  BY <1>5 DEF GasPriceThrows, IInv, TypeOK, OwnerInv, WalletInv, FollowedInv,
     CustodyInv, followed, Entries
<1> QED BY <1>1, <1>2, <1>3, <1>4, <1>5

LEMMA RefreshPreserves ==
    ASSUME IInv, NEW b \in Bundles, refreshTransactionStatus(b)
    PROVE  IInv'
<1> USE DEF IInv
<1>1. pc[b] \in Sent
  BY DEF refreshTransactionStatus, Sent, Handling
<1>2. CASE Closes(b, pool)
  BY <1>1, <1>2, CloseNowPreserves
<1>3. CASE /\ Goes(b, "pending")
           /\ UNCHANGED <<wallets, nonce, request, times, ops, submitted,
                          stage, stalled, chain>>
  <2>1. TypeOK'
    BY <1>3 DEF TypeOK, Goes, PCs
  <2> QED BY <1>1, <1>3, <2>1, KeepsPreserves DEF Goes, Sent, TypeOK
<1>4. CASE /\ nonce' = [nonce EXCEPT ![b] = @ + 1]
           /\ entry' = Without(ops[b])
           /\ fate' = [FateWithout(ops[b], "shared") EXCEPT ![b] = "AA95"]
           /\ Goes(b, "price")
           /\ UNCHANGED <<wallets, request, times, ops, stage, stalled, chain>>
  <2>1. fate' \in [Bundles -> Fates] /\ entry' \in [Operations -> Bundles \cup {NoBundle}]
    <3>1. "shared" \in Fates /\ "AA95" \in Fates
      BY DEF Fates
    <3> QED BY <1>4, <3>1, FateType
  <2>2. TypeOK'
    BY <1>4, <2>1 DEF TypeOK, Goes, PCs, Handling
  <2>3. OwnerInv' /\ WalletInv'
    BY <1>1, <1>4, PCsApart DEF OwnerInv, WalletInv, Goes, TypeOK
  <2>4. /\ \A c \in Bundles : pc[c] \in Sent => c \in followed' \/ fate'[c] # "none"
        /\ \A o \in Operations : entry'[o] \in {entry[o], NoBundle}
    <3>1. "shared" # "none" /\ "AA95" # "none"
      OBVIOUS
    <3>2. /\ \A c \in Bundles : pc[c] \in Sent =>
                 c \in followed' \/ FateWithout(ops[b], "shared")[c] # "none"
          /\ \A o \in Operations : entry'[o] \in {entry[o], NoBundle}
      BY <1>4, <3>1, LostForAReason
    <3>3. \A c \in Bundles : fate'[c] = IF c = b THEN "AA95" ELSE FateWithout(ops[b], "shared")[c]
      BY <1>4 DEF FateWithout
    <3> QED BY <3>1, <3>2, <3>3
  <2>5. \A c \in Bundles : /\ pc'[c] \in Sent <=> pc[c] \in Sent
                           /\ pc'[c] \in Held <=> pc[c] \in Held
    BY <1>1, <1>4, PCsApart DEF Goes, TypeOK, Sent, Handling
  <2>6. FollowedInv'
    BY <1>4, <2>4, <2>5, BundleAssumption DEF FollowedInv
  <2>7. CustodyInv'
    BY <1>4, <2>4, <2>5 DEF CustodyInv, TypeOK
  <2> QED BY <1>4, <2>2, <2>3, <2>6, <2>7
<1> QED BY <1>2, <1>3, <1>4 DEF refreshTransactionStatus

LEMMA PotentiallyIncludedPreserves ==
    ASSUME IInv, NEW b \in Bundles, pc[b] \in Sent, PotentiallyIncluded(b)
    PROVE  IInv'
<1> USE DEF IInv
<1>1. CASE times[b] = 2
  BY <1>1, CloseNowPreserves DEF PotentiallyIncluded
<1>2. CASE times[b] # 2
  <2>1. times[b] + 1 \in 0..2
    BY <1>2 DEF TypeOK
  <2>2. /\ times' = [times EXCEPT ![b] = times[b] + 1]
        /\ Goes(b, "pending")
        /\ UNCHANGED <<wallets, nonce, request, ops, submitted, stage,
                       stalled, chain>>
    BY <1>2 DEF PotentiallyIncluded
  <2>3. TypeOK'
    BY <2>1, <2>2 DEF TypeOK, Goes, PCs
  <2> QED BY <2>2, <2>3, KeepsPreserves DEF Goes, Sent, TypeOK
<1> QED BY <1>1, <1>2

LEMMA ReplacementPricePreserves ==
    ASSUME IInv, NEW b \in Bundles, ReplacementPrice(b)
    PROVE  IInv'
<1> USE DEF IInv
<1>1. pc[b] \in Sent
  BY DEF ReplacementPrice, Sent, Handling
<1>2. CASE Closes(b, pool)
  BY <1>1, <1>2, CloseNowPreserves
<1>3. CASE /\ Goes(b, "refiltering")
           /\ UNCHANGED <<wallets, nonce, request, times, ops, submitted,
                          stage, stalled, chain>>
  <2>1. TypeOK'
    BY <1>3 DEF TypeOK, Goes, PCs, Handling
  <2> QED BY <1>1, <1>3, <2>1, KeepsPreserves DEF Goes, Sent, Handling, TypeOK
<1> QED BY <1>2, <1>3 DEF ReplacementPrice

LEMMA RefilterOpsPreserves ==
    ASSUME IInv, NEW b \in Bundles, RefilterOps(b)
    PROVE  IInv'
<1> USE DEF IInv
<1>1. pc[b] \in Sent
  BY DEF RefilterOps, Sent, Handling
<1>2. CASE Closes(b, pool)
  BY <1>1, <1>2, CloseNowPreserves
<1>3. CASE PotentiallyIncluded(b)
  BY <1>1, <1>3, PotentiallyIncludedPreserves
<1>4. CASE /\ Goes(b, "resending")
           /\ UNCHANGED <<wallets, nonce, request, times, ops, submitted,
                          stage, stalled, chain>>
  <2>1. TypeOK'
    BY <1>4 DEF TypeOK, Goes, PCs, Handling
  <2> QED BY <1>1, <1>4, <2>1, KeepsPreserves DEF Goes, Sent, Handling, TypeOK
<1> QED BY <1>2, <1>3, <1>4 DEF RefilterOps

\* The entries of a replaced transaction.
LEMMA ReplacedPreserves ==
    ASSUME IInv, NEW b \in Bundles, pc[b] \in Sent, NEW S \in (SUBSET ops[b]) \ {{}},
           Replaced(b, S), pc' = [pc EXCEPT ![b] = "pending"],
           pool' \in SUBSET Transactions, IsFiniteSet(pool'),
           UNCHANGED <<wallets, nonce, request, times, stage, stalled, latest, mined>>
    PROVE  IInv'
<1> USE DEF IInv
<1>1. /\ ops' = [ops EXCEPT ![b] = S]
      /\ entry' = [o \in Operations |->
             IF o \in S /\ entry[o] # NoBundle THEN b
             ELSE IF o \in ops[b] THEN NoBundle ELSE entry[o]]
      /\ fate' = [FateWithout(ops[b], "shared") EXCEPT ![b] =
             IF \E o \in S : entry[o] # NoBundle THEN "none"
             ELSE IF fate[b] = "none" THEN "shared" ELSE fate[b]]
  BY DEF Replaced
<1>2. ops[b] \in SUBSET Operations /\ S \in SUBSET Operations
  BY DEF TypeOK
<1>3. TypeOK'
  <2>1. "shared" \in Fates /\ "none" \in Fates
    BY DEF Fates
  <2>2. FateWithout(ops[b], "shared") \in [Bundles -> Fates]
    BY <2>1, FateType
  <2>3. fate[b] \in Fates
    BY DEF TypeOK
  <2>4. fate' \in [Bundles -> Fates]
    BY <1>1, <2>1, <2>2, <2>3
  <2>5. ops' \in [Bundles -> SUBSET Operations]
    BY <1>1, <1>2 DEF TypeOK
  <2>6. entry' \in [Operations -> Bundles \cup {NoBundle}]
    BY <1>1 DEF TypeOK
  <2> QED BY <2>4, <2>5, <2>6 DEF TypeOK, PCs, Transactions
<1>4. OwnerInv' /\ WalletInv'
  BY PCsApart DEF OwnerInv, WalletInv, TypeOK
<1>5. /\ \A c \in Bundles : /\ pc'[c] \in Sent <=> pc[c] \in Sent
                            /\ pc'[c] \in Held <=> pc[c] \in Held
      /\ \A c \in Bundles \ {b} : pc'[c] = pc[c] /\ ops'[c] = ops[c]
      /\ ops'[b] = S /\ pc[b] \notin Held /\ pc'[b] \in Sent
  BY <1>1, PCsApart DEF TypeOK
<1>6. /\ \A o \in S : entry[o] # NoBundle => entry'[o] = b
      /\ \A o \in Operations : o \notin ops[b] => entry'[o] = entry[o]
      /\ \A o \in Operations : entry'[o] # NoBundle => entry[o] # NoBundle
      /\ \A o \in Operations : o \in ops[b] /\ entry'[o] # NoBundle => entry'[o] = b /\ o \in S
  BY <1>1, <1>2
<1>7. FollowedInv'
  <2>1. ASSUME NEW o \in Operations, entry'[o] \in Bundles
        PROVE  pc'[entry'[o]] \in Sent /\ o \in ops'[entry'[o]]
    <3>1. CASE o \in ops[b]
      <4>1. entry'[o] = b /\ o \in S
        <5>1. entry'[o] # NoBundle
          BY <2>1, BundleAssumption
        <5> QED BY <1>6, <2>1, <3>1, <5>1
      <4> QED BY <1>5, <4>1
    <3>2. CASE o \notin ops[b]
      <4>1. entry'[o] = entry[o]
        BY <1>6, <3>2
      <4>2. pc[entry[o]] \in Sent /\ o \in ops[entry[o]]
        BY <2>1, <4>1 DEF FollowedInv
      <4>3. entry[o] # b
        BY <3>2, <4>2
      <4> QED BY <1>5, <2>1, <4>1, <4>2, <4>3
    <3> QED BY <3>1, <3>2
  <2>2. ASSUME NEW c \in Bundles, pc'[c] \in Sent, c # b
        PROVE  c \in followed' \/ fate'[c] # "none"
    <3>1. fate'[c] = FateWithout(ops[b], "shared")[c]
      BY <1>1, <2>2 DEF FateWithout
    <3>2. CASE c \notin followed
      BY <1>5, <2>2, <3>1, <3>2 DEF FollowedInv, FateWithout
    <3>3. CASE c \in followed /\ Entries(c) \subseteq ops[b]
      BY <3>1, <3>3 DEF FateWithout
    <3>4. CASE c \in followed /\ ~ (Entries(c) \subseteq ops[b])
      <4>1. PICK o \in Operations : entry[o] = c /\ o \notin ops[b]
        BY <3>4 DEF Entries
      <4>2. entry'[o] = c
        BY <1>6, <4>1
      <4> QED BY <4>2 DEF followed, Entries
    <3> QED BY <3>2, <3>3, <3>4
  <2>3. b \in followed' \/ fate'[b] # "none"
    <3>1. CASE \E o \in S : entry[o] # NoBundle
      <4>1. PICK o \in S : entry[o] # NoBundle
        BY <3>1
      <4>2. o \in Operations /\ entry'[o] = b
        BY <1>2, <1>6, <4>1
      <4> QED BY <4>2 DEF followed, Entries
    <3>2. CASE ~ (\E o \in S : entry[o] # NoBundle)
      BY <1>1, <3>2 DEF FateWithout
    <3> QED BY <3>1, <3>2
  <2> QED BY <2>1, <2>2, <2>3 DEF FollowedInv
<1>8. CustodyInv'
  <2>1. ASSUME NEW c \in Bundles, pc'[c] \in Held
        PROVE  pc[c] \in Held /\ ops'[c] = ops[c]
    <3>1. pc[c] \in Held
      BY <1>5, <2>1
    <3>2. c # b
      BY <1>5, <3>1
    <3> QED BY <1>5, <3>1, <3>2
  <2>2. \A c \in Bundles : ops[c] \in SUBSET Operations
    BY DEF TypeOK
  <2>3. ASSUME NEW c \in Bundles, NEW o \in ops'[c], pc'[c] \in Held
        PROVE  entry'[o] = NoBundle
    <3>1. pc[c] \in Held /\ o \in ops[c] /\ o \in Operations
      BY <2>1, <2>2, <2>3
    <3>2. entry[o] = NoBundle
      BY <3>1 DEF CustodyInv
    <3> QED BY <1>6, <3>1, <3>2
  <2> QED BY <2>1, <2>3 DEF CustodyInv
<1> QED BY <1>3, <1>4, <1>7, <1>8

LEMMA ReplacementSentPreserves ==
    ASSUME IInv, NEW b \in Bundles, ReplacementSent(b)
    PROVE  IInv'
<1> USE DEF IInv
<1>1. pc[b] \in Sent
  BY DEF ReplacementSent, Sent, Handling
<1>2. CASE Closes(b, pool)
  BY <1>1, <1>2, CloseNowPreserves
<1>3. CASE PotentiallyIncluded(b)
  BY <1>1, <1>3, PotentiallyIncludedPreserves
<1>4. CASE /\ nonce[b] \in latest[Account(b)]..MaxNonce
           /\ Closes(b, Taken(b, nonce[b]))
  BY <1>1, <1>4, TakenType, ClosePreserves
<1>5. ASSUME nonce[b] \in latest[Account(b)]..MaxNonce,
             pool' = Taken(b, nonce[b]),
             NEW S \in (SUBSET ops[b]) \ {{}}, Replaced(b, S),
             Goes(b, "pending"),
             UNCHANGED <<wallets, nonce, request, times, stage, stalled, latest, mined>>
      PROVE  IInv'
  <2>1. pool' \in SUBSET Transactions /\ IsFiniteSet(pool')
    BY <1>1, <1>5, TakenType
  <2> QED BY <1>1, <1>5, <2>1, ReplacedPreserves DEF Goes
<1> QED BY <1>2, <1>3, <1>4, <1>5 DEF ReplacementSent

LEMMA HandlerThrowsPreserves ==
    ASSUME IInv, NEW b \in Bundles, HandlerThrows(b)
    PROVE  IInv'
<1> USE DEF IInv
<1>1. pc[b] \in Sent
  BY DEF HandlerThrows, Sent, Handling
<1>2. TypeOK'
  BY DEF HandlerThrows, TypeOK, Goes, PCs
<1> QED BY <1>1, <1>2, KeepsPreserves DEF HandlerThrows, Goes, Sent, TypeOK

LEMMA NodePreserves ==
    ASSUME IInv, NEW p \in pool, Mine(p) \/ Evict(p)
    PROVE  IInv'
<1> USE DEF IInv
<1>1. pool' = pool \ {p}
  BY DEF Mine, Evict
<1>2. IsFiniteSet(pool')
  BY <1>1, FS_Subset
<1>3. UNCHANGED <<wallets, pc, nonce, request, times, ops, submitted, stage,
                  stalled>>
  BY DEF Mine, Evict
<1>4. p.account \in Accounts /\ p.nonce \in 0..MaxNonce /\ p.by \in Bundles \cup {NoBundle}
  BY DEF TypeOK
<1>5. latest' \in [Accounts -> 0..MaxNonce + 1]
  BY <1>4, BundleAssumption DEF Mine, Evict, TypeOK
<1>6. mined' \in SUBSET Bundles
  BY <1>4 DEF Mine, Evict, TypeOK
<1>7. TypeOK'
  BY <1>1, <1>3, <1>5, <1>6 DEF TypeOK
<1>8. OwnerInv' /\ WalletInv' /\ FollowedInv' /\ CustodyInv'
  BY <1>3 DEF OwnerInv, WalletInv, FollowedInv, CustodyInv, followed, Entries
<1> QED BY <1>2, <1>7, <1>8

LEMMA NextPreserves == IInv /\ [Next]_vars => IInv'
<1> SUFFICES ASSUME IInv, [Next]_vars
             PROVE  IInv'
  OBVIOUS
<1>1. ASSUME NEW b \in Bundles, bundle(b) \/ getWallet(b)
      PROVE  IInv'
  BY <1>1, BundlePreserves, GetWalletPreserves
<1>2. ASSUME NEW b \in Bundles, Call(b)
      PROVE  IInv'
  BY <1>2, ParametersPreserves, FilterPreserves, SendSucceedsPreserves,
     SendFailsPreserves, SendThrowsPreserves, ReportedPreserves DEF Call
<1>3. ASSUME NEW b \in Bundles, Handle(b)
      PROVE  IInv'
  BY <1>3, RefreshPreserves, ReplacementPricePreserves, RefilterOpsPreserves,
     ReplacementSentPreserves, HandlerThrowsPreserves DEF Handle
<1>4. CASE \/ handleBlock \/ GasPriceStage \/ GasPriceThrows
           \/ StuckStage \/ HandlingEnds
  BY <1>4, StagesPreserve
<1>5. ASSUME NEW p \in pool, Mine(p) \/ Evict(p)
      PROVE  IInv'
  BY <1>5, NodePreserves
<1>6. CASE UNCHANGED vars
  BY <1>6 DEF vars, IInv, TypeOK, OwnerInv, WalletInv, FollowedInv, CustodyInv,
     followed, Entries
<1> QED BY <1>1, <1>2, <1>3, <1>4, <1>5, <1>6 DEF Next

LEMMA Inductive == Spec => []IInv
BY InitHolds, NextPreserves, PTL DEF Spec

-----------------------------------------------------------------------------

\* The variables of BundleTx keep their types: three attempts and three
\* potential inclusions are the most there is.
THEOREM TypeCorrect == Spec => []TypeOK
<1>1. IInv => TypeOK
  BY DEF IInv
<1> QED BY <1>1, Inductive, PTL

\* While executor.bundle, a replacement or a followed transaction needs a
\* wallet, nobody else is given it.
THEOREM OneTransaction == Spec => []OneTransactionPerWallet
<1>1. IInv => OneTransactionPerWallet
  <2> SUFFICES ASSUME IInv
               PROVE  OneTransactionPerWallet
    OBVIOUS
  <2>1. \A b \in Busy : b \in Bundles /\ pc[b] \in Calling \cup Sent
    BY DEF IInv, Busy, FollowedInv, TypeOK, Sent, followed, Entries
  <2>2. \A b \in Busy : owned[b] \in Wallets
    BY <2>1, AccountType DEF IInv
  <2> QED BY <2>1, <2>2, BundleAssumption
       DEF IInv, WalletInv, OneTransactionPerWallet
<1> QED BY <1>1, Inductive, PTL

\* A wallet that is not available has an owner that still needs it, or was
\* lost in one of the five known ways.
THEOREM Accounted == Spec => []WalletsAccounted
<1>1. IInv => WalletsAccounted
  <2> SUFFICES ASSUME IInv, NEW w \in Wallets \ free
               PROVE  \E b \in Bundles :
                          owned[b] = w /\ (b \in Busy \/ fate[b] # "none")
    BY DEF WalletsAccounted
  <2>1. PICK b \in Bundles : owned[b] = w
    BY DEF IInv, WalletInv
  <2>2. pc[b] \in Calling \cup Sent
    BY <2>1, PCsApart, BundleAssumption DEF IInv, OwnerInv, TypeOK
  <2>3. b \in Busy \/ fate[b] # "none"
    BY <2>2 DEF IInv, FollowedInv, Busy, Sent
  <2> QED BY <2>1, <2>3
<1> QED BY <1>1, Inductive, PTL

-----------------------------------------------------------------------------
(* Executors with accounts of their own.                                   *)

AccountsApart == \A v, w \in Wallets : address[v] = address[w] => v = w

NoConflict == \A b \in Bundles : fate[b] # "conflict"

\* The followed transactions of other wallets have other senders.
LEMMA NothingConflicts ==
    ASSUME IInv, AccountsApart, NEW b \in Bundles, pc[b] \in Calling,
           NEW u \in BOOLEAN
    PROVE  conflictingOps(b, u) = {}
<1> SUFFICES ASSUME NEW o \in Operations, NEW c \in Bundles, entry[o] = c,
                    Account(c) = Account(b)
             PROVE  FALSE
  BY DEF conflictingOps
<1>1. c \in Bundles /\ pc[c] \in Sent
  BY DEF IInv, FollowedInv
<1>2. owned[c] \in Wallets /\ owned[b] \in Wallets
  BY <1>1, AccountType DEF IInv
<1>3. owned[c] = owned[b]
  BY <1>2 DEF AccountsApart, Account
<1>4. c = b
  BY <1>1, <1>2, <1>3, BundleAssumption DEF IInv, WalletInv
<1> QED BY <1>1, <1>4, PCsApart

LEMMA NoConflictPreserved ==
    ASSUME IInv, AccountsApart, NoConflict, [Next]_vars
    PROVE  NoConflict'
<1>1. ASSUME NEW b \in Bundles, NEW txs, NEW S, NEW why,
             S = {} \/ why # "conflict", EndsWith(b, txs, S, why)
      PROVE  NoConflict'
  BY <1>1 DEF EndsWith, FateWithout, followed, NoConflict
<1>2. ASSUME NEW b \in Bundles, Call(b)
      PROVE  NoConflict'
  <2>1. CASE Parameters(b) \/ Filter(b) \/ SendThrows(b) \/ Reported(b)
    BY <1>1, <2>1 DEF Parameters, Filter, SendThrows, Reported, Ends, NoConflict, IInv, TypeOK
  <2>2. CASE SendSucceeds(b)
    <3>1. pc[b] \in Calling /\ request[b].underPriced \in BOOLEAN
      BY <2>2 DEF SendSucceeds, Calling, IInv, TypeOK
    <3>2. conflictingOps(b, request[b].underPriced) = {}
      BY <3>1, NothingConflicts
    <3> QED BY <2>2, <3>2 DEF SendSucceeds, FateWithout, followed, NoConflict
  <2>3. ASSUME NEW n, NEW u \in BOOLEAN, pc[b] = "sending", Attempt(b, n, u)
        PROVE  NoConflict'
    <3>1. conflictingOps(b, u) = {}
      BY <2>3, NothingConflicts DEF Calling
    <3> QED BY <1>1, <2>3, <3>1 DEF Attempt, NoConflict
  <2>4. CASE SendFails(b)
    BY <2>3, <2>4 DEF SendFails
  <2> QED BY <1>2, <2>1, <2>2, <2>4 DEF Call
<1>3. ASSUME NEW b \in Bundles, Handle(b)
      PROVE  NoConflict'
  BY <1>1, <1>3 DEF Handle, refreshTransactionStatus, ReplacementPrice,
     RefilterOps, ReplacementSent, Replaced, HandlerThrows, PotentiallyIncluded,
     Closes, FateWithout, NoConflict, IInv, TypeOK
<1>4. CASE \/ handleBlock \/ GasPriceStage \/ GasPriceThrows
           \/ StuckStage \/ HandlingEnds
  BY <1>4 DEF handleBlock, GasPriceStage, GasPriceThrows, StuckStage,
     HandlingEnds, NextStage, Enter, NoConflict
<1>5. CASE \/ \E b \in Bundles : bundle(b) \/ getWallet(b)
           \/ \E p \in pool : Mine(p) \/ Evict(p)
           \/ UNCHANGED vars
  BY <1>5 DEF bundle, getWallet, Mine, Evict, vars, NoConflict
<1> QED BY <1>2, <1>3, <1>4, <1>5 DEF Next

\* If no two executors share an account, handleTransactionUnderPriced never
\* finds an operation to resubmit, whatever the node answers: the nonce it
\* looks for belongs to the wallet of the call itself.
THEOREM ConflictsNeedSharedAccount == Spec /\ AccountsApart => []NoConflict
<1>1. Init => NoConflict
  BY DEF Init, NoConflict
<1>2. AccountsApart => AccountsApart'
  BY DEF AccountsApart
<1>3. IInv /\ AccountsApart /\ NoConflict /\ [Next]_vars => NoConflict'
  BY NoConflictPreserved
<1> QED BY <1>1, <1>2, <1>3, Inductive, PTL DEF Spec
=============================================================================
