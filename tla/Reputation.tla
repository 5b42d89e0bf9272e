----------------------------- MODULE Reputation -----------------------------
(***************************************************************************)
(* ReputationManager of src/mempool/reputationManager.ts: how often each   *)
(* address was seen and included at each entry point, and how many         *)
(* operations of the mempool name it.  An address that has no entry and    *)
(* one whose entry is all zero are treated alike everywhere.               *)
(*                                                                         *)
(* Outside the safe mode there is a NullReputationManager instead, that    *)
(* counts nothing and refuses nothing (getReputationManager of             *)
(* src/cli/setupServer.ts).                                                *)
(*                                                                         *)
(* The parameters have the names of the code, which fixes their values.    *)
(***************************************************************************)
EXTENDS MempoolAdd

CONSTANTS
    Addresses,                  \* senders, paymasters and factories
    staked,                     \* those with enough stake and unstake delay
    minInclusionDenominator, throttlingSlack, banSlack,
    throttledEntityMinMempoolCount,
    maxMempoolUserOperationsPerSender,
    maxMempoolUserOperationsPerNewUnstakedEntity,
    inclusionRateFactor,
    maxInclusionCredit,         \* 10000
    crashedOpsSeen,             \* 1000
    safeMode

ASSUME ReputationAssumption ==
    /\ Field("sender") \subseteq Addresses
    /\ Field("paymaster") \cup Field("factory") \subseteq Addresses \cup {NoEntity}
    /\ NoEntity \notin Addresses
    /\ staked \subseteq Addresses
    /\ minInclusionDenominator \in Nat \ {0}
    /\ throttlingSlack \in Nat
    /\ banSlack \in Nat
    /\ throttledEntityMinMempoolCount \in Nat
    /\ maxMempoolUserOperationsPerSender \in Nat
    /\ maxMempoolUserOperationsPerNewUnstakedEntity \in Nat
    /\ inclusionRateFactor \in Nat
    /\ maxInclusionCredit \in Nat
    /\ crashedOpsSeen \in Nat
    /\ safeMode \in BOOLEAN

VARIABLES
    entries,      \* opsSeen and opsIncluded, by entry point and address
    entityCount   \* by address only

ReputationEntry == [opsSeen : Nat, opsIncluded : Nat]

EntryPoint(o) == userOp[o].entryPoint

\* How many of the roles of operation o the address e has.
Roles(o, e) ==
    (IF Sender(o) = e THEN 1 ELSE 0) + (IF userOp[o].paymaster = e THEN 1 ELSE 0)
        + (IF userOp[o].factory = e THEN 1 ELSE 0)

-----------------------------------------------------------------------------
(* How many operations of the mempool name an address.                     *)

increaseUserOperationCount(o) ==
    entityCount' =
        IF safeMode THEN [e \in Addresses |-> entityCount[e] + Roles(o, e)]
        ELSE entityCount

decreaseUserOperationCount(o) ==
    entityCount' =
        IF safeMode
        THEN [e \in Addresses |->
                 IF entityCount[e] > Roles(o, e) THEN entityCount[e] - Roles(o, e)
                 ELSE 0]
        ELSE entityCount

\* Nothing is counted outside the safe mode: nothing to clear.
clearEntityCount == entityCount' = [e \in Addresses |-> 0]

-----------------------------------------------------------------------------
(* What was seen and included.                                             *)

\* es with the entries of o's entry point changed by f, a function of the
\* address and its entry.
WithEntries(es, o, f(_, _)) ==
    IF safeMode THEN [es EXCEPT ![EntryPoint(o)] = [e \in Addresses |-> f(e, @[e])]]
    ELSE es

\* updateUserOperationSeenStatus, applied to es.
Seen(es, o) ==
    WithEntries(es, o, LAMBDA e, r : [r EXCEPT !.opsSeen = @ + Roles(o, e)])

\* The factory counts only if the operation deployed the account.
updateUserOperationIncludedStatus(o, accountDeployed) ==
    entries' = WithEntries(entries, o, LAMBDA e, r :
        [r EXCEPT !.opsIncluded =
            @ + Roles(o, e)
              - (IF userOp[o].factory = e /\ ~ accountDeployed THEN 1 ELSE 0)])

\* Mutant: what was included before the crash still counts.
updateCrashedKeepsIncluded(r) == [r EXCEPT !.opsSeen = crashedOpsSeen]

updateCrashedHandleOps(r) == [opsSeen |-> crashedOpsSeen, opsIncluded |-> 0]

\* The entity that the reason of a FailedOp accuses.
Accused(o, reason) ==
    CASE reason = "AA1" -> userOp[o].factory
      [] reason = "AA2" -> Sender(o)
      [] reason = "AA3" -> userOp[o].paymaster
      [] OTHER -> NoEntity

crashedHandleOps(o, reason) ==
    entries' = WithEntries(entries, o, LAMBDA e, r :
        IF e = Accused(o, reason) THEN updateCrashedHandleOps(r) ELSE r)

setReputation(ep, e, r) ==
    entries' = IF safeMode THEN [entries EXCEPT ![ep][e] = r] ELSE entries

NoEntries == [ep \in EntryPoints |->
                 [e \in Addresses |-> [opsSeen |-> 0, opsIncluded |-> 0]]]

-----------------------------------------------------------------------------
(* What they mean.                                                         *)

minExpectedIncluded(r) == r.opsSeen \div minInclusionDenominator

Status(r) ==
    IF minExpectedIncluded(r) =< r.opsIncluded + throttlingSlack THEN "ok"
    ELSE IF minExpectedIncluded(r) =< r.opsIncluded + banSlack THEN "throttled"
    ELSE "banned"

getStatus(ep, e) == Status(entries[ep][e])

\* Integers: the rate is 0 unless everything seen was included.
inclusionRate(r) == IF r.opsSeen = 0 THEN 0 ELSE r.opsIncluded \div r.opsSeen

calCulateMaxMempoolUserOperationsPerEntity(r) ==
    maxMempoolUserOperationsPerNewUnstakedEntity
        + inclusionRate(r) * inclusionRateFactor
        + (IF r.opsIncluded > maxInclusionCredit THEN maxInclusionCredit
           ELSE r.opsIncluded)

\* checkReputationStatus throws for e, of which `count' operations are there.
Refused(ep, e, max, count) ==
    \/ getStatus(ep, e) = "banned"
    \/ count > throttledEntityMinMempoolCount /\ getStatus(ep, e) = "throttled"
    \/ count > max /\ e \notin staked

\* checkReputation lets o through with these counts, that include it.
Reputable(o, counts) ==
    LET ep == EntryPoint(o)
    IN  \/ ~ safeMode
        \/ /\ ~ Refused(ep, Sender(o), maxMempoolUserOperationsPerSender,
                        counts[Sender(o)])
           /\ \A e \in {userOp[o].paymaster, userOp[o].factory} \ {NoEntity} :
               ~ Refused(ep, e,
                   calCulateMaxMempoolUserOperationsPerEntity(entries[ep][e]),
                   counts[e])
=============================================================================
