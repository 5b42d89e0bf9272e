----------------------------- MODULE MempoolAdd -----------------------------
(***************************************************************************)
(* MemoryMempool.add of src/mempool/mempool.ts as operators on the stores: *)
(* `out' is the outstanding store and `busy' the operations of the other   *)
(* two when it is called.                                                  *)
(***************************************************************************)
EXTENDS OpOrder

CONSTANTS
    NoEntity,      \* no paymaster, no factory
    EntryPointsV06,
    mempoolMaxParallelOps,
    mempoolMaxQueuedOps

EntryPoints == Field("entryPoint")

ASSUME AddAssumption ==
    /\ EntryPointsV06 \subseteq EntryPoints
    /\ mempoolMaxParallelOps \in Nat
    /\ mempoolMaxQueuedOps \in Nat

isVersion06(o) == userOp[o].entryPoint \in EntryPointsV06

Deploys(o) == userOp[o].factory # NoEntity

\* Two operations that would both deploy the sender.
SameDeployment(old, o) ==
    /\ Sender(old) = Sender(o)
    /\ isVersion06(old) = isVersion06(o)
    /\ Deploys(old) /\ Deploys(o)

Conflicts(old, o) == SameNonce(old, o) \/ SameDeployment(old, o)

\* Among the operations of S two of sender s have one nonce and disagree about
\* deploying the account, or about how: what replaces one of them may be the
\* rival of another operation besides, and only one is removed.
Disputed(s, S) ==
    \E p, q \in S :
        /\ Sender(p) = s
        /\ SameNonce(p, q)
        /\ ~ (Deploys(p) <=> Deploys(q)) \/ isVersion06(p) # isVersion06(q)

\* The index in `out' of the operation that o would replace, 0 if none.
oldUserOp(o, out) == SelectInSeq(out, LAMBDA old : Conflicts(old, o))

Bumps(old, o) ==
    /\ userOp[o].maxPriorityFee
         >= userOp[old].maxPriorityFee + (userOp[old].maxPriorityFee * 10) \div 100
    /\ userOp[o].maxFee >= userOp[old].maxFee + (userOp[old].maxFee * 10) \div 100

\* Mutant: the replaced operation stays.
RemainingKeepsOld(o, out) == out

\* `out' once the replaced operation is gone.
Remaining(o, out) ==
    LET i == oldUserOp(o, out)
    IN  IF i = 0 THEN out ELSE RemoveFirst(out, out[i])

\* Mutant: no check that the operation is known already.
ReplaceableIfKnown(o, out, busy) ==
    LET i == oldUserOp(o, out)
    IN  i = 0 \/ out[i] = o \/ Bumps(out[i], o)

\* The operation gets as far as the two limits.
Replaceable(o, out, busy) ==
    /\ o \notin ToSet(out) \cup busy
    /\ \A b \in busy : ~ SameNonce(b, o)
    /\ LET i == oldUserOp(o, out)
       IN  IF i = 0 THEN \A b \in busy : ~ SameDeployment(b, o)
           ELSE out[i] \notin busy /\ Bumps(out[i], o)

parallelUserOperations(o, out) ==
    {i \in 1..Len(out) : Sender(out[i]) = Sender(o)}

queuedUserOperations(o, out) ==
    {i \in parallelUserOperations(o, out) :
        userOp[out[i]].nonceKey = userOp[o].nonceKey}

WithinLimits(o, out) ==
    /\ Cardinality(parallelUserOperations(o, out)) =< mempoolMaxParallelOps
    /\ Cardinality(queuedUserOperations(o, out)) =< mempoolMaxQueuedOps

Accepted(o, out, busy) ==
    Replaceable(o, out, busy) /\ WithinLimits(o, Remaining(o, out))

\* Mutant: the replaced operation is removed before the fees are compared.
OutstandingAfterEagerAdd(o, out, busy) ==
    IF o \in ToSet(out) \cup busy THEN out
    ELSE IF Accepted(o, out, busy) THEN Append(Remaining(o, out), o)
         ELSE Remaining(o, out)

\* The outstanding store after the call.
OutstandingAfterAdd(o, out, busy) ==
    IF ~ Replaceable(o, out, busy) THEN out
    ELSE IF WithinLimits(o, Remaining(o, out))
         THEN Append(Remaining(o, out), o)
         ELSE Remaining(o, out)
=============================================================================
