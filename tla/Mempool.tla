------------------------------ MODULE Mempool ------------------------------
(***************************************************************************)
(* The life of a user operation inside alto: src/mempool/mempool.ts and    *)
(* store.ts, the monitor's statuses, and the steps of                      *)
(* src/executor/executorManager.ts and executor.ts that move operations    *)
(* between the three stores.                                               *)
(*                                                                         *)
(* Node runs one piece of code at a time and switches only at an await, so *)
(* an action is what runs between two awaits.  A loop over the results of  *)
(* a bundle, or over the operations of a transaction, runs without an      *)
(* await: its remaining iterations are `todo', and nothing else happens    *)
(* until it is empty.                                                      *)
(*                                                                         *)
(* A bundle transaction is known by the sequence of operations in it; its  *)
(* wallet, nonce and price are abstracted to the outcomes they cause.      *)
(***************************************************************************)
EXTENDS MempoolAdd

CONSTANTS
    Runners,       \* how many calls of bundle()/bundleNow() process at once
    balanceOf,     \* the paymasters' deposits at the entry point
    enableDebugEndpoints,
    safeMode,
    enforceUniqueSendersPerBundle,
    maxGasPerBundle,
    throttledEntityBundleCount,
    Lossy,         \* TRUE: awaits may throw, the executor lose operations
    SharedWallets  \* TRUE: two executor keys are the same account

Entities == (Field("paymaster") \cup Field("factory")) \ {NoEntity}
Senders == Field("sender")

ASSUME MempoolAssumption ==
    /\ balanceOf \in [Entities -> Nat]
    /\ enableDebugEndpoints \in BOOLEAN
    /\ safeMode \in BOOLEAN
    /\ enforceUniqueSendersPerBundle \in BOOLEAN
    /\ maxGasPerBundle \in Nat
    /\ throttledEntityBundleCount \in Nat
    /\ Lossy \in BOOLEAN
    /\ SharedWallets \in BOOLEAN

VARIABLES
    outstanding, processing,  \* the stores: sequences of operations
    submitted,                \* [op, tx]: the operation and its transaction
    status,                   \* the monitor's status of each operation
    reputation,               \* getStatus of each paymaster and factory
    run,                      \* the calls of bundle() up to their bundles
    sending,                  \* the bundles handed to sendToExecutor
    todo,                     \* the rest of the loop that is executing
    phase, polled,            \* handleBlock: its stage, its transactions
    stalled,                  \* a throw left currentlyHandlingBlock set
    watching,                 \* operations with a checkFrontrun watcher
    resending,                \* AA95: the transactions that are being replaced
    overtaken                 \* history: the operations of those among them of
                              \* which something was submitted before that ended

stores == <<outstanding, processing, submitted>>
vars == <<outstanding, processing, submitted, status, reputation, run,
          sending, todo, phase, polled, stalled, watching, resending, overtaken>>
aa95Vars == <<resending, overtaken>>
blockVars == <<phase, polled, stalled, watching, aa95Vars>>

Entry  == [op : Ops, tx : Seq(Ops)]
Task   == [kind : {"success", "failure", "resubmit", "none", "underpriced",
                   "included", "reverted", "dropped", "replaced"},
           op : Ops, tx : Seq(Ops)]
Statuses == {"not_found", "not_submitted", "submitted", "included", "rejected"}
Bundle == [ops : Seq(Ops), left : SUBSET EntryPoints]

-----------------------------------------------------------------------------
(* The stores.                                                             *)

removeSubmitted(o) == RemoveFirstMatch(submitted, LAMBDA e : e.op = o)

SubmittedOps(s) == {s[i].op : i \in 1..Len(s)}

Transactions == {submitted[i].tx : i \in 1..Len(submitted)}

-----------------------------------------------------------------------------
(* MemoryMempool.add with the state it acts on.                            *)

StatusAfterAdd(o, out, busy) ==
    IF Accepted(o, out, busy)
    THEN [status EXCEPT ![o] = "not_submitted"] ELSE status

\* Mutant: the processing store is forgotten.
BusySubmitted(proc, subm) == SubmittedOps(subm)

Busy(proc, subm) == ToSet(proc) \cup SubmittedOps(subm)

\* A validated eth_sendUserOperation.  Validation is external: it lets no
\* operation through whose nonce the chain has already used.
add(o) ==
    /\ todo = <<>>
    /\ \A p \in Ops : status[p] = "included" => ~ SameNonce(p, o)
    /\ outstanding' = OutstandingAfterAdd(o, outstanding,
                                          Busy(processing, submitted))
    /\ status' = StatusAfterAdd(o, outstanding, Busy(processing, submitted))
    /\ UNCHANGED <<processing, submitted, reputation, run, sending, todo,
                   blockVars>>

\* debug_bundler_clearMempool and debug_bundler_clearState
clear ==
    /\ enableDebugEndpoints
    /\ todo = <<>>
    /\ outstanding' = <<>>
    /\ UNCHANGED <<processing, submitted, status, reputation, run, sending,
                   todo, blockVars>>

\* Any change of an entity's standing, by traffic or debug endpoint.
ReputationChanges(e) ==
    /\ todo = <<>>
    /\ \E s \in {"ok", "throttled", "banned"} :
           reputation' = [reputation EXCEPT ![e] = s]
    /\ UNCHANGED <<outstanding, processing, submitted, status, run, sending,
                   todo, blockVars>>

-----------------------------------------------------------------------------
(* MemoryMempool.process and shouldSkip: the calls of bundle().            *)

Unread == -1

NewRun == [pc |-> "idle",
           now |-> FALSE,                 \* it is bundleNow(), not bundle()
           rest |-> <<>>,                 \* sorted; Head is the loop's opInfo
           gasUsed |-> 0,
           skip |-> FALSE,                \* what shouldSkip answered
           result |-> <<>>,
           paymasterDeposit |-> [e \in Entities |-> Unread],
           stakedEntityCount |-> [e \in Entities |-> 0],
           senders |-> {},
           known |-> {},                  \* getKnownEntities().sender
           bundles |-> <<>>]              \* opsToBundle

\* A run about to enter the loop of process().
Started(now, bundles) ==
    [NewRun EXCEPT !.now = now, !.bundles = bundles,
                   !.rest = V8Sort(outstanding),
                   !.known = {Sender(o) : o \in ToSet(outstanding)}]

\* Mutants: minOps is ignored; the operation's own gas is not counted yet.
LoopEndsAtLimit(s) ==
    s.rest = <<>> \/ s.gasUsed + userOp[Head(s.rest)].gas > maxGasPerBundle

LoopEndsLate(s) ==
    s.rest = <<>> \/ (s.gasUsed > maxGasPerBundle /\ s.result # <<>>)

LoopEnds(s) ==
    \/ s.rest = <<>>
    \/ /\ s.gasUsed + userOp[Head(s.rest)].gas > maxGasPerBundle
       /\ s.result # <<>>

EntitiesOf(o) == {userOp[o].paymaster, userOp[o].factory} \ {NoEntity}

Banned(o) == \E e \in EntitiesOf(o) : reputation[e] = "banned"

\* Mutant: senders are not looked at.
ScreenedEntities(o, s) ==
    \/ Banned(o)
    \/ \E e \in EntitiesOf(o) :
           /\ reputation[e] = "throttled"
           /\ s.stakedEntityCount[e] >= throttledEntityBundleCount

\* The reasons to skip that need no await.
Screened(o, s) ==
    \/ Banned(o)
    \/ \E e \in EntitiesOf(o) :
           /\ reputation[e] = "throttled"
           /\ s.stakedEntityCount[e] >= throttledEntityBundleCount
    \/ enforceUniqueSendersPerBundle /\ Sender(o) \in s.senders

\* The run at its next await, or at the end of process().
Iterate(s) ==
    IF LoopEnds(s) THEN [s EXCEPT !.pc = "returned"]
    ELSE LET o == Head(s.rest)
         IN  [s EXCEPT
                !.gasUsed = @ + userOp[o].gas,
                !.pc = IF safeMode /\ ~ Screened(o, s) THEN "validating"
                       ELSE "decided",
                !.skip = safeMode]

\* The outstanding store then: a banned entity's operation is removed.
OutstandingAfterScreen(s, out) ==
    IF ~ LoopEnds(s) /\ safeMode /\ Banned(Head(s.rest))
    THEN RemoveFirst(out, Head(s.rest)) ELSE out

\* Another iteration of run r, or a new call of process(), from s.
Continue(r, s, out) ==
    /\ run' = [run EXCEPT ![r] = Iterate(s)]
    /\ outstanding' = OutstandingAfterScreen(s, out)

\* setInterval's bundle(), or debug_bundler_sendBundleNow's bundleNow().
bundle(r) ==
    /\ todo = <<>>
    /\ run[r].pc = "idle"
    /\ \E now \in BOOLEAN :
        /\ now => enableDebugEndpoints
        /\ Continue(r, Started(now, <<>>), outstanding)
    /\ UNCHANGED <<processing, submitted, status, reputation, sending, todo,
                   blockVars>>

\* validateUserOperation threw.
ValidationFailed(r) ==
    /\ todo = <<>>
    /\ run[r].pc = "validating"
    /\ outstanding' = RemoveFirst(outstanding, Head(run[r].rest))
    /\ run' = [run EXCEPT ![r].pc = "decided"]
    /\ UNCHANGED <<processing, submitted, status, reputation, sending, todo,
                   blockVars>>

\* Mutant: the deposit is read anew for every operation.
DepositNotKept(deposits, p, d) == deposits

\* The deposits, p's set to d (no change if there is no paymaster).
Deposit(deposits, p, d) ==
    [e \in Entities |-> IF e = p THEN d ELSE deposits[e]]

\* shouldSkip has found nothing against the operation.
Counted(s, deposit) ==
    LET o == Head(s.rest)
        p == userOp[o].paymaster
    IN  [s EXCEPT
           !.pc = "decided", !.skip = FALSE,
           !.paymasterDeposit = Deposit(@, p, deposit - userOp[o].prefund),
           !.stakedEntityCount = [e \in Entities |->
               @[e] + (IF e = p THEN 1 ELSE 0)
                    + (IF e = userOp[o].factory THEN 1 ELSE 0)],
           !.senders = @ \cup {Sender(o)}]

\* Mutant: the deposit is not compared with the prefund.
SettleUnchecked(s, deposit) == Counted(s, deposit)

\* From the paymaster's deposit to the end of shouldSkip.
Settle(s, deposit) ==
    LET o == Head(s.rest)
        p == userOp[o].paymaster
    IN  IF p # NoEntity /\ deposit < userOp[o].prefund
        THEN [s EXCEPT !.pc = "decided", !.skip = TRUE,
                       !.paymasterDeposit = Deposit(@, p, deposit)]
        ELSE Counted(s, deposit)

\* The storage map names another sender that was outstanding at the start.
StorageClash(r) ==
    /\ todo = <<>>
    /\ run[r].pc = "validating"
    /\ run[r].known \ {Sender(Head(run[r].rest))} # {}
    /\ run' = [run EXCEPT ![r].pc = "decided"]
    /\ UNCHANGED <<outstanding, processing, submitted, status, reputation,
                   sending, todo, blockVars>>

ValidationPassed(r) ==
    /\ todo = <<>>
    /\ run[r].pc = "validating"
    /\ LET p == userOp[Head(run[r].rest)].paymaster
       IN  run' = [run EXCEPT ![r] =
               IF p = NoEntity THEN Settle(@, 0)
               ELSE IF @.paymasterDeposit[p] = Unread THEN [@ EXCEPT !.pc = "reading"]
               ELSE Settle(@, @.paymasterDeposit[p])]
    /\ UNCHANGED <<outstanding, processing, submitted, status, reputation,
                   sending, todo, blockVars>>

\* entryPointContract.read.balanceOf answered.
BalanceRead(r) ==
    /\ todo = <<>>
    /\ run[r].pc = "reading"
    /\ run' = [run EXCEPT ![r] =
                   Settle(@, balanceOf[userOp[Head(@.rest)].paymaster])]
    /\ UNCHANGED <<outstanding, processing, submitted, status, reputation,
                   sending, todo, blockVars>>

\* It threw: the call rejects, and what it has taken is forgotten.
BalanceThrows(r) ==
    /\ Lossy
    /\ todo = <<>>
    /\ run[r].pc = "reading"
    /\ run' = [run EXCEPT ![r] = NewRun]
    /\ UNCHANGED <<outstanding, processing, submitted, status, reputation,
                   sending, todo, blockVars>>

Skip(r) ==
    /\ todo = <<>>
    /\ run[r].pc = "decided"
    /\ run[r].skip
    /\ Continue(r, [run[r] EXCEPT !.rest = Tail(@)], outstanding)
    /\ UNCHANGED <<processing, submitted, status, reputation, sending, todo,
                   blockVars>>

Take(r) ==
    LET o == Head(run[r].rest)
    IN  /\ todo = <<>>
        /\ run[r].pc = "decided"
        /\ ~ run[r].skip
        /\ Continue(r, [run[r] EXCEPT !.rest = Tail(@), !.result = Append(@, o)],
                    RemoveFirst(outstanding, o))
        /\ processing' = Append(processing, o)
        /\ UNCHANGED <<submitted, status, reputation, sending, todo, blockVars>>

\* bundle() calls process() again as long as it returns something.
ProcessAgain(r) ==
    /\ todo = <<>>
    /\ run[r].pc = "returned"
    /\ ~ run[r].now
    /\ run[r].result # <<>>
    /\ Continue(r, Started(FALSE, Append(run[r].bundles, run[r].result)),
                outstanding)
    /\ UNCHANGED <<processing, submitted, status, reputation, sending, todo,
                   blockVars>>

ToBundle(s) ==
    IF s.now /\ s.result # <<>> THEN <<s.result>> ELSE s.bundles

Handed(ops) == [ops |-> ops,
                left |-> {userOp[o].entryPoint : o \in ToSet(ops)}]

\* One sendToExecutor per entry point of each bundle; none if there is none
\* ("no ops to bundle" if it was bundleNow()).
SendBundles(r) ==
    /\ todo = <<>>
    /\ run[r].pc = "returned"
    /\ run[r].now \/ run[r].result = <<>>
    /\ sending' = sending \o [i \in DOMAIN ToBundle(run[r]) |->
                                  Handed(ToBundle(run[r])[i])]
    /\ run' = [run EXCEPT ![r] = NewRun]
    /\ UNCHANGED <<outstanding, processing, submitted, status, reputation,
                   todo, blockVars>>

-----------------------------------------------------------------------------
(* sendToExecutor: executor.bundle(ep, ops) answers, and a synchronous     *)
(* loop goes through its results.                                          *)

\* The positions in bundle b of the operations of entry point ep.
Ours(b, ep) == {k \in DOMAIN b.ops : userOp[b.ops[k]].entryPoint = ep}

\* The choices of n of these positions, in order.
Selections(positions, n) ==
    {f \in [1..n -> positions] : \A j \in 1..n : \A k \in 1..n :
                                     j < k => f[j] < f[k]}

\* Mutant: the bundle stays, to be answered again.
AnswerTwice(i, ep, kindOf, tx) ==
    /\ todo = <<>>
    /\ todo' = [k \in DOMAIN sending[i].ops |->
                   [kind |-> IF k \in Ours(sending[i], ep) THEN kindOf[k]
                             ELSE "none",
                    op |-> sending[i].ops[k], tx |-> tx]]
    /\ UNCHANGED <<stores, status, reputation, run, sending, blockVars>>

\* executor.bundle's answer for (i, ep): kindOf gives the result's status.
Answer(i, ep, kindOf, tx) ==
    /\ todo = <<>>
    /\ todo' = [k \in DOMAIN sending[i].ops |->
                   [kind |-> IF k \in Ours(sending[i], ep) THEN kindOf[k]
                             ELSE "none",
                    op |-> sending[i].ops[k], tx |-> tx]]
    /\ sending' = IF sending[i].left = {ep} THEN RemoveAt(sending, i)
                  ELSE [sending EXCEPT ![i].left = @ \ {ep}]
    /\ UNCHANGED <<outstanding, processing, submitted, status, reputation,
                   run, blockVars>>

\* Mutant: no result for the operations.
ParametersFailedSilently(i, ep) ==
    Answer(i, ep, [k \in DOMAIN sending[i].ops |-> "none"], <<>>)

\* "Failed to get parameters for bundling"
ParametersFailed(i, ep) ==
    Answer(i, ep, [k \in DOMAIN sending[i].ops |-> "resubmit"], <<>>)

\* No operation survives the simulation, or sending fails: "INTERNAL FAILURE"
AllFailed(i, ep) ==
    Answer(i, ep, [k \in DOMAIN sending[i].ops |-> "failure"], <<>>)

\* The transaction is sent with the operations that pass the simulation.
Submitted(i, ep) ==
    \E n \in 1..Len(sending[i].ops) :
        \E f \in Selections(Ours(sending[i], ep), n) :
            Answer(i, ep,
                   [k \in DOMAIN sending[i].ops |->
                       IF \E j \in 1..n : f[j] = k THEN "success" ELSE "failure"],
                   [j \in 1..n |-> sending[i].ops[f[j]]])

\* InsufficientFundsError: the results name only the operations that passed
\* the simulation.
InsufficientFunds(i, ep) ==
    /\ Lossy
    /\ \E n \in 1..Len(sending[i].ops) :
        \E f \in Selections(Ours(sending[i], ep), n) :
            Answer(i, ep,
                   [k \in DOMAIN sending[i].ops |->
                       IF \E j \in 1..n : f[j] = k THEN "resubmit" ELSE "none"],
                   <<>>)

\* executor.bundle throws: nothing handles its operations.
BundleThrows(i, ep) ==
    /\ Lossy
    /\ Answer(i, ep, [k \in DOMAIN sending[i].ops |-> "none"], <<>>)

SendToExecutor(i, ep) ==
    \/ ParametersFailed(i, ep)
    \/ AllFailed(i, ep)
    \/ Submitted(i, ep)
    \/ InsufficientFunds(i, ep)
    \/ BundleThrows(i, ep)

-----------------------------------------------------------------------------
(* One iteration of the loop that is executing: its task t is Head(todo).  *)

Iteration(kind) == todo # <<>> /\ Head(todo).kind = kind /\ todo' = Tail(todo)

\* This operation has no result here.
NoResult ==
    /\ Iteration("none")
    /\ UNCHANGED <<stores, status, reputation, run, sending, blockVars>>

markSubmitted ==
    LET t == Head(todo)
    IN  /\ Iteration("success")
        /\ IF t.op \in ToSet(processing)
           THEN /\ processing' = RemoveFirst(processing, t.op)
                /\ submitted' = Append(submitted, [op |-> t.op, tx |-> t.tx])
           ELSE UNCHANGED <<processing, submitted>>
        /\ status' = [status EXCEPT ![t.op] = "submitted"]
        /\ UNCHANGED <<outstanding, reputation, run, sending, blockVars>>

\* Mutant: the operation stays in the processing store.
RejectKeepsProcessing ==
    /\ Iteration("failure")
    /\ status' = [status EXCEPT ![Head(todo).op] = "rejected"]
    /\ UNCHANGED <<stores, reputation, run, sending, blockVars>>

Reject ==
    LET o == Head(todo).op
    IN  /\ Iteration("failure")
        /\ processing' = RemoveFirst(processing, o)
        /\ status' = [status EXCEPT ![o] = "rejected"]
        /\ UNCHANGED <<outstanding, submitted, reputation, run, sending,
                       blockVars>>

\* What add() answers is ignored.
Resubmit ==
    LET o == Head(todo).op
    IN  /\ Iteration("resubmit")
        /\ processing' = RemoveFirst(processing, o)
        /\ outstanding' = OutstandingAfterAdd(o, outstanding,
                                              Busy(processing', submitted))
        /\ status' = StatusAfterAdd(o, outstanding, Busy(processing', submitted))
        /\ UNCHANGED <<submitted, reputation, run, sending, blockVars>>

\* handleTransactionUnderPriced
ResubmitConflicting ==
    LET o == Head(todo).op
    IN  /\ Iteration("underpriced")
        /\ submitted' = removeSubmitted(o)
        /\ outstanding' = OutstandingAfterAdd(o, outstanding,
                                              Busy(processing, submitted'))
        /\ status' = StatusAfterAdd(o, outstanding, Busy(processing, submitted'))
        /\ UNCHANGED <<processing, reputation, run, sending, blockVars>>

\* Mutant: the operation stays submitted.
IncludedKeepsEntry ==
    /\ Iteration("included")
    /\ status' = [status EXCEPT ![Head(todo).op] = "included"]
    /\ UNCHANGED <<stores, reputation, run, sending, blockVars>>

\* refreshTransactionStatus: the transaction is included.
Included ==
    LET o == Head(todo).op
    IN  /\ Iteration("included")
        /\ submitted' = removeSubmitted(o)
        /\ status' = [status EXCEPT ![o] = "included"]
        /\ UNCHANGED <<outstanding, processing, reputation, run, sending,
                       blockVars>>

\* It reverted: checkFrontrun starts a watcher.
Reverted ==
    LET o == Head(todo).op
    IN  /\ Iteration("reverted")
        /\ submitted' = removeSubmitted(o)
        /\ watching' = watching \cup {o}
        /\ UNCHANGED <<outstanding, processing, status, reputation, run,
                       sending, phase, polled, stalled, aa95Vars>>

\* It is no longer followed, and nobody is told.
Dropped ==
    /\ Iteration("dropped")
    /\ submitted' = removeSubmitted(Head(todo).op)
    /\ UNCHANGED <<outstanding, processing, status, reputation, run, sending,
                   blockVars>>

replaceSubmitted ==
    LET t == Head(todo)
    IN  /\ Iteration("replaced")
        /\ IF t.op \in SubmittedOps(submitted)
           THEN /\ submitted' = Append(removeSubmitted(t.op),
                                       [op |-> t.op, tx |-> t.tx])
                /\ status' = [status EXCEPT ![t.op] = "submitted"]
           ELSE UNCHANGED <<submitted, status>>
        /\ UNCHANGED <<outstanding, processing, reputation, run, sending,
                       blockVars>>

Loop ==
    \/ NoResult
    \/ markSubmitted
    \/ Reject
    \/ Resubmit
    \/ ResubmitConflicting
    \/ Included
    \/ Reverted
    \/ Dropped
    \/ replaceSubmitted

-----------------------------------------------------------------------------
(* handleBlock.  Its transactions are captured at the start of each stage  *)
(* and followed at the same time, each in its own order.                   *)

\* Mutant: what the new transaction leaves out is not dropped.
EachMatching(kind, tx, newTx) ==
    todo' = [k \in DOMAIN tx |->
                [kind |-> IF newTx = <<>> \/ tx[k] \in ToSet(newTx) THEN kind
                          ELSE "none",
                 op |-> tx[k], tx |-> newTx]]

\* Start the loop over the operations of tx.
Each(kind, tx, newTx) ==
    todo' = [k \in DOMAIN tx |->
                [kind |-> IF newTx = <<>> \/ tx[k] \in ToSet(newTx) THEN kind
                          ELSE "dropped",
                 op |-> tx[k], tx |-> newTx]]

Settled(tx) ==
    /\ todo = <<>>
    /\ polled' = polled \ {tx}
    /\ UNCHANGED <<stores, status, reputation, run, sending, phase, watching>>

\* Nothing happens when there is nothing submitted.
handleBlock ==
    /\ todo = <<>>
    /\ phase = "idle"
    /\ submitted # <<>>
    /\ phase' = "refresh"
    /\ polled' = Transactions
    /\ UNCHANGED <<stores, status, reputation, run, sending, todo, stalled,
                   watching, aa95Vars>>

\* What getBundleStatus answers for tx.  After AA95 the operations are no longer
\* submitted, and the transaction is replaced, which awaits.
refreshTransactionStatus(tx) ==
    /\ phase = "refresh"
    /\ tx \in polled
    /\ Settled(tx)
    /\ \/ todo' = todo /\ UNCHANGED resending          \* still pending
       \/ Each("included", tx, <<>>) /\ UNCHANGED resending
       \/ Each("reverted", tx, <<>>) /\ UNCHANGED resending
       \/ Each("dropped", tx, <<>>) /\ resending' = resending \cup {tx}
    /\ UNCHANGED <<stalled, overtaken>>

\* replaceTransaction is called for the transactions of the last two stages, and
\* for those that AA95 made fail.
BeingReplaced(tx) == tx \in resending \/ (phase # "refresh" /\ tx \in polled)

\* The operations of tx, if the replacement after AA95 finds that one of them has
\* been submitted again.
Overtaken(tx) ==
    IF tx \in resending /\ ToSet(tx) \cap SubmittedOps(submitted) # {} THEN ToSet(tx)
    ELSE {}

\* A replacement that is not in the code's hands: the transaction may be
\* included already, cannot be replaced, or is, with what passes simulation.
replaceTransaction(tx) ==
    /\ BeingReplaced(tx)
    /\ Settled(tx)
    /\ \/ todo' = todo /\ UNCHANGED overtaken   \* potentially included
       \/ /\ \/ Each("dropped", tx, <<>>)       \* failed, or so three times
             \/ \E n \in 1..Len(tx) : \E f \in Selections(DOMAIN tx, n) :
                    Each("replaced", tx, [j \in 1..n |-> tx[f[j]]])
          /\ overtaken' = overtaken \cup Overtaken(tx)
    /\ resending' = resending \ {tx}
    /\ UNCHANGED stalled

\* An await throws: handleBlock rejects and leaves its flag set, while the
\* other transactions of the stage go on.
HandlerThrows(tx) ==
    /\ Lossy
    /\ Settled(tx)
    /\ stalled' = TRUE
    /\ resending' = resending \ {tx}
    /\ UNCHANGED <<todo, overtaken>>

NextStage(from, to, txs) ==
    /\ todo = <<>>
    /\ ~ stalled
    /\ phase = from
    /\ polled = {} /\ resending = {}
    /\ phase' = to
    /\ polled' \in txs
    /\ UNCHANGED <<stores, status, reputation, run, sending, todo, stalled,
                   watching, aa95Vars>>

\* The transactions whose price is too low; then those unchanged for 5 minutes.
GasPriceStage == NextStage("refresh", "gas_price", SUBSET Transactions)
StuckStage == NextStage("gas_price", "stuck", SUBSET Transactions)
HandlingEnds == NextStage("stuck", "idle", {{}})

\* The node refuses the transaction of some bundle as underpriced, and then
\* takes it: what was submitted with its wallet and nonce was tx.
handleTransactionUnderPriced(tx) ==
    /\ SharedWallets
    /\ todo = <<>>
    /\ sending # <<>>
    /\ tx \in Transactions
    /\ todo' = [k \in DOMAIN tx |->
                   [kind |-> IF [op |-> tx[k], tx |-> tx] \in ToSet(submitted)
                             THEN "underpriced" ELSE "none",
                    op |-> tx[k], tx |-> tx]]
    /\ UNCHANGED <<stores, status, reputation, run, sending, blockVars>>

\* checkFrontrun's watcher, two blocks later.
checkFrontrun(o) ==
    /\ todo = <<>>
    /\ o \in watching
    /\ watching' = watching \ {o}
    /\ \E s \in {"included", "rejected"} : status' = [status EXCEPT ![o] = s]
    /\ UNCHANGED <<stores, reputation, run, sending, todo, phase, polled,
                   stalled, aa95Vars>>

-----------------------------------------------------------------------------
(* The whole program.                                                      *)

Init ==
    /\ outstanding = <<>>
    /\ processing = <<>>
    /\ submitted = <<>>
    /\ status = [o \in Ops |-> "not_found"]
    /\ reputation = [e \in Entities |-> "ok"]
    /\ run = [r \in Runners |-> NewRun]
    /\ sending = <<>>
    /\ todo = <<>>
    /\ phase = "idle"
    /\ polled = {}
    /\ stalled = FALSE
    /\ watching = {}
    /\ resending = {}
    /\ overtaken = {}

Process(r) ==
    \/ ValidationFailed(r)
    \/ StorageClash(r)
    \/ ValidationPassed(r)
    \/ BalanceRead(r)
    \/ BalanceThrows(r)
    \/ Skip(r)
    \/ Take(r)
    \/ ProcessAgain(r)
    \/ SendBundles(r)

Requests ==
    \/ \E o \in Ops : add(o)
    \/ clear
    \/ \E e \in Entities : ReputationChanges(e)

Bundling ==
    \/ \E r \in Runners : bundle(r) \/ Process(r)
    \/ \E i \in DOMAIN sending : \E ep \in sending[i].left : SendToExecutor(i, ep)

Blocks ==
    \/ handleBlock
    \/ \E tx \in polled \cup resending : \/ refreshTransactionStatus(tx)
                                         \/ replaceTransaction(tx)
                                         \/ HandlerThrows(tx)
    \/ GasPriceStage
    \/ StuckStage
    \/ HandlingEnds
    \/ \E tx \in Transactions : handleTransactionUnderPriced(tx)
    \/ \E o \in watching : checkFrontrun(o)

Next == Requests \/ Bundling \/ Loop \/ Blocks

Spec == Init /\ [][Next]_vars

\* A loop goes on by itself.  The timer's calls and the callbacks of awaits
\* are queued: each runs once the loop before it ends, hence SF and not WF,
\* since the loops disable them.  sending[1] is the oldest bundle that waits
\* for the executor.
Fairness ==
    /\ WF_vars(Loop)
    /\ \A r \in Runners : SF_vars(bundle(r)) /\ SF_vars(Process(r))
    /\ \A ep \in EntryPoints :
           SF_vars(/\ sending # <<>>
                   /\ ep \in sending[1].left
                   /\ SendToExecutor(1, ep))

FairSpec == Spec /\ Fairness

-----------------------------------------------------------------------------
(* Properties.                                                             *)

RunType ==
    [pc : {"idle", "validating", "reading", "decided", "returned"},
     now : BOOLEAN,
     rest : Seq(Ops),
     gasUsed : Nat,
     skip : BOOLEAN,
     result : Seq(Ops),
     paymasterDeposit : [Entities -> Nat \cup {Unread}],
     stakedEntityCount : [Entities -> Nat],
     senders : SUBSET Senders,
     known : SUBSET Senders,
     bundles : Seq(Seq(Ops))]

\* The types of the variables.  That a deposit read by process() never goes
\* below zero is part of them: shouldSkip compares before it subtracts.
TypeOK ==
    /\ outstanding \in Seq(Ops)
    /\ processing \in Seq(Ops)
    /\ submitted \in Seq(Entry)
    /\ status \in [Ops -> Statuses]
    /\ reputation \in [Entities -> {"ok", "throttled", "banned"}]
    /\ run \in [Runners -> RunType]
    /\ sending \in Seq(Bundle)
    /\ todo \in Seq(Task)
    /\ phase \in {"idle", "refresh", "gas_price", "stuck"}
    /\ polled \in SUBSET Seq(Ops)
    /\ stalled \in BOOLEAN
    /\ watching \in SUBSET Ops
    /\ resending \in SUBSET Seq(Ops)
    /\ overtaken \in SUBSET Ops

\* However the timer's calls of process(), new operations, resubmissions and
\* replacements interleave, the outstanding store holds an operation at most
\* once, and none that is being processed or is submitted.
StoresDisjoint ==
    /\ IsInjective(outstanding)
    /\ ToSet(outstanding) \cap Busy(processing, submitted) = {}

\* With one call of bundle() at a time, every operation is in one store, once.
SingleCustody ==
    /\ IsInjective(processing)
    /\ \A i, j \in DOMAIN submitted :
           submitted[i].op = submitted[j].op => i = j
    /\ ToSet(processing) \cap SubmittedOps(submitted) = {}

Copies(s, o) == Cardinality({i \in DOMAIN s : s[i] = o})

CopiesInRun(s, o) == Copies(s.result, o) + Copies(FlattenSeq(s.bundles), o)

CopiesInHand(o) ==
    LET inRuns == MapThenSumSet(LAMBDA r : CopiesInRun(run[r], o), Runners)
        inBundles == MapThenSumSet(
            LAMBDA i : IF userOp[o].entryPoint \in sending[i].left
                       THEN Copies(sending[i].ops, o) ELSE 0, DOMAIN sending)
        inLoop == Cardinality({i \in DOMAIN todo :
            todo[i].op = o /\ todo[i].kind \in {"success", "failure", "resubmit"}})
    IN  inRuns + inBundles + inLoop

\* Whatever is in the processing store is in the hands of a call that will
\* take it out again, and the other way round: nothing is stuck there, and no
\* result arrives for an operation that has already gone.
ProcessingAccounted == \A o \in Ops : Copies(processing, o) = CopiesInHand(o)

\* Even if the executor throws or forgets operations, no result arrives for
\* an operation that the processing store has lost.
ResultsAwaited == \A o \in Ops : Copies(processing, o) >= CopiesInHand(o)

\* With one call of bundle() at a time, no operation is in two transactions that
\* the bundler follows, which it would pay for both, with one exception: AA95 lets
\* the operations go before their transaction is replaced.  When one of them has
\* been sent and bundled again during that await, the replacement takes it from the
\* other transaction, that still contains it, and may contain others that are
\* bundled again.
TransactionsDisjoint ==
    todo = <<>> =>
        \A t, u \in Transactions : t # u => ToSet(t) \cap ToSet(u) \subseteq overtaken

Known == {o \in Ops : status[o] # "not_found"}

\* Replacing finds every rival, although only the first that is found is removed:
\* no two outstanding operations of a sender have the same nonce, or would both
\* deploy it, unless operations that were sent with one nonce disagree about
\* deploying the sender.
UniqueNonceOutstanding ==
    \A i, j \in DOMAIN outstanding :
        Conflicts(outstanding[i], outstanding[j]) =>
            i = j \/ Disputed(Sender(outstanding[i]), Known)

\* An eth_sendUserOperation that would replace an operation of the same nonce key
\* and is refused leaves the outstanding store as it was, although the replaced
\* one is removed before the two limits are looked at.  With another key, which a
\* second deployment may have, it may be gone.
RejectedAddIsHarmless ==
    \A busy \in {Busy(processing, submitted)}, o \in Ops, i \in DOMAIN outstanding :
        /\ oldUserOp(o, outstanding) = i
        /\ userOp[outstanding[i]].nonceKey = userOp[o].nonceKey
        /\ ~ Accepted(o, outstanding, busy)
        => OutstandingAfterAdd(o, outstanding, busy) = outstanding

Sum(f(_), s) == FoldLeft(LAMBDA acc, o : acc + f(o), 0, s)

Bundles == UNION {ToSet(Append(run[r].bundles, run[r].result)) : r \in Runners}

\* A bundle of several operations stays within the gas limit, although the
\* gas of skipped operations is counted and the check comes before the skip.
BundlesWithinGas ==
    \A b \in Bundles : Len(b) > 1 =>
        Sum(LAMBDA o : userOp[o].gas, b) =< maxGasPerBundle

\* In safe mode the deposit of a paymaster covers the operations of the bundle
\* that it sponsors, together.
PaymastersCovered ==
    safeMode => \A b \in Bundles : \A p \in Entities :
        Sum(LAMBDA o : IF userOp[o].paymaster = p THEN userOp[o].prefund ELSE 0, b)
            =< balanceOf[p]

SendersOnce(b) ==
    \A i, j \in DOMAIN b : Sender(b[i]) = Sender(b[j]) => i = j

\* In safe mode no sender is twice in a bundle, if that is asked for.
SendersOncePerBundle ==
    safeMode /\ enforceUniqueSendersPerBundle => \A b \in Bundles : SendersOnce(b)

\* What process() relies on after every await holds of each bundle as it is
\* filled: gas, deposits and senders, though operations are skipped, taken from
\* stale snapshots, and admitted before the next one is looked at.
BundlesAdmissible ==
    /\ BundlesWithinGas
    /\ PaymastersCovered
    /\ SendersOncePerBundle

\* With one call of bundle() at a time, what eth_getUserOperationStatus says
\* of a submitted operation changes only when it stops being submitted, or
\* because it was submitted before and that transaction reverted.
SubmittedStatusStable ==
    [][\A o \in SubmittedOps(submitted) :
          status[o] = "submitted" /\ status'[o] # "submitted" =>
              o \notin SubmittedOps(submitted') \/ o \in watching]_vars

\* If the executor always answers for all its operations, each of them leaves
\* the processing store.
ProcessingDrains ==
    \A o \in Ops : o \in ToSet(processing) ~> o \notin ToSet(processing)

\* Without safe mode every outstanding operation is bundled, or replaced:
\* none waits for ever behind others, or because its gas is over the limit.
OutstandingDrains ==
    \A o \in Ops : o \in ToSet(outstanding) ~> o \notin ToSet(outstanding)

\* No operation is stuck in one of the two stores that precede a transaction.
StoresDrain == ProcessingDrains /\ OutstandingDrains

\* A call of process() considers the operations of one sender that stand next to
\* each other by nonce key and then by nonce, in whatever order they came and
\* whoever else's are there, although the comparator, that answers 0 for two
\* senders, is no consistent order.  Around another sender's, order may be lost.
ConsideredInOrder ==
    \A r \in Runners : \A i \in 1..(Len(run[r].rest) - 1) :
        LET a == run[r].rest[i]
            b == run[r].rest[i + 1]
        IN  Sender(a) = Sender(b) =>
                \/ userOp[a].nonceKey < userOp[b].nonceKey
                \/ /\ userOp[a].nonceKey = userOp[b].nonceKey
                   /\ userOp[a].nonceValue =< userOp[b].nonceValue
=============================================================================
