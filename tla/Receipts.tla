------------------------------ MODULE Receipts ------------------------------
(***************************************************************************)
(* What alto reads from the chain: getBundleStatus and                     *)
(* parseUserOperationReceipt of src/utils/userop.ts, getUserOperation-     *)
(* Receipt of src/executor/executorManager.ts and eth_getUserOperation-    *)
(* ByHash of src/rpc/rpcHandler.ts.                                        *)
(*                                                                         *)
(* A chain is a sequence of blocks, a block a sequence of transactions.  A *)
(* transaction calls entry points' handleOps, once or, from a contract of  *)
(* somebody else, more often; a call's runs say what became of each of its *)
(* operations, and its logged what that contract logged before.  Contracts *)
(* may log what only entry points should.  An operation of Ops stands for  *)
(* its hash.                                                               *)
(***************************************************************************)
EXTENDS PackedOps, FiniteSets, SequencesExt

CONSTANTS
    Ops,
    userOperation,   \* the operations' fields, as a client would write them
    entryPointOf,    \* the entry point they are meant for
    imitated,        \* what their contracts log as if they were entry points
    maxBlockRange    \* how far back getLogs may look

ASSUME ReceiptsAssumption == maxBlockRange \in Nat

\* Data are bytes, and an entry point is of one version.
ASSUME OperationsAssumption ==
    /\ \A o \in Ops : ~ isVersion06(userOperation[o]) =>
          LET op == userOperation[o]
          IN  /\ op.factoryData \in Seq(ToSet(op.factoryData))
              /\ op.paymasterData \in Seq(ToSet(op.paymasterData))
    /\ \A o, p \in Ops : entryPointOf[o] = entryPointOf[p] =>
          (isVersion06(userOperation[o]) <=> isVersion06(userOperation[p]))

Log(address, name, o, success) ==
    [address |-> address, name |-> name, op |-> o, success |-> success]

\* Logs that look like an entry point's, of any operation.  "account" stands for
\* every address that is not an entry point's.
Imitations ==
    {Log("account", name, o, success) :
        name \in {"UserOperationRevertReason", "UserOperationEvent"}, o \in Ops, success \in BOOLEAN}

\* In its validation, and in an execution that succeeds.
ASSUME ImitationsAssumption ==
    /\ "account" \notin {entryPointOf[o] : o \in Ops}
    /\ imitated \in [Ops -> [validation : Seq(Imitations), execution : Seq(Imitations)]]

hashOf(o) == getUserOperationHash(userOperation[o], entryPointOf[o])

Nothing == <<>>      \* an answer is a sequence of at most one

\* The elements of s that are in S, in their order.
Filtered(s, S) ==
    LET push(kept, e) == IF e \in S THEN Append(kept, e) ELSE kept
    IN  FoldLeft(push, <<>>, s)

\* Validation logs whatever it likes, and the deployment of the account.
ValidationLogs(entryPoint, o) ==
    (IF IF isVersion06(userOperation[o]) THEN userOperation[o].initCode = <<>>
        ELSE userOperation[o].factory = NoAddress
     THEN <<>> ELSE <<Log(entryPoint, "AccountDeployed", o, TRUE)>>)
    \o <<Log("account", "Validated", o, TRUE)>> \o imitated[o].validation

\* What may become of an operation's execution.
Ends == {"success", "reverted", "silent"}

\* An execution that reverts leaves no log but a reason, if it gave one.
ExecutionLogs(entryPoint, run) ==
    (CASE run.outcome = "success"  ->
            <<Log("account", "Executed", run.op, TRUE)>> \o imitated[run.op].execution
       [] run.outcome = "reverted" -> <<Log(entryPoint, "UserOperationRevertReason", run.op, FALSE)>>
       [] run.outcome = "silent"   -> <<>>)
    \o <<Log(entryPoint, "UserOperationEvent", run.op, run.outcome = "success")>>

CallLogs(call) ==
    call.logged
    \o FlattenSeq([i \in DOMAIN call.runs |-> ValidationLogs(call.entryPoint, call.runs[i].op)])
    \o <<Log(call.entryPoint, "BeforeExecution", NoAddress, TRUE)>>
    \o FlattenSeq([i \in DOMAIN call.runs |-> ExecutionLogs(call.entryPoint, call.runs[i])])

logsOf(tx) ==
    IF tx.status = "reverted" THEN <<>>
    ELSE FlattenSeq([i \in DOMAIN tx.calls |-> CallLogs(tx.calls[i])])

RunsOf(tx) ==
    IF tx.status = "reverted" THEN {}
    ELSE UNION {ToSet(tx.calls[i].runs) : i \in DOMAIN tx.calls}

TransactionsIn(chain) == UNION {ToSet(chain[n]) : n \in DOMAIN chain}

IsMined(chain, hash) == \E tx \in TransactionsIn(chain) : tx.hash = hash
transactionOf(chain, hash) ==
    CHOOSE tx \in TransactionsIn(chain) : tx.hash = hash
blockNumberOf(chain, hash) ==
    CHOOSE n \in DOMAIN chain : \E tx \in ToSet(chain[n]) : tx.hash = hash

\* getBundleStatus of a mined transaction, over the logs of the entry point
\* that was asked for.  Of the decoded events, some tell of an operation.
userOperationDetails(logs, entryPoint) ==
    LET told == {i \in DOMAIN logs :
                    /\ logs[i].address = entryPoint
                    /\ logs[i].name \in {"AccountDeployed", "UserOperationRevertReason",
                                         "UserOperationEvent"}}
    IN  [o \in {logs[i].op : i \in told} |->
            [accountDeployed |-> \E i \in told : logs[i].op = o /\ logs[i].name = "AccountDeployed",
             revertReason    |-> \E i \in told :
                                    logs[i].op = o /\ logs[i].name = "UserOperationRevertReason",
             status          |-> IF \A i \in told :
                                       logs[i].op = o /\ logs[i].name = "UserOperationEvent"
                                          => logs[i].success
                                 THEN "succesful" ELSE "calldata_phase_reverted"]]

\* A reverted transaction's error is decoded, if the node gives one.
getBundleStatus(tx, entryPoint) ==
    IF tx.status = "reverted"
    THEN [status |-> "reverted", isAA95 |-> tx.isAA95]
    ELSE [status |-> "included",
          userOperationDetails |-> userOperationDetails(logsOf(tx), entryPoint)]

\* Mutant: the oldest block of the range is left out.
fromBlockExclusive(chain) ==
    IF Len(chain) > maxBlockRange THEN Len(chain) - maxBlockRange + 1 ELSE 0

\* getLogs with the operation's hash as topic: the transactions, oldest
\* first, in the blocks that the range still reaches.
fromBlock(chain) ==
    IF Len(chain) > maxBlockRange THEN Len(chain) - maxBlockRange ELSE 0

filterResult(chain, o) ==
    Filtered(FlattenSeq([n \in DOMAIN chain |->
                           IF n >= fromBlock(chain) THEN chain[n] ELSE <<>>]),
             {tx \in TransactionsIn(chain) : \E run \in RunsOf(tx) : run.op = o})

\* parseUserOperationReceipt walks the logs once, whoever logged them.
\* startIndex follows the events of others until the operation's own is met.
IsEvent(log) == log.name = "UserOperationEvent"

\* Mutant: others' events move startIndex behind the operation's own, too.
walkToLast(logs, o) ==
    FoldLeft(LAMBDA w, log :
                [index      |-> w.index + 1,
                 endIndex   |-> IF IsEvent(log) /\ log.op = o THEN w.index ELSE w.endIndex,
                 startIndex |-> IF IsEvent(log) /\ log.op # o THEN w.index ELSE w.startIndex,
                 revertReason |-> w.revertReason
                                     \/ (log.name = "UserOperationRevertReason" /\ log.op = o)],
             [index |-> 1, endIndex |-> 0, startIndex |-> 0, revertReason |-> FALSE], logs)

walk(logs, o) ==
    LET step(w, log) ==
            [index      |-> w.index + 1,
             endIndex   |-> IF IsEvent(log) /\ log.op = o THEN w.index ELSE w.endIndex,
             startIndex |-> IF IsEvent(log) /\ log.op # o /\ w.endIndex = 0
                            THEN w.index ELSE w.startIndex,
             revertReason |-> w.revertReason
                                 \/ (log.name = "UserOperationRevertReason" /\ log.op = o)]
    IN  FoldLeft(step, [index |-> 1, endIndex |-> 0, startIndex |-> 0, revertReason |-> FALSE],
                 logs)

parseUserOperationReceipt(o, tx) ==
    LET logs  == logsOf(tx)
        found == walk(logs, o)
        event == Filtered(logs, {log \in ToSet(logs) : IsEvent(log) /\ log.op = o})[1]
    IN  [userOpHash      |-> o,
         entryPoint      |-> logs[found.endIndex].address,
         success         |-> event.success,
         reason          |-> found.revertReason,
         logs            |-> SubSeq(logs, found.startIndex + 1, found.endIndex - 1),
         transactionHash |-> tx.hash]

getUserOperationReceipt(chain, o) ==
    LET txs == filterResult(chain, o)
    IN  IF txs = <<>> THEN Nothing
        ELSE <<parseUserOperationReceipt(o, txs[1])>>

\* Whether a transaction is a direct call of an entry point is told by the
\* selector of its input: others are not decoded, and answered with null.
getUserOperationByHash(chain, o) ==
    LET txs  == filterResult(chain, o)
        tx   == txs[1]
        ops  == [i \in DOMAIN tx.calls[1].runs |-> tx.calls[1].runs[i].op]
        found == Filtered(ops, {p \in Ops :
                    /\ userOperation[p].sender = userOperation[o].sender
                    /\ userOperation[p].nonce = userOperation[o].nonce})
        op   == userOperation[found[1]]
        packed == toPackedUserOperation(op)
    IN  IF \/ txs = <<>>
           \/ tx.functionName \notin {"handleOpsV06", "handleOpsV07"}
           \/ found = <<>>
        THEN Nothing
        ELSE IF tx.functionName = "handleOpsV06" THEN <<op>>
        ELSE IF toUnpackedThrows(packed) THEN Nothing
        ELSE <<toUnpackedUserOperation(packed)>>
=============================================================================
