----------------------------- MODULE Settlement -----------------------------
(***************************************************************************)
(* What becomes of a bundle that was sent, and what alto says of it: the   *)
(* transaction or a replacement of it is mined, or a frontrunner's is,     *)
(* refreshTransactionStatus and checkFrontrun of                           *)
(* src/executor/executorManager.ts look at the chain, and                  *)
(* src/mempool/monitoring.ts and src/handlers/eventManager.ts keep and     *)
(* publish what they saw.                                                  *)
(*                                                                         *)
(* One bundle is followed.  Blocks are final.  The transactions of one     *)
(* wallet and nonce exclude each other, so that one at most is mined.  The *)
(* wallet itself is modelled in BundleTx, the stores in Mempool.           *)
(***************************************************************************)
EXTENDS Receipts

CONSTANTS
    Bundles,       \* the sequences of operations that may have been sent
    Rivals,        \* transactions of others, with the outcomes of their runs
    Hashes,        \* the hashes of our transactions, in the order of sending
    Timeout,       \* ticks for which the monitor keeps a status
    MaxBlocks      \* bound on the length of the chain

NoHash == "none"

ASSUME SettlementAssumption ==
    /\ Timeout \in Nat \ {0}
    /\ MaxBlocks \in Nat
    \* One entry point runs a bundle's operations, each once.
    /\ \A bundle \in Bundles :
        /\ bundle \in Seq(Ops) /\ bundle # <<>> /\ IsInjective(bundle)
        /\ \A o \in ToSet(bundle) : entryPointOf[o] = entryPointOf[bundle[1]]
    \* Different transactions have different hashes.
    /\ Hashes \in Seq(ToSet(Hashes)) /\ Hashes # <<>> /\ IsInjective(Hashes)
    /\ NoHash \notin ToSet(Hashes)
    /\ \A r \in Rivals : /\ r.hash \notin ToSet(Hashes)
                         /\ \A other \in Rivals : r.hash = other.hash => r = other

VARIABLES
    chain,
    followed,   \* the TransactionInfo in the submitted store, if any
    pending,    \* our transactions that miners still know
    sent,       \* how many of Hashes are used up
    watches,    \* checkFrontrun's watchers of block numbers
    calls,      \* calls of onBlockNumber that await the receipt
    userOperationToStatus,
    userOperationTimeouts,  \* what is left of the running timers
    age,        \* ghost: ticks since an operation's status was set
    emitted     \* what eventManager was told

vars == <<chain, followed, pending, sent, watches, calls,
          userOperationToStatus, userOperationTimeouts, age, emitted>>
monitor == <<userOperationToStatus, userOperationTimeouts, age>>

NoTransaction == [transactionHash |-> NoHash, previousTransactionHashes |-> <<>>, ops |-> <<>>]
NoWatch == [transactionHash |-> NoHash, blockNumber |-> 0, seen |-> 0]
Status(s, hash) == [status |-> s, transactionHash |-> hash]
Forgotten == Status("not_found", NoHash)

\* f with the values that new gives to some of its arguments.
Updated(f, new) == [o \in DOMAIN f |-> IF o \in DOMAIN new THEN new[o] ELSE f[o]]

----------------------------------------------------------------------------
(* The monitor and the events.                                             *)

\* Mutant: the timer that runs is left running.
keptTimeouts(new) == [o \in DOMAIN new |-> userOperationTimeouts[o]]

\* setUserOperationStatus, for every operation of new's domain: the timer
\* that runs is cleared, and a new one set.
clearedTimeouts(new) == [o \in DOMAIN new |-> {}]

setUserOperationStatus(new) ==
    /\ userOperationToStatus' = Updated(userOperationToStatus, new)
    /\ userOperationTimeouts' =
          Updated(userOperationTimeouts,
                  [o \in DOMAIN new |-> clearedTimeouts(new)[o] \cup {Timeout}])
    /\ age' = Updated(age, [o \in DOMAIN new |-> 0])

\* The callback of setTimeout.
Expire(o) ==
    /\ 0 \in userOperationTimeouts[o]
    /\ userOperationToStatus' = [userOperationToStatus EXCEPT ![o] = Forgotten]
    /\ userOperationTimeouts' = [userOperationTimeouts EXCEPT ![o] = @ \ {0}]
    /\ UNCHANGED <<chain, followed, pending, sent, watches, calls, age, emitted>>

\* Time passes; a timer that is due may fire late.
Tick ==
    /\ \E o \in Ops : age[o] < Timeout
    /\ userOperationTimeouts' =
          [o \in Ops |-> {IF t = 0 THEN 0 ELSE t - 1 : t \in userOperationTimeouts[o]}]
    /\ age' = [o \in Ops |-> IF age[o] < Timeout THEN age[o] + 1 ELSE Timeout]
    /\ UNCHANGED <<chain, followed, pending, sent, watches, calls, userOperationToStatus, emitted>>

\* emitIncludedOnChain and its siblings, as a queue receives them.
emitEvents(events) == emitted' = emitted \cup events

Event(type, o, hash) ==
    [eventType |-> type, userOperationHash |-> o, transactionHash |-> hash]

----------------------------------------------------------------------------
(* The chain.                                                              *)

\* Every entry point counts the nonces itself.
SameNonce(o, p) ==
    /\ entryPointOf[o] = entryPointOf[p]
    /\ userOperation[o].sender = userOperation[p].sender
    /\ userOperation[o].nonce = userOperation[p].nonce

Executed(txs) == {run.op : run \in UNION {RunsOf(tx) : tx \in txs}}

\* The entry point runs an operation whose nonce is not used.
Runnable(ops, done) == \A o \in ops, p \in done : ~ SameNonce(o, p)

functionOf(o) == IF isVersion06(userOperation[o]) THEN "handleOpsV06" ELSE "handleOpsV07"

\* What was estimated together has no nonce twice.  An entry point runs only
\* what is meant for it, and nothing twice, also if a contract calls it; the
\* selector of handleOps tells a direct call, of operations of its version.
ASSUME NoncesAssumption ==
    /\ \A bundle \in Bundles : \A o, p \in ToSet(bundle) : SameNonce(o, p) => o = p
    /\ \A r \in Rivals :
        /\ r.calls \in Seq([entryPoint : {entryPointOf[o] : o \in Ops},
                            logged : Seq(Imitations),
                            runs : Seq([op : Ops, outcome : Ends])])
        /\ \A i, j \in DOMAIN r.calls :
            \A k \in DOMAIN r.calls[i].runs, l \in DOMAIN r.calls[j].runs :
                /\ entryPointOf[r.calls[i].runs[k].op] = r.calls[i].entryPoint
                /\ SameNonce(r.calls[i].runs[k].op, r.calls[j].runs[l].op) => i = j /\ k = l
        /\ r.functionName \in {"handleOpsV06", "handleOpsV07"} =>
              /\ Len(r.calls) = 1
              /\ \A run \in ToSet(r.calls[1].runs) : functionOf(run.op) = r.functionName

OurTransaction(p, outcome) ==
    [hash |-> p.hash, functionName |-> functionOf(p.ops[1]), status |-> "success", isAA95 |-> FALSE,
     calls |-> <<[entryPoint |-> entryPointOf[p.ops[1]], logged |-> <<>>,
                  runs |-> [i \in DOMAIN p.ops |-> [op |-> p.ops[i], outcome |-> outcome[i]]]]>>]

Failed(p, aa95) ==
    [OurTransaction(p, [i \in DOMAIN p.ops |-> "silent"])
        EXCEPT !.status = "reverted", !.isAA95 = aa95]

\* What a miner may make of our transaction p after `done' were executed.
Outcomes(p, done) ==
    {Failed(p, FALSE)}
    \cup IF Runnable(ToSet(p.ops), done)
         THEN {Failed(p, TRUE)}
              \cup {OurTransaction(p, outcome) :
                        outcome \in [DOMAIN p.ops -> Ends]}
         ELSE {}

NextBlocks ==
    LET before == TransactionsIn(chain)
        rivals == {r \in Rivals \ before : Runnable(Executed({r}), Executed(before))}
        ours(txs) == UNION {Outcomes(p, Executed(txs)) : p \in pending}
    IN  {<<>>} \cup {<<r>> : r \in rivals} \cup {<<tx>> : tx \in ours(before)}
        \cup UNION {{<<r, tx>> : tx \in ours(before \cup {r})} : r \in rivals}

Mine ==
    /\ Len(chain) < MaxBlocks
    /\ \E block \in NextBlocks :
        /\ chain' = Append(chain, block)
        /\ pending' = IF \E tx \in ToSet(block) : tx.hash \in ToSet(Hashes) THEN {} ELSE pending
    /\ UNCHANGED <<followed, sent, watches, calls, emitted, monitor>>

----------------------------------------------------------------------------
(* Following the transaction.                                              *)

Transmitted(ops) == [hash |-> Hashes[sent + 1], ops |-> ops]

\* replaceTransaction sent a replacement, of some of the operations: those
\* that failed in its estimation are left out, and no status tells.
Replace ==
    /\ followed # NoTransaction
    /\ sent < Len(Hashes)
    /\ \E kept \in (SUBSET ToSet(followed.ops)) \ {{}} :
        LET ops == Filtered(followed.ops, kept)
        IN  /\ followed' = [transactionHash |-> Hashes[sent + 1],
                            previousTransactionHashes |->
                                <<followed.transactionHash>> \o followed.previousTransactionHashes,
                            ops |-> ops]
            /\ pending' = IF pending = {} THEN {} ELSE pending \cup {Transmitted(ops)}
    /\ sent' = sent + 1
    /\ UNCHANGED <<chain, watches, calls, emitted, monitor>>

\* replaceTransaction failed, or answered three times that the transaction
\* may be included already: the operations are not followed any more.
GiveUp ==
    /\ followed # NoTransaction
    /\ followed' = NoTransaction
    /\ UNCHANGED <<chain, pending, sent, watches, calls, emitted, monitor>>

txHashesToCheck == <<followed.transactionHash>> \o followed.previousTransactionHashes

\* Mutant: the last replacement is told of.
lastHash(tx) == followed.transactionHash

\* What is told of a transaction that was found: its own hash, which need
\* not be that of the last replacement.
reportedHash(tx) == tx.hash

\* refreshTransactionStatus of an included transaction.
RefreshIncluded(hash, details) ==
    LET ops == ToSet(followed.ops)
    IN  /\ emitEvents({Event(IF details[o].status = "succesful"
                             THEN "included_onchain" ELSE "execution_reverted_onchain", o, hash) :
                        o \in ops})
        /\ setUserOperationStatus([o \in ops |-> Status("included", hash)])
        /\ followed' = NoTransaction
        /\ UNCHANGED <<chain, pending, sent, watches, calls>>

\* The gas did not suffice.  The operations leave the submitted store before
\* the replacement, with the next nonce, is made: nobody follows it.
RefreshAA95 ==
    /\ followed' = NoTransaction
    /\ \/ /\ sent < Len(Hashes)
          /\ pending' = {Transmitted(followed.ops)}
          /\ sent' = sent + 1
       \/ UNCHANGED <<pending, sent>>
    /\ UNCHANGED <<chain, watches, calls, emitted, monitor>>

RefreshReverted(hash) ==
    /\ watches' = Updated(watches, [o \in ToSet(followed.ops) |->
                                      [transactionHash |-> hash,
                                       blockNumber |-> blockNumberOf(chain, hash),
                                       seen |-> 0]])
    /\ followed' = NoTransaction
    /\ UNCHANGED <<chain, pending, sent, calls, emitted, monitor>>

\* At most one of the hashes is mined, as they share wallet and nonce, and
\* nothing happens until the node finds it.
refreshTransactionStatus ==
    /\ followed # NoTransaction
    /\ \E h \in ToSet(txHashesToCheck) : IsMined(chain, h)
    /\ LET tx == transactionOf(chain, CHOOSE h \in ToSet(txHashesToCheck) : IsMined(chain, h))
           hash == reportedHash(tx)
           bundlingStatus == getBundleStatus(tx, entryPointOf[followed.ops[1]])
       IN  CASE bundlingStatus.status = "included" ->
                   RefreshIncluded(hash, bundlingStatus.userOperationDetails)
             [] bundlingStatus.status = "reverted" /\ bundlingStatus.isAA95 -> RefreshAA95
             [] bundlingStatus.status = "reverted" /\ ~ bundlingStatus.isAA95 ->
                   RefreshReverted(hash)

----------------------------------------------------------------------------
(* checkFrontrun.                                                          *)

\* Mutant: one block is enough.
LateEnoughEarly(currentBlockNumber, blockNumber) == currentBlockNumber > blockNumber

\* Two blocks must have followed the number of the reverted transaction's.
LateEnough(currentBlockNumber, blockNumber) == currentBlockNumber > blockNumber + 1

\* A watcher polls block numbers, and calls onBlockNumber with one that is
\* new, even if a call before still awaits its receipt.
onBlockNumber(o) ==
    /\ watches[o] # NoWatch
    /\ watches[o].seen < Len(chain)
    /\ LateEnough(Len(chain), watches[o].blockNumber)
    /\ watches' = [watches EXCEPT ![o].seen = Len(chain)]
    /\ calls' = calls \cup {[op |-> o, transactionHash |-> watches[o].transactionHash,
                             started |-> Len(chain), read |-> FALSE, receipt |-> Nothing]}
    /\ UNCHANGED <<chain, followed, pending, sent, emitted, monitor>>

ReadReceipt(c) ==
    /\ ~ c.read
    /\ calls' = (calls \ {c}) \cup
                   {[c EXCEPT !.read = TRUE, !.receipt = getUserOperationReceipt(chain, c.op)]}
    /\ UNCHANGED <<chain, followed, pending, sent, watches, emitted, monitor>>

\* The rest of onBlockNumber.  Its transactionHash is the receipt's if there
\* is one, and the reverted transaction's otherwise.
Answer(c) ==
    LET found == c.receipt # Nothing
        hash  == IF found THEN c.receipt[1].transactionHash ELSE c.transactionHash
    IN  /\ c.read
        /\ setUserOperationStatus(
              [o \in {c.op} |-> Status(IF found THEN "included" ELSE "rejected", hash)])
        /\ emitEvents({Event(IF found THEN "frontran_onchain" ELSE "failed_onchain", c.op, hash)})
        /\ watches' = [watches EXCEPT ![c.op] = NoWatch]
        /\ calls' = calls \ {c}
        /\ UNCHANGED <<chain, followed, pending, sent>>

\* getUserOperationReceipt throws: the call ends, and the watcher goes on.
ReceiptThrows(c) ==
    /\ ~ c.read
    /\ calls' = calls \ {c}
    /\ UNCHANGED <<chain, followed, pending, sent, watches, emitted, monitor>>

----------------------------------------------------------------------------
Init ==
    \E bundle \in Bundles :
        /\ chain = <<>>
        /\ followed = [NoTransaction EXCEPT !.transactionHash = Hashes[1], !.ops = bundle]
        /\ pending = {[hash |-> Hashes[1], ops |-> bundle]}
        /\ sent = 1
        /\ watches = [o \in Ops |-> NoWatch]
        /\ calls = {}
        /\ userOperationToStatus =
              [o \in Ops |-> IF o \in ToSet(bundle) THEN Status("submitted", Hashes[1]) ELSE Forgotten]
        /\ userOperationTimeouts = [o \in Ops |-> IF o \in ToSet(bundle) THEN {Timeout} ELSE {}]
        /\ age = [o \in Ops |-> IF o \in ToSet(bundle) THEN 0 ELSE Timeout]
        /\ emitted = {}

Next ==
    \/ Mine
    \/ Tick
    \/ Replace
    \/ GiveUp
    \/ refreshTransactionStatus
    \/ \E o \in Ops : onBlockNumber(o) \/ Expire(o)
    \/ \E c \in calls : ReadReceipt(c) \/ Answer(c) \/ ReceiptThrows(c)

Spec == Init /\ [][Next]_vars

----------------------------------------------------------------------------
(* Properties.                                                             *)

TypeOK ==
    /\ Len(chain) =< MaxBlocks
    /\ followed.transactionHash \in ToSet(Hashes) \cup {NoHash}
    /\ followed.ops \in Seq(Ops)
    /\ \A p \in pending : p.hash \in ToSet(Hashes) /\ ToSet(p.ops) \subseteq Ops
    /\ sent \in 1..Len(Hashes)
    /\ watches \in [Ops -> [transactionHash : ToSet(Hashes) \cup {NoHash},
                            blockNumber : 0..MaxBlocks, seen : 0..MaxBlocks]]
    /\ \A c \in calls : c.op \in Ops /\ c.started \in 1..MaxBlocks
    /\ userOperationToStatus \in
          [Ops -> [status : {"not_found", "submitted", "included", "rejected"},
                   transactionHash : {NoHash} \cup ToSet(Hashes) \cup {r.hash : r \in Rivals}]]
    /\ userOperationTimeouts \in [Ops -> SUBSET (0..Timeout)]
    /\ age \in [Ops -> 0..Timeout]
    /\ \A e \in emitted : e.userOperationHash \in Ops

\* Nobody logged something of o in tx as if he were the entry point.
NotImitated(o, tx) == \A log \in ToSet(logsOf(tx)) \cap Imitations : log.op # o

\* The receipt of an operation (userop.ts:599), unless a contract imitates the
\* entry point's logs of that very operation, says whether it succeeded, and of
\* all executions in its transaction it shows none but its own: the logs are cut
\* out between two events, whoever they are of.  It shows its own wholly, unless
\* that itself imitates events of others.
ReceiptsOwn ==
    \A o \in Ops :
        LET answer == getUserOperationReceipt(chain, o)
            receipt == answer[1]
            tx  == transactionOf(chain, receipt.transactionHash)
            run == CHOOSE r \in RunsOf(tx) : r.op = o
            executions == {log \in ToSet(logsOf(tx)) : log.name = "Executed"}
        IN  answer # Nothing /\ NotImitated(o, tx) =>
                /\ receipt.success = (run.outcome = "success")
                /\ receipt.reason = (run.outcome = "reverted")
                /\ receipt.entryPoint = entryPointOf[o]
                /\ \A log \in ToSet(receipt.logs) : log.name = "Executed" => log.op = o
                /\ (\A log \in ToSet(imitated[o].execution) : ~ IsEvent(log)) =>
                       Filtered(receipt.logs, executions)
                           = Filtered(logsOf(tx), {log \in executions : log.op = o})

\* What eth_getUserOperationByHash answers (rpcHandler.ts:615) has the hash
\* that was asked for: unpacking undoes packing, also for the fields that
\* only one of the two versions has.
ByHashTrue ==
    \A o \in Ops :
        LET answer == getUserOperationByHash(chain, o)
        IN  answer # Nothing => getUserOperationHash(answer[1], entryPointOf[o]) = hashOf(o)

\* It finds every operation that the last maxBlockRange blocks ran by a
\* direct call of an entry point, but those of version 0.7 with a factory
\* or a paymaster that is given no data, whose bytes slice() cannot cut.
ByHashFinds ==
    \A o \in Ops :
        (/\ \E n \in DOMAIN chain : \E tx \in ToSet(chain[n]) :
                /\ n + maxBlockRange >= Len(chain)
                /\ \E run \in RunsOf(tx) : run.op = o
                /\ tx.functionName = functionOf(o)
         /\ LET op == userOperation[o]
            IN  \/ isVersion06(op)
                \/ /\ op.factory # NoAddress => op.factoryData # <<>>
                   /\ op.paymaster # NoAddress => op.paymasterData # <<>>)
        => getUserOperationByHash(chain, o) # Nothing

\* So eth_getUserOperationByHash answers for what it can find, and truly.
ByHashAnswers == ByHashTrue /\ ByHashFinds

Ours == ToSet(Hashes)
RanIn(o, hash) ==
    IsMined(chain, hash) /\ \E run \in RunsOf(transactionOf(chain, hash)) : run.op = o

\* What the statuses and the events say is on the chain
\* (executorManager.ts:464-480, 545-575): an operation was run by the very
\* transaction they name, successfully or not as they say, by ours or by a
\* rival's; and what failed is named with a transaction that reverted.
ReportsTrue ==
    /\ \A o \in Ops : LET s == userOperationToStatus[o]
                      IN  s.status = "included" => RanIn(o, s.transactionHash)
    /\ \A e \in emitted :
        LET o    == e.userOperationHash
            hash == e.transactionHash
            tx   == transactionOf(chain, hash)
        IN  /\ IsMined(chain, hash)
            /\ CASE e.eventType = "included_onchain" ->
                       hash \in Ours /\ [op |-> o, outcome |-> "success"] \in RunsOf(tx)
                 [] e.eventType = "execution_reverted_onchain" ->
                       /\ hash \in Ours /\ RanIn(o, hash)
                       /\ [op |-> o, outcome |-> "success"] \notin RunsOf(tx)
                 [] e.eventType = "frontran_onchain" -> hash \notin Ours /\ RanIn(o, hash)
                 [] e.eventType = "failed_onchain" -> hash \in Ours /\ tx.status = "reverted"

\* An operation is called rejected (executorManager.ts:535) only if no
\* transaction ran it until two blocks after our bundle reverted, as far as
\* getLogs looks back; not if the frontrunner's transaction was merely late.
FrontrunRecognised ==
    \A o \in Ops :
        LET s == userOperationToStatus[o]
        IN  s.status = "rejected" =>
                \A n \in fromBlock(chain)..(blockNumberOf(chain, s.transactionHash) + 2) :
                    n \in DOMAIN chain => o \notin Executed(ToSet(chain[n]))

\* A status is known for as long as the timeout since it was last set
\* (monitoring.ts:22), however often it was set before.
StatusKept ==
    \A o \in Ops : age[o] < Timeout => userOperationToStatus[o] # Forgotten
=============================================================================
