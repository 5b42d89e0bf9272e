# Alto in TLA+

Alto is an ERC-4337 bundler: it takes user operations over JSON-RPC, validates
them, keeps them in a mempool, puts them into `handleOps` transactions that one
of its own wallets signs, and follows these transactions until they are in a
block.  This directory holds TLA+ models of the parts of it that decide what
happens to an operation and what is said of it, the TLC runs that check them on
small instances, and TLAPS proofs of theorems about them.

    tlc -workers 2 -config MempoolBundles.cfg MCMempool     # one run
    tlapm MempoolProofs.tla                                 # one set of proofs

`PROJECT.json` lists the components, runs, mutants, hazards and theorems, and
maps every definition of the models to the lines it is translated from.  Paths
below are relative to `src/src/`.

## 1. Inventory

Alto is one Node process.  A piece of code runs to its next `await` without
being interrupted; everything that is concurrent in it happens at an await, a
timer (`setInterval`) or a callback (a new block, an RPC request).  Nothing is
persisted: a restart begins with empty stores, and there is no recovery to check.

| Component | State it keeps | Operations | What makes it correct |
| --- | --- | --- | --- |
| Mempool: `mempool/mempool.ts`, `store.ts` | three arrays: outstanding, processing, submitted | `add`, `process`/`shouldSkip`, `markSubmitted`, `replaceSubmitted`, `remove*`, `clear`, `getQueuedUserOperations`, `checkEntityMultipleRoleViolation` | an operation is in one store, at most one per nonce, a bundle keeps to gas, deposits and senders |
| Status monitor: `mempool/monitoring.ts` | status and a timer by hash | `setUserOperationStatus` | the status agrees with the stores and is kept for an hour |
| Reputation: `mempool/reputationManager.ts` | counters by entry point and address, counts by address | `checkReputation`, `increase/decreaseUserOperationCount`, `update*`, `crashedHandleOps`, debug endpoint; without safe mode `NullReputationManager`, which counts nothing | who has no stake is limited, a ban lasts |
| Executor manager: `executor/executorManager.ts` | a timer, `currentlyHandlingBlock`, `unWatch` | `bundle`, `bundleNow`, `sendToExecutor`, `handleBlock`, `refreshTransactionStatus`, `replaceTransaction`, `checkFrontrun`, `getUserOperationReceipt` | every operation taken is submitted, rejected or resubmitted; a transaction is followed until it is settled; what is said of it is true |
| Executor: `executor/executor.ts`, `executor/utils.ts` | a mutex | `bundle`, `bundleCompressed`, `replaceTransaction`, `filterOpsAndEstimateGas`, `sendHandleOpsTransaction` | a result for every operation, only culprits are left out, the wallet comes back exactly once |
| Executor wallets: `executor/senderManager.ts` | array of available wallets, a counting semaphore | `getWallet`, `pushWallet`, `markWalletProcessed`, `validateAndRefillWallets` | one holder per wallet, everyone who waits is served, no wallet stays low |
| Nonce queue: `rpc/nonceQueuer.ts` | operations whose nonce is in the future | `add`, `process` every two seconds | each is released once its turn has come, none is lost |
| Gas prices: `handlers/*GasPriceManager.ts`, `utils/timedQueue.ts` | queues of recent prices, and of what L1 oracles asked | `getGasPrice`, `validateGasPrice`, `saveValue` | what was quoted is accepted for as long as it is promised |
| Gas estimation: `rpc/estimation/*`, `utils/validation.ts` | none | `eth_estimateUserOperationGas`, `calcPreVerificationGas` | what was estimated is accepted when the operation comes |
| Validation: `rpc/validation/*` | the trace of one simulation; the code hashes between two | `validateUserOperation` | an operation is refused if and only if its contracts broke a rule |
| Packing and receipts: `utils/userop.ts` | none | `packUserOp`, `toUnpackedUserOperation`, `getUserOperationHash`, `parseUserOperationReceipt`, `getBundleStatus` | unpacking undoes packing; a receipt shows an operation's own logs |
| RPC: `rpc/rpcHandler.ts`, `server.ts` | none | `eth_sendUserOperation`, `eth_getUserOperation*`, `pimlico_*`, `debug_bundler_*` | admits what validation admits |
| Compression, events, metrics, start-up | constants only | | |

How they interact.  `eth_sendUserOperation` reads nonces, counts reputation and
validates (several awaits), then calls `mempool.add`, or the nonce queue's
`add`, which calls `mempool.add` later.  A timer calls `ExecutorManager.bundle`
every `maxBundleWait`, whether the last call has finished or not; it calls
`mempool.process` until that returns nothing and hands each bundle, once per
entry point, to `executor.bundle`, whose results it writes back to the mempool
and the monitor.  From the first submission on, each new block runs
`handleBlock`: settle the transactions that are included, reverted or failed,
replace those whose price is too low or that have not changed for five minutes.
Both `executor.bundle` and the safe validator take wallets from the sender
manager; a bundle keeps its wallet until the transaction is settled.  A second
timer refills the wallets that are low.

Hard behaviours: overlapping calls of `bundle()` on stale snapshots; operations
added, replaced or cleared while `shouldSkip` awaits a validation; results that
come in any order and concern operations another call has moved; block handling
that captures transactions and then awaits; requests that read a nonce before
and a queue after an await; refilling and `NonceQueuer.process` that overlap
themselves; answers about blocks that arrive out of order; awaits that throw
where nothing catches; retries in sending and estimating; quotes that are
accepted seconds later; indices, slots and depths that are off by one.
"hazards" in `PROJECT.json` lists 40 of them by line, each with the properties
that cover it.  Hazards that no property covers are in section 5, "Also seen".

## 2. The modules

| Module | What it is | Lines it is about |
| --- | --- | --- |
| `OpOrder` | the comparator of `process()` and V8's sort | `mempool.ts` |
| `MempoolAdd` | the checks of `add()`: conflicts, fee bump, limits | `mempool.ts` |
| `Mempool`, `MCMempool` | the life of an operation: mempool, monitor and executor manager, with the executor's outcomes | `mempool.ts`, `store.ts`, `executorManager.ts` |
| `Reputation` | counters, standing, crashes (over `MempoolAdd`) | `reputationManager.ts` |
| `Admission`, `MCAdmission`, `MCNonceKey` | requests and the nonce queue, over `Reputation` | `rpcHandler.ts`, `nonceQueuer.ts` |
| `WalletPool` | what the wallets promise: ask, take, give back | abstract |
| `SenderManager` | the array and the semaphore that implement it | `senderManager.ts` |
| `Refill`, `MCRefill` | refilling, composed with `SenderManager` | `senderManager.ts`, `setupServer.ts` |
| `FilterOps` | the loop of `filterOpsAndEstimateGas` | `executor/utils.ts` |
| `BundleOps`, `MCBundleOps` | its three callers, composed with the loop | `executor.ts` |
| `BundleTx`, `MCBundleTx` | a bundle's transaction and the wallet that signs it, over `WalletPool` | `executor.ts`, `executorManager.ts` |
| `TimedQueue`, `GasPrices` | the queues; every way to a price, quotes and bounds | `timedQueue.ts`, `gasPriceManager.ts` |
| `GasEstimation`, `MCGasEstimation` | estimates and the checks they meet, over `GasPrices` | `utils/validation.ts`, `rpc/estimation/*`, L1 price managers |
| `Collector` | the two tracers | `BundlerCollectorTracerV06/V07.ts` |
| `TraceParser` | the rules of validation over a trace | `TracerResultParserV06/V07.ts` |
| `Validation`, `MCValidation` | both validations of an operation, over the two | `SafeValidator.ts`, `UnsafeValidator.ts` |
| `PackedOps` | packing, unpacking and hashes | `utils/userop.ts` |
| `Receipts` | what is read from the chain | `utils/userop.ts`, `executorManager.ts`, `rpcHandler.ts` |
| `Settlement`, `MCSettlement` | a bundle's end, statuses and events, over the two | `executorManager.ts`, `monitoring.ts`, `eventManager.ts` |
| `SequenceLemmas` | lemmas about sequences (removal, insertion, order, folds, flattening), how often an element occurs, and sums over finite sets | |
| `OutstandingProofs` | theorems and lemmas about the sort and about `add()` | `mempool.ts` |
| `SenderManagerProofs`, `ExecutorProofs`, `MempoolProofs`, `AdmissionProofs`, `SettlementProofs`, `RpcProofs` | the theorems about the specifications | |

A definition whose comment begins with "Mutant" is not part of a model: it is
the code with a plausible mistake, for which a property must fail.

### Mempool

`outstanding`, `processing` and `submitted` are the three arrays of `store.ts`;
a submitted entry is an operation and the sequence of operations in its
transaction (one object, `transactionInfo`, is shared by all its entries; the
wallet, nonce and price in it matter only through the outcomes they cause).
`status` is the monitor, `run[r]` the local variables of one call of `bundle()`
or `bundleNow()` between two awaits of `process()`, `sending` the bundles that
have been handed to `sendToExecutor` and wait for `executor.bundle`.  An action
is the code between two awaits.  Where the code loops over results or over the
operations of a transaction without an await, the remaining iterations are
`todo` and every other action waits until it is empty: the loop is atomic for
the rest of the program but each iteration sees what the last one did.

* `add(o)` is `mempool.add` in its own order: known hash, same nonce in the
  processing or submitted store, the *first* conflicting operation (same nonce, or
  both would deploy the sender; others of the sender need not), the fee bump of 10 %, removal
  of the replaced one, the two limits, the push.  `OutstandingAfterAdd` keeps
  the removal even when a limit then refuses, as the code does.  Validation is
  external here; because the check of the chain's nonce comes before several
  awaits, the model admits more interleavings than a check at the moment of
  `add` would.  It excludes operations whose nonce an included operation has used.
* `bundle(r)` is one tick of the timer or one `debug_bundler_sendBundleNow`:
  sort a copy of the outstanding store (`V8Sort`), then iterate.  `Iterate` is
  the loop header with `minOps` and `gasUsed`, and `shouldSkip` as far as its
  first await; `ValidationFailed`, `StorageClash`, `ValidationPassed`,
  `BalanceRead` and `BalanceThrows` are its awaits' answers; `Take` moves the
  operation to the processing store *without looking whether it is still
  outstanding*, as the code does.
* `SendToExecutor` is every answer `executor.bundle` can give: parameters not
  available (resubmit all), nobody survives the simulation or sending fails
  (failure of all), a transaction of some of them, insufficient funds (resubmit
  those that survived, silence about the others) or an exception.
* `handleBlock` takes the three stages in order.  In each it captures the
  transactions, and the answers for them come in any order.  After AA95 the
  operations leave the submitted store, and the replacement is another await: the
  transaction is in `resending`, its operations can be sent and bundled again, and
  `replaceSubmitted`, which looks for an entry by hash, then takes the entry of the
  other transaction.  `overtaken` records the operations this concerns.
* `handleTransactionUnderPriced` moves operations of another transaction of the
  same account back; this needs one account to be configured as two executors
  (`SharedWallets`), which nothing in the code forbids.

`Lossy` switches on the outcomes that lose operations (an await that throws,
insufficient funds).  Properties about losing nothing are checked without it,
the safety of the stores with it.

### Admission and Reputation

A request is `addToMempoolIfValid`: it reads the nonce and the queued operations
of the sender (`NonceRead`, `NonceReadAgain`: other code runs between them),
raises the counts of its entities and looks at their standing (`checkReputation`,
in this order), awaits the validation, and ends in the mempool, in the nonce
queue or with a refusal.  `low` is the nonce when the chain was asked; the
answer lies between it and the nonce now.  `process[p]` is one call of the nonce
queue's `process()`: its snapshot, its reads, and the release of what is due;
`QueueWithout` is the filter at its end, on the queue of that moment.
`fullNonce` keeps the key in the upper part, which is why the comparison of
`nonceQueuer.ts:232` fails for other keys (see Findings).  What the bundler does is
reduced to taking, including, dropping and putting back.  `entityCount` is the
code's, `uncounted` a history of what was added without being counted.
The branch of `dangerousSkipUserOperationValidation` is modelled; the run has it off.
With `safeMode` FALSE the reputation is the `NullReputationManager`: every operation
of `Reputation` that counts or refuses asks for `safeMode`.

### SenderManager and Refill

A client is one call of `getWallet` and what follows it.  `waitForUnlock`,
`acquire` and the `shift` are three actions since the function awaits between
them; `dispatch` is async-mutex's, modelled from its use.  The wallet comes back
by `pushWallet` (validation) or by `markWalletProcessed`, which pushes only a
wallet that is not in the array.  `Abandon` is a caller that throws while it
holds the wallet.

`validateAndRefillWallets(r)` starts a call, which reads the balances of the
wallets in the array (each at its own moment; the answer that comes last decides
whether anything is sent), compares what is missing, and 10 % more, with the
utility account's funds, and sends: all at once through the helper contract, or
wallet by wallet.  Calls overlap because the interval does not wait.  The array is
the whole list of wallets unless it was capped.  Wallets spend while they are
held.  Gas is left out.  A call that throws ends; without Sentry the rejection
that nobody handles ends the process.

### FilterOps and BundleOps

`FilterOps` is one call of `filterOpsAndEstimateGas`: `reason`, `retriesLeft`
and the number of times gas and fees were raised are its locals, each action is a
turn of its loop, that is the node's answer to one estimation.  `culprits` and
`estimated` record what the node meant, so that the properties can compare it
with what the function does: the node names an operation by its index in the
call it was asked about, and the function looks that index up in a list filtered
again.  The two branches that read a failing operation (a revert's data, and the
data of an estimation error) differ as they do in the code: only the first
retries on AA95 and tells the reputation.

`BundleOps` adds what surrounds the loop in `bundle`, `bundleCompressed` and
`replaceTransaction`: parameters that cannot be read, the verdict on the loop's
answer, the gas limit with the floor that the entry point asks for, the sending,
the result for each operation and the calldata that is recorded for later
replacements.  Each of them differs a little from the other two, and so do the actions.

### BundleTx

A bundle is one call of `executor.bundle` and the transaction it leads to, with
its replacements.  `pc[b]` is the await it is in: waiting for a wallet, for gas
price and nonce, for the estimation, for `sendTransaction`, or in one of the
awaits of `handleBlock`.  `nonce` and `times` are what `transactionInfo` records,
`request` what the retry loop of `sendHandleOpsTransaction` changes; the two
nonces are kept apart because the code records the first one.  `ops` are a bundle's
operations and `entry[o]` is the bundle that the submitted entry of `o` names;
`followed` is the set of bundles with entries, the only thing that makes
`handleBlock` look at a transaction.  An operation may be in one bundle after
another: AA95 and conflicts let it go while its transaction may still be sent.  Then
`removeSubmitted` and `replaceSubmitted`, which look for the hash, take the entry it
has, whichever bundle that names (`Without`, `Replaced`), and a bundle that loses its
last entry is followed by nobody (`FateWithout`).  `EndsWith` is `markWalletProcessed`
and what its callers do in the same turn of the event loop.  Two calls of `bundle()`
do not hold an operation at the same time (`Available`): that is `SingleCustody` of
`Mempool`, for calls that do not overlap, and then it has one entry.  What overlapping
calls do to the wallets is in "Also seen".  `Reported` is `sendToExecutor`, which
reports the results only when the call for the compressed operations is over; if
that throws, the transaction that was sent is followed by nobody.  The wallets are those of
`WalletPool`, the specification that `SenderManager` is checked to implement.
The node is external: it may take or refuse a transaction, answer nonces of a
moment ago, fail after it has taken a transaction, mine the next transaction of
an account and forget any.  `fate` says why a bundle is no longer followed
although it keeps its wallet.

`Mempool`, `BundleTx` and `Settlement` look at the same functions from three
sides: there an operation goes from store to store, here the wallet, the nonces
and the attempts are followed, and in the third what alto says of the operation.

### GasPrices and GasEstimation

`TimedQueue` is `saveValue` and the least, most and latest value.  `GasPrices` is
the ways to a price (gas station, legacy, the node's estimate, fee history and
the bumps of each chain), what they save, the quote and `validateGasPrice`.
`GasEstimation` adds the simulations with their retries and overrides, the
limits computed from their answer, the `preVerificationGas` of three kinds of
roll-up, and the checks of an operation that uses the estimate.  Nodes, oracles
and gas stations answer anything of a small set, the clock counts seconds.
`HonouredFor`, `(maxQueueSize - 1) * queueValidity` seconds, is how long a quote
is safe; the queue has one place for each second of its validity, so that this is
longer than the option says.

### Collector, TraceParser and Validation

The node runs an operation's contracts and calls the collector for every
instruction: `Collector` is what that keeps.  `TraceParser` is the rules, from
[OP-011] to [EREP-050], over what was kept.  In `Validation` factories, accounts
and paymasters run any instructions of a program, in any order, and `broken`
collects the rules they break when they break them, from the text of the
standard's rule as the comments of the parser quote it; the parser, which sees
only the trace, must find exactly those operations.  An operation is validated when it
arrives and again, with the hash of the code it referred to, before it is
bundled; between the two code may change and time passes.

Contracts push an operand right before they use it, compute a hashed slot before
they use it, and only entities use `CREATE2`.  `GAS` may come before an
instruction that calls; before `CALLER`, whose name contains `CALL`, it is noted in
`broken` as `GasBeforeCaller`, because the collector's comment speaks of calls and its
test lets it pass.  Contracts may call functions of any name: a call of
`validatePaymasterUserOp` or `delegateAndRevert` that a contract makes is noted in
`mistakable`, since the parser may take it for the entry point's or the simulation's.
`VerdictExact` is exact up to these two (`Indistinct`).  Logs and `BeforeExecution`
are left out.  If the hash is unknown at both validations the operation passes.  Code
may change at any time (`Upgrade`): before the hash is taken, before it is compared and
before the second trace.  `upgradedBefore` and `upgradedWhenCompared` are what had
changed at the first two; what changes after the comparison is accepted unseen, and
`CodeChangeNoticed` speaks of what has changed when the hashes are compared.  The storage
map is checked for truth, not for completeness.
`importedTracer` is "V06" in `validation`, where each version is traced with the
collector written for it, and "V07" in `tracer_v06`, as the code imports it.

### PackedOps, Receipts and Settlement

`PackedOps` translates an operation to calldata and back, with addresses, half
words and data as the units that `slice` cuts at; `Receipts` finds the logs of an
operation between two events and decides what became of a bundle.  The
logs of contracts may look like the entry point's, with any operation's hash, in its
validation and in its execution (`imitated`): `parseUserOperationReceipt` compares topics
only, so that they count, while `getLogs` and `getBundleStatus` filter by address.  In
`Settlement` one bundle is sent, perhaps replaced, and one of its transactions,
or of a rival's, is mined; `refreshTransactionStatus` and `checkFrontrun` read the
chain while it grows, and answers about one block may come after those about the
next.  `clearedTimeouts` and `Expire` are the monitor's timers, which forget a
status after an hour.  Blocks are final, an RPC failure reads as "not found",
Redis does not lose events.  Some odd answers are the code's: after a
replacement "submitted" keeps the former hash, operations that a replacement
leaves out keep "submitted", and the innocent of a reverted bundle are reported
as "failed_onchain".

## 3. The runs

Each run's `about` in `PROJECT.json` says it in a sentence.  States are those TLC
reports.

| Run | States | Shows |
| --- | --- | --- |
| `sender` | 59,716 | `no more wallets` is never thrown; every caller is served unless all wallets are lost; the code implements `WalletPool`; refilling, also by two calls at once, pays within its means, and no wallet stays low |
| `filter_ops` | 203,148 | exactly the operations the node names are left out, the loop ends, each operation is answered but in one case, what is recorded is what was sent, the gas covers the floor |
| `bundle_tx` | 957,792 | a wallet that is needed is not given away, one that does not come back was lost in one of five ways |
| `mempool_bundles` | 168,480 | bundles keep to gas, deposits and senders; one operation per nonce; a refusal of a rival changes nothing; neighbours of one sender are in order; stores stay disjoint with two overlapping calls; nothing in the processing store is forgotten |
| `mempool_blocks` | 3,412,330 | one store and one transaction for each operation, no result for what is gone, stable statuses, while awaits throw |
| `mempool_live` | 75,112 | every operation leaves the outstanding and the processing store |
| `admission` | 275,948 | what an operation is validated behind is all there, who has no stake is limited, arrivals stay in the queue, a crash lifts no ban |
| `prices` | 61,774 | quotes and estimates are honoured, estimated operations pass the check of their prefund |
| `validation` | 2,430,309 | an operation is refused if and only if a rule was broken; storage map, times, changed code |
| `settlement` | 224,930 | receipts, operations by hash, statuses and events tell what happened; frontrunners are noticed; statuses are kept |
| `nonce_key`, `tracer_v06` | | violations, see Findings |

Every property has a mutant, those that join several formulas (`BundlesAdmissible`,
`RefillsWithinMeans`, `StoresDrain`, `VerdictExact`, `ByHashAnswers`) one for each,
and `ConsideredInOrder` one for the keys and one for the nonces.
Type invariants other than that of `Mempool` are stated in their modules, where
proofs use them, and are not among the properties of the runs.

Bounds.  *Mempool.*  The sets of operations are the smallest in which the cases
happen: a pair with the same nonce of which one can replace the other, two nonces
and two nonce keys of a sender, a second sender, operations of two senders that fit
into a bundle together and others that do not, one larger than the gas limit, one of
a second entry point, a paymaster whose deposit covers one operation, and a third
sender with two operations that deploy it and a third that has the nonce of one of
them and does not.  An operation may be sent
again after it was rejected or cleared, so behaviours are infinite although the
states are finite.  `NoBlocks` (`mempool_bundles`) keeps blocks away and lets
be there at a time either two rivals, with two calls of `bundle()`, or three
operations with one call, or the three of the third sender before any is bundled; two
calls are enough to make every snapshot stale.  Two operations of one key may be
outstanding together (`mempoolMaxQueuedOps = 1` admits two).
`mempool_blocks` has one call, because with two an operation may be taken twice
(see below) and custody is then not single; one reverted transaction is watched
at a time, and AA95's overtaking is looked at with two operations while nothing is
watched and nothing has thrown (`OneTrouble`); standing, which admission and bundling
look at, is constant (`Standing`).  `mempool_live` leaves the overtaking out
(`NoneOvertaken`).  *Wallets.*  Two wallets of three configured; four clients
while nobody refills, one while two calls do: one client is enough to take a wallet
out of the array and spend, two calls to overlap.  *filter_ops* has as many retries
as the code and enough operations for an index to shift twice.  *bundle_tx.*  Two
bundles contend for one account: the second wallet has the same address, without
which no two transactions of different bundles meet at one nonce (theorem
`ConflictsNeedSharedAccount`); two operations are enough for a bundle to lose one of
its entries to the other bundle and keep the other; `MaxNonce = 1` lets the node take nonces
0 and 1,
enough for a replacement at the same nonce and for the next one after AA95.
Attempts and potential inclusions go up to the code's own limits of three.
*admission.*  Two requests and two calls of `process()`, symmetric; the cases of
`Bounded` are Alice's operations in a row with a queue, rivals of one nonce with two
requests, one long after another, and Bob with a paymaster whose standing changes;
Alice's first operation deploys her and the others do not;
the limits are the least that can be exceeded, and nonces have room for two keys.
*prices.*  A queue of two values of two seconds and a clock of four seconds is
filled and shifted; nine configurations take every branch of a price, each asks
for what it uses; where the fees of L1 matter the price is one.
*validation.*  Each version has four operations, with and without factory and
paymaster, staked or not; a program is of one kind, since the rules do not depend
on each other, but for the calls by name, which are in several; three instructions are a
value put where another entity, or a call,
finds it.  Times are those around the margins of 5 and 30 seconds at second 100.
*settlement.*  Two hashes, three rivals (a frontrunner, a contract that calls both entry
points, a rival operation), logs of one operation's execution and of another's validation
and of a rival's contract that look like the entry point's, of operations of other
people; four blocks where frontrunning is looked for in the
next two and an event in the last two.

Deadlock is checked in the runs of `Mempool`.  In `sender` and `bundle_tx` all the
wallets may be lost, `filter_ops` is one call that returns, and in the others a
bound (a clock, the blocks, the nonces) is reached: there the model may stop.
`admission` and `bundle_tx` use symmetry (requests, and calls of `process()`, are
alike; so are bundles, wallets of one account and operations); the temporal
properties of `admission` are action properties.

Fairness.  *Mempool.*  A loop goes on by itself (`WF_vars(Loop)`).  Calls of the
timer and callbacks of awaits are queued by Node and run once the loop before
them is done; as the loops disable them for a while, that is strong fairness.
The oldest bundle that waits for the executor is answered: its RPC calls time
out.  Nothing is assumed of requests, blocks or the chain.  `mempool_live` runs
without safe mode: with it an operation can be skipped for ever by a throttled
entity or a storage clash, and the code promises nothing else.  *SenderManager.*
Resolved promises are continued and a client that holds a wallet returns it or
throws; nobody has to ask.  *Refill.*  The interval goes on, the node answers,
and in the end it answers without errors (`<>[]`): if every call threw, nothing
could be promised.  *nonce_key* (`YoungSpec`): `process()` is called again and again,
and again and again its reads succeed, while nothing is older than the queue's 15
minutes.

## 4. The proofs

What TLC shows of a small instance, the theorems say for every value of the
constants that the modules' ASSUMEs admit.  Each rests on an inductive invariant,
with one lemma for each action or group of actions; PTL does the temporal step.
A theorem with a hypothesis of its own has it in its ASSUME, and below is why.

**Wallets** (`SenderManagerProofs`), for any list of different wallets, any cap,
any finite set of clients: `TypeOK`, `NoMoreWalletsNeverThrown`, `WalletsExclusive`
and `NoLostWakeup` are invariants.  `IInv` adds what the error message "should never
happen because of semaphore" relies on: each available wallet is either a permit
or promised to a client that was let through
(`Len(availableWallets) = value + |granted|`), the queue holds the clients that
are queued, once each, and while permits are left nobody sleeps.  `ReleaseStep`
serves the three ways to release.
*Refinement.*  `Implements`: under the mapping that `SenderManager` gives, every
step is one of the pool's `Ask`, `Take`, `Give` and `Lose`, or none.  Letting a
client through (`dispatch`) must not change who asks: `DispatchAsking`.
*Refilling.*  `WithinMeans` needs more than it says.  `FillInv` bounds a balance
*with what is on its way to it*, `Total(Refills, Pending(call, w))`, by one target, or
by one for each call if two have overlapped; `AloneInv` says of a call that runs
alone that the funds it compared are still there, since only calls spend them.  The
hypothesis `StartBalance =< Target` is that no wallet starts above the target.

**The loop and its callers** (`ExecutorProofs`).  For the loop, for any number of
operations and retries: `TypeOK`, `SimulatedTogether`, `OnlyCulpritsLeftOut` and
`CallsBounded` are invariants.  The index of an operation is the number of smaller
ones that are still to be sent; `FailingOp` shows that looking it up gives the
operation back.  `CallsBounded` is how the loop's end is proved without liveness:
`Progress` says that the calls are exactly the operations left out plus the
retries spent.  For the callers, for any floors and estimates: `EveryOpAnswered`,
`RecordedAsSent` and `GasCoversFloor` are invariants, and `BundleSpec` implements
the loop's `Spec` (`CallsTheLoop`: each of its steps is a turn of the loop or leaves
the loop's variables alone), so that the loop's theorems hold of its callers.  What
is known in each phase: nothing is sent before `Simulated` (`NothingYet`), what is
then sent is what was estimated (`ReadyToSend`), and the gas that is asked for
contains the floor of the operations that were kept, a sum over them (`GasInv`).

**The outstanding store** (`OutstandingProofs`).  `SortProperties`: V8's binary
insertion sort keeps the operations, each once, and leaves no neighbours in the wrong
order.  More cannot be said, since the comparator is no order (see "Also seen"): a
binary search over a list that is not sorted finds *some* place between a smaller
and a larger neighbour, and that is the invariant of the search.  The lemmas about
`add()`: an operation may have two rivals, one with its nonce and one that would also
deploy the sender, and only the first is removed.  Operations of one sender need
not agree about deploying it, as the first one has the factory and the others do not.
What matters is whether two with *one nonce* disagree (`Disputed`): if they do not,
`Rivalry` shows that there is never a second rival to be missed (`NoRivals`); if they
do, there may be, and the properties except such a sender.  `ReplacementFits`: a replacement
of the same
nonce key is never over a limit, because the limits, as they hold, admit one more than
they say (`Limited`, since the check comes before the push), and the rival has just made
room for one in the sender's queue of that key.  A rival of another key makes none there
(see "Also seen").

**The mempool** (`MempoolProofs`), for any operations, limits, entities, options and
number of overlapping calls, with `Lossy` and `SharedWallets` unless it is said.

* *Types and stores.*  `TypeOK` includes that the deposit which `process()` keeps by
  subtraction stays a natural number.  `StoresDisjoint` is what `add()` relies on:
  its checks look at the other two stores, and `Take` does not.  The inductive invariant
  is `TypeOK /\ RunsInv /\ StoresDisjoint`; `RunsInv` says that a call that waits in
  `shouldSkip` has an operation at the head of its list.  The lemmas follow the
  structure of `Next`: `RequestsKeeps`, `ProcessKeeps`, `SendKeeps`, `LoopKeeps`,
  `BlocksKeeps`.
* *add().*  `UniqueNonceOutstanding` and `RejectedAddIsHarmless`.  Each looks like a
  property of one call, but is not: `add()` removes the first rival it finds and
  looks at the limits afterwards, so that a second rival would stay, and a refusal would
  have removed the first.  Every step only removes from the outstanding store or
  is an `add()` (`RequestsMove`, `RunsMove`, `LoopMoves`, `OthersMove`).
* *Bundles.*  `BundlesAdmissible` is kept because what `process()` has gathered is
  judged before each `Take`, with the gas, the deposits and the senders of what it has
  taken; `ConsideredInOrder` follows from the sort, which leaves no neighbours in the
  wrong order, also if the operations of others are sorted with them.
* *Custody.*  `SingleCustody` assumes one call of `bundle()` at a time (`OneRunner`):
  with two it is false (see "Also seen").  The list that a call works on was
  copied before its awaits; the invariant is that nothing of what is left of it is in
  one of the other two stores by now (`RestFresh`).
* *Accounting.*  `ResultsAwaited` (finitely many calls) and `ProcessingAccounted`
  (if nothing throws, `~ Lossy`) compare how often an operation is in the processing
  store with how often a call, a bundle that waits for the executor or a loop over
  results will take it out.  Both are sums over sets that change with each step, and
  `SequenceLemmas` says how a sum changes with one term.  They hold although, with
  overlapping calls, an operation can be in that store twice.
* *Statuses and transactions.*  `SubmittedStatusStable` (one call at a time).
  `TransactionsDisjoint` needs also that no account is behind two executor keys
  (`~ SharedWallets`, without which it is false), and excepts the operations that
  were `overtaken`: those of which AA95 let a transaction go and that, or others of it,
  were submitted again before the replacement ended.  `FollowInv` says that the
  entries of the submitted store agree with the transactions that loops, polls and
  replacements have captured before their awaits (`EntriesFollowed`, `TasksFollowed`,
  `TasksAgree`, `PolledFollowed`), but for these operations.

**Admission** (`AdmissionProofs`), for any requests, calls of the nonce queue and
limits.  `TInv` is the types and what `add()` keeps of the outstanding store.
`Present`: `addToMempoolIfValid` counts the operations it has queued and compares numbers; as
many *different* nonces below as there are numbers below are all of them, by a
pigeonhole on finite sets, and they are different unless the sender is `Disputed`.
`Limits` counts the roles of an address in the outstanding store and in the
requests that were checked and wait for their validation (`InHand`, a sum over
requests): none of them is over the limit (`LimitInv`), and all were counted by
`increaseUserOperationCount` or are in `uncounted` (`CountInv`).  Its hypotheses: finitely
many requests at a time, and a sender that
is not also a paymaster or a factory (`SendersOnly`), because the code has one count
for all of an address's roles and judges the roles by different limits.
`ArrivalsStay` is an action property: no step drops what was queued after a
snapshot.  `BansLast` assumes `CrashBans`, that the entry a crash leaves is one that bans:
with the code's constants 1000 ÷ 10 is more than the slacks of 10 and 50.

**Transactions** (`ExecutorProofs`), for any bundles, wallets and addresses, without a
bound on blocks or attempts other than the code's (nonces stop at `MaxNonce`,
which is any number): `TypeOK`, `OneTransactionPerWallet` and `WalletsAccounted` are
invariants.  `OwnerInv` ties the place a bundle is in to its owning a wallet, and
`WalletInv` gives every wallet that is not available exactly one owner.
`CustodyInv` says that a call has operations, with no entries yet and in no other
call: they are taken from the outstanding store, one call after another.
`FollowedInv`: an entry names a bundle that was sent and has the operation, so that
to give a wallet back ends what is followed for it; and a bundle that was sent and has
no entries any more has a `fate`.  There are five: an await threw, the results were
not reported, AA95, a conflict, and another bundle with some of its operations that
took its entries along (`"shared"`).  `ConflictsNeedSharedAccount` follows: with executors
whose accounts differ, the transaction `handleTransactionUnderPriced` looks for
is always the caller's own, which is not submitted yet, so that it resubmits
nothing.

**What is told** (`SettlementProofs`), for any bundles, rivals, hashes and timeout.
`StatusKept`: every running timer of an operation ends no earlier than a timeout
after its status was last set, which holds only because setting a status clears
the timers before it.  `ReportsTrue` and `FrontrunRecognised` rest on `SInv`.  A
hash is mined once (`GoodChain`) and nothing that is pending is mined (`SendInv`).
While the bundle is followed at most one of our transactions is mined, and it
carries the operations that are followed, or more (`FollowInv`): that is why what
`refreshTransactionStatus` finds is about them.  While somebody looks for a
frontrunner nothing of ours can be mined (`WatchInv`, `NothingOfOurs`), so that an
operation that is found was run by somebody else, and what a call of
`onBlockNumber` has read is still true when it answers, however late (`CallOK`;
`PastKept`).  `DetailsTell` is what `getBundleStatus` makes of the logs of our
transaction: the last event of an operation says how it ended, whatever others
log in between.

`ReceiptsOwn` and `ByHashAnswers` are about transactions of anybody.  `RunsInv` says
of each of them that it is `WellRun` and that no nonce was used twice on the chain
(`RunOnce`): a miner runs nothing whose nonce is used.  The logs of a well-run
transaction are `WellLogged`: each run ends with its event, the event stands for the
run, and before it, after an event or `BeforeExecution` of the entry point, comes what its
execution logged, with what contracts imitate in between.  `RunLogged`, `JoinedLogged`,
`FlattenedLogged` and `TransactionLogged` build that up from one run to all calls.
`WalkFinds` is the invariant of the walk over the logs, which does not ask who logged
what it finds: `startIndex` is the last log before the operation's own event that
looks like an event of another.  Together (`ReceiptOwn`, `Shows`) no other execution
lies between the two, whatever was imitated of others: that moves the cut later, and
so takes away only.  The property itself excepts an operation whose own event somebody in its
transaction has imitated (`NotImitated`), and promises no whole logs to one whose contracts
imitate events.  By its hash an operation is found by sender and nonce, which are
its own in a direct call (`AloneInCall`), and `UnpackedAgain` says that unpacking
undoes packing as far as the hash goes, and where `slice` fails.

**Prices and estimates** (`RpcProofs`), for any configuration, length and validity of
the queues, and for any answers of nodes, gas stations and oracles.  `QuotesHonoured`
is about a value that is not the one that was saved: `saveValue` replaces the last
value by a lower one for as long as it is valid, and forgets the first when the queue is
full.  `Kept` says of a queue that a value of no more than some bound is in a place
that cannot have been shifted out yet, by the number of values behind it and the times at
which they were saved; `Honours` adds that the bound is no more than the quoted price
after the percentage of `validateGasPrice` was taken.  Each way to a price saves before
it quotes (`QuotedNow`), and every save keeps `Honours` (`SavesKeep`).  The same of the
oracles' queues is `KeptSince`, from which `EstimatesHonoured` follows with the least or
the latest of the values kept and, for each kind of roll-up, with the direction in which its
`preVerificationGas` depends on the fees (`OptimismFalls`, `MantleGrows`,
`ArbitrumBounded`): inequalities between quotients of products, from `Quotients` and
`Products`.  Two hypotheses.  `PositiveAnswers`: no oracle answers 0, except for the fee
itself.  A queue answers 0 for "none", and on mantle a saved 0 is therefore asked for
again; TLC finds the estimate that is then refused.  For `EstimatedOpsFunded`,
`callGasLimitMultiplier >= 100`: the option's default is 100, and nothing in the code
refuses less.  TLC checks both for the constants of `prices`.

**Validation** (`RpcProofs`), for any operations, programs, windows, margins' clock, depth
of calls and number of instructions, and for both collectors.  `AcceptedInTime` is the
invariant `TimeInv`, with what the merged times are to each of the two (`MergedWithin`).
The other two compare the trace with what happened.  `StepFollows` says what one
step of the collector may do to the levels it keeps: add a level, or add to the last
one, but read a place only if that level has not written it; `SeenKeeps` says it of an
instruction with its operands.  `TraceInv` is then that the collector, if it expects
the entry point where it is (`Seeing`) and has not thrown, knows (`Knows`) every contract that
was run or looked at, every place that has been written, also by the frames that a
revert could return to, and that each value it read that is not the first one lies
behind a level that wrote in the same contract (`Honest`).  That is why
`StorageMapTrue` holds: the map takes a contract from the first level that accessed it.
If the collector is the wrong one, the last thing it noted is an entity's return, and
no operation is accepted at all.  `CodeChangeNoticed` follows with `CodeInv`: what was
hashed were all the contracts, and it is the code at the moment of the comparison that
the first hash is compared with, whatever a block changes before the second trace.

`VerdictExact` (theorem `VerdictDecided`) says that the parser, which sees only what the
collector kept, refuses exactly the operations whose contracts broke a rule.  It speaks
of the verdict alone, and is not inductive.  `VerdictInv` adds that as long as the
operation is traced, it `Tracks`: up to `Indistinct`, `broken` is empty if and only if every level of
the trace (`LevelsClean`) and every call as `parseCallStack` parses it so far
(`CallsClean`) follow the rules (`BrokenNoted`).  For a step to keep that, one must know
whose turn it is (`TurnsInv`), that the last level is that of the entity that
runs (`IsCurrent`) and each entity has one (`LevelsAre`), which slots the collector has
the preimages of (`LevelOk`), that it remembers the last opcode and what it looked at
(`RecentIs`), if the factory's level has the one `CREATE2` (`DeployInv`), and the
stack of calls that have not returned (`StackInv`): the fold over the calls is one step
further when a call is appended (`ParsedAppended`), so that a push and a pop can be
judged one by one.  `LevelExact` is the heart: an instruction makes
its level break a rule if and only if it is one that `broken` counts, whatever the
order of `GAS`, `EXTCODESIZE` and `ISZERO` before it, up to `GAS` before `CALLER`.  A revert
takes nothing out of the trace (`RevertTracks`).  Then the parser's own rules are compared with the levels and calls
(`BreaksExact`, `CallsJudged`, `AnswerJudged`).  There
is no hypothesis; what the parser cannot tell is in the property (`Indistinct`).  `GAS`
before `CALLER` is let through.  The parser takes the first call of the paymaster's
`validatePaymasterUserOp` for the entry point's, whoever makes it, and what it
returns for the paymaster's context; and it looks only at the first call into the entry
point, which it lets pass if the function is named `delegateAndRevert`.  Contracts may make
such calls.  After the first kind a context ([EREP-050]) may be missed, or seen where there is
none, after the second a later call into the entry point may be missed; every other rule
is still decided (`mistakable`; `Told` is what calls tell of a rule).
If v0.6 is traced with the other collector (`~ Seeing`), as the code does, the property says
nothing: that is the finding of `tracer_v06`.

*Technique.*  The library's induction theorems take an operator as a parameter,
which no prover here can instantiate.  What needs induction over a sequence or
a set is proved by looking for the least position, or the smallest set, where the
claim fails (`FirstPosition`, `UpTo`, `SubsetInduction` in `SequenceLemmas`); folds are
unfolded as the functions that `Folds` chooses.

*Assumptions.*  The hypotheses that were named with their theorems above, and otherwise
only the named ASSUMEs of the modules, which TLC evaluates in every run: types of the
options; wallets are different; an entry point runs a bundle's
operations, each once; different transactions have different hashes.  For receipts,
of what is external (`NoncesAssumption`, `OperationsAssumption`): an entry point is of one
version, runs only what is meant for it and no nonce twice; a transaction with the
selector of `handleOps` is one direct call; data are sequences; what contracts imitate
are whole logs with an entry point's topics, from addresses that are none (`ImitationsAssumption`).

*Only model-checked.*  Liveness and ENABLED: `StoresDrain` and its siblings,
`DueOperationsReleased`, that every caller is served and no wallet stays low.

## 5. Findings

* `nonce_key`: `nonceQueuer.ts:232` compares the entry point's nonce, whose upper
  192 bits are the key, with the 64-bit value of the operation's, so that only
  operations of key 0 are ever released.  The rest stay until they are too old.
* `tracer_v06`: `SafeValidator.ts:49` imports the collector of version 0.7 for both
  versions.  That collector takes depth 3 for the entry point's, which is depth 1
  when version 0.6 is simulated, and misses the answer.

Also seen, without a run, because no line of the repository promises anything else
or because a model of it would restate the line:

* `mempool.ts:679-699`: the comparator answers 0 for two senders and is no
  consistent order.  With operations in the order *key 1, (another sender), key 0*
  a sender's are considered in that order.  `ConsideredInOrder` is what holds, of
  neighbours.
* `mempool.ts:287-368`: the rival is removed before the limits are looked at.  They
  refuse a replacement with another nonce key, which it can be because both deploy the sender, if
  the queue of that key is full, with the default `mempoolMaxQueuedOps = 0` if it has
  one operation; the rival is then lost.  If two operations with one nonce disagree
  about deploying, an operation has two rivals, and one of them stays.
* `mempool.ts:743`, `:282`: an operation that is replaced while its second
  validation is awaited is bundled all the same, next to its replacement; two
  overlapping calls of `bundle()` can take an operation twice after it was resubmitted.
  It is then in two transactions, and `store.ts:119-141` removes the first entry that has
  its hash: when one of the two is settled, the entry of the other may go with it, whose
  wallet is then lost, while the settled one is still followed, although its wallet
  was given back.
* `mempool.ts:584`: an operation dropped by its second validation or for a banned
  entity gets no event and keeps "not_submitted"; so do four other ways to leave.
* `mempool.ts:380`: both limits admit one operation more than the option says.
* `mempool.ts:449`: without safe mode `shouldSkip` returns before it looks at the
  senders, so that a sender may be several times in a bundle.
* `mempool.ts:627`: an await outside the `try` loses the operations taken so far.
* `executor.ts:905`: for insufficient funds nothing is answered about the operations
  that were filtered out; they stay in the processing store.  `EveryOpAnswered`
  excludes this one case.
* `executor.ts:1119`: the innocent in a compressed bundle get a failure whose reason
  is undefined; `bundleCompressed` does not add the floor of `executor.ts:829`.
* `executor.ts:631`: the third underpriced attempt resubmits the operations of the
  conflicting transaction although nothing was sent.  `:984`: the recorded nonce
  and price are those of the first attempt.  `:857`: with `noProfitBundling` the
  recorded fees are not those that were sent.
* `executorManager.ts:505`: a transaction sent again after AA95 is followed by nobody,
  and its wallet is lost; so is the wallet of a call whose estimation throws, and of
  `:171-176`, where the call for the compressed operations throws after the ordinary
  bundle was sent and before its results are reported.
* `executorManager.ts:501-505`, `:833-895`: while the replacement after AA95 is awaited,
  the client can send its operations again and they can be bundled again.  `replaceSubmitted`
  then turns the new bundle's entry into one of the replacement, or `removeSubmitted`
  removes it, and the new bundle goes on with fewer operations or with none.
* `executorManager.ts:763`: an await in `handleBlock` that throws leaves
  `currentlyHandlingBlock` set, and no block is handled any more.
* `executorManager.ts:535`: the answer about an earlier block may overwrite what was
  found in a later one: "included" becomes "failed" if an earlier look, which saw nothing,
  is answered
  after it.
* `utils.ts:320`: the fees raised by FeeCapTooLow serve the estimation only.
* `nonceQueuer.ts:130`: the result of `mempool.add`, a tuple, is always true, so
  that a refused release is lost and logged as added.
* `reputationManager.ts:687`: the inclusion rate is an integer division, 0 for every
  entity that has failed once; `:503`: the clamp at 0 hides counts that do not match.
* `rpcHandler.ts:540`: the state overrides are passed in the place of the flag
  `addSenderBalanceOverride`.
* `BundlerCollectorTracerV07.ts:341-343`: `GAS` is allowed before what has `CALL` in
  its name, and so before `CALLER`.
* `TracerResultParserV07.ts:463-474`, `:663`: calls are found by the name of the
  function only (see section 4, Validation).
* `SafeValidator.ts:271`, `:280` (`:204`, `:213` for v0.6): code that changes between
  the comparison of the hashes and the second trace is traced and accepted, and was never hashed.
* `userop.ts:621-645`: `log.address` is never compared.  A contract that logs an event with the
  topics of `UserOperationEvent` or `UserOperationRevertReason` changes a receipt: with
  the operation's own hash it decides the success, the reason or the cut; with
  another's it cuts off the logs before it.  One with other data than the event has makes
  the parsing throw.
* `options.ts:125`: quotes are accepted for longer than documented (`HonouredFor`).
* `setupServer.ts:348`: `flushStuckTransactions` is not awaited and may cancel what
  the new process has sent; `:289`: refilling overlaps, and an error without Sentry
  ends the process.
* `userop.ts:139`: an operation with a factory or a paymaster and no data for it
  cannot be unpacked, so that it is not found by its hash (`ByHashFinds` says so).
* `TransactionsDisjoint` fails when one account is configured as two executors.

## 6. Not modelled

* Fees in `BundleOps` and `BundleTx`: a price that is too low is an outcome of sending.
* `flushStuckTransactions`, which runs before the model begins;
  `pimlico_sendUserOperationNow` and the compressed endpoints, which differ from
  `eth_sendUserOperation` in what they parse; the inflators, the binary searches of
  gas estimation and the entry points, which are contracts.
* `debug_bundler_setBundlingMode`: it stops the ticks of the timer, which need not come.
* Losses of Redis, metrics, logs, the server, the command line: no state of an
  operation.  `types/schemas.ts` and `types/contracts/*` are parsing and generated ABIs.
* Crashes: all state is in memory, so that a restart is `Init`.

## 7. What could be added

An abstract life of a user operation (received, pending, submitted, settled) that
`Mempool` without overlap implements; the composition of `BundleTx` with `SenderManager` in place of
`WalletPool`; fees in `BundleTx`, with the price a replacement starts from.
