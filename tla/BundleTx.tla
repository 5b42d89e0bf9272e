------------------------------ MODULE BundleTx ------------------------------
(***************************************************************************)
(* A bundle transaction and the wallet that signs it: Executor.bundle,     *)
(* sendHandleOpsTransaction and replaceTransaction of                      *)
(* src/executor/executor.ts, with what executorManager.ts does at each     *)
(* block to the transactions it follows.                                   *)
(*                                                                         *)
(* A bundle b is one call of Executor.bundle and the transaction that it   *)
(* and its replacements send.  It is followed as long as the mempool's     *)
(* submitted store has an entry with its transaction.  Wallets come from   *)
(* the pool that SenderManager implements.  Prices are left out: the node  *)
(* takes or refuses whatever it may.                                       *)
(*                                                                         *)
(* An operation is in one bundle after another: AA95 and conflicts take it *)
(* out of the submitted store while its transaction may still be sent, and *)
(* then it may come again, in another bundle.  Two calls do not hold it at *)
(* the same time: that is Mempool's SingleCustody, for calls of bundle()   *)
(* that do not overlap, and with it an operation has one submitted entry,  *)
(* which is the one that removeSubmitted and replaceSubmitted find.        *)
(***************************************************************************)
EXTENDS Naturals, FiniteSets

CONSTANTS
    Bundles, NoBundle,
    Operations,
    Wallets, NoWallet,
    Accounts, address,  \* the account of each wallet; two may have the same
    MaxNonce            \* bound: no account gets further than this nonce

ASSUME BundleAssumption ==
    /\ NoBundle \notin Bundles
    /\ NoWallet \notin Wallets
    /\ address \in [Wallets -> Accounts]
    /\ MaxNonce \in Nat

VARIABLES
    free, asking, owned,  \* the wallets, and those who wait for one
    pc,        \* where a bundle is
    nonce,     \* transactionInfo.transactionRequest.nonce
    request,   \* sendHandleOpsTransaction: request.nonce, attempts and
               \* isTransactionUnderPriced
    times,     \* transactionInfo.timesPotentiallyIncluded
    ops,       \* a bundle's operations: those it was called with, then
               \* transactionInfo.userOperationInfos
    entry,     \* the bundle that an operation's submitted entry names
    fate,      \* why one is not followed though it keeps its wallet
    stage,     \* handleBlock
    stalled,   \* a throw has left currentlyHandlingBlock set
    latest, pool, mined  \* the chain: nonces, pending, bundles in blocks

wallets == <<free, asking, owned>>
chain == <<latest, pool, mined>>
submitted == <<entry, fate>>
vars == <<wallets, pc, nonce, request, times, ops, submitted, stage, stalled, chain>>

Pool == INSTANCE WalletPool WITH Clients <- Bundles

Calling == {"parameters", "filtering", "sending", "sent"}
Handling == {"status", "price", "refiltering", "resending"}
PCs == {"idle", "waiting", "pending"} \cup Calling \cup Handling

Account(b) == address[owned[b]]

NewRequest == [nonce |-> 0, attempts |-> 0, underPriced |-> FALSE]

Init ==
    /\ Pool!Init
    /\ pc = [b \in Bundles |-> "idle"]
    /\ nonce = [b \in Bundles |-> 0]
    /\ request = [b \in Bundles |-> NewRequest]
    /\ times = [b \in Bundles |-> 0]
    /\ ops = [b \in Bundles |-> {}]
    /\ entry = [o \in Operations |-> NoBundle]
    /\ fate = [b \in Bundles |-> "none"]
    /\ stage = "idle"
    /\ stalled = FALSE
    /\ latest = [a \in Accounts |-> 0]
    /\ pool = {}
    /\ mined = {}

-----------------------------------------------------------------------------
(* The node.                                                               *)

Pending(a) == {p \in pool : p.account = a}

\* What eth_getTransactionCount answers, by nodes that may lag behind.
TransactionCounts(a) == latest[a]..(latest[a] + Cardinality(Pending(a)))

\* The pool, if the node takes b's transaction with nonce n: in place of one
\* with the same nonce.
Taken(b, n) ==
    {p \in pool : p.account # Account(b) \/ p.nonce # n}
      \cup {[account |-> Account(b), nonce |-> n, by |-> b]}

\* The next transaction of an account gets into a block.
Mine(p) ==
    /\ p.nonce = latest[p.account]
    /\ latest' = [latest EXCEPT ![p.account] = @ + 1]
    /\ pool' = pool \ {p}
    /\ mined' = mined \cup ({p.by} \ {NoBundle})
    /\ UNCHANGED <<wallets, pc, nonce, request, times, ops, submitted, stage, stalled>>

\* A pending transaction is forgotten.
Evict(p) ==
    /\ pool' = pool \ {p}
    /\ UNCHANGED <<wallets, pc, nonce, request, times, ops, submitted, stage, stalled,
                   latest, mined>>

-----------------------------------------------------------------------------
(* The submitted store.                                                    *)

Entries(b) == {o \in Operations : entry[o] = b}

followed == {b \in Bundles : Entries(b) # {}}

\* removeSubmitted for the operations S.
Without(S) == [o \in Operations |-> IF o \in S THEN NoBundle ELSE entry[o]]

\* The fates once the operations S have no entries: other bundles may have had
\* the last of theirs among them.
FateWithout(S, why) ==
    [b \in Bundles |-> IF b \in followed /\ Entries(b) \subseteq S THEN why ELSE fate[b]]

\* What mempool.process() may hand out: no call holds it, nor has one that
\* threw left it in the processing store.
Available ==
    {o \in Operations :
        /\ entry[o] = NoBundle
        /\ \A b \in Bundles : o \in ops[b] => /\ pc[b] \notin {"waiting"} \cup Calling
                                              /\ fate[b] \notin {"threw", "unreported"}}

-----------------------------------------------------------------------------
(* Executor.bundle, and sendToExecutor that calls it.                      *)

Goes(b, to) == pc' = [pc EXCEPT ![b] = to]

\* What is still pending is nobody's from then on.
Disowned(b, txs) == {[p EXCEPT !.by = IF @ = b THEN NoBundle ELSE @] : p \in txs}

\* The variables that only bundle b has are as at first.
Forgotten(b, txs) ==
    /\ pool' = Disowned(b, txs)
    /\ mined' = mined \ {b}
    /\ Goes(b, "idle")
    /\ nonce' = [nonce EXCEPT ![b] = 0]
    /\ request' = [request EXCEPT ![b] = NewRequest]
    /\ times' = [times EXCEPT ![b] = 0]
    /\ UNCHANGED <<stage, stalled, latest>>

\* Mutants: the entries stay, and the transaction is followed; the wallet does
\* not come back.
EndsFollowed(b, txs, S, why) ==
    /\ Pool!Give(b)
    /\ fate' = [FateWithout(S, why) EXCEPT ![b] = "none"]
    /\ ops' = [ops EXCEPT ![b] = {}]
    /\ Forgotten(b, txs)
    /\ UNCHANGED entry

EndsWithoutWallet(b, txs, S, why) ==
    /\ entry' = Without(S)
    /\ fate' = [FateWithout(S, why) EXCEPT ![b] = "none"]
    /\ pool' = Disowned(b, txs)
    /\ mined' = mined \ {b}
    /\ Goes(b, "pending")
    /\ UNCHANGED <<wallets, nonce, request, times, ops, stage, stalled, latest>>

\* markWalletProcessed, and what the callers do in the same turn of the event
\* loop: the operations S leave the submitted store and the bundle is over.
EndsWith(b, txs, S, why) ==
    /\ Pool!Give(b)
    /\ entry' = Without(S)
    /\ fate' = [FateWithout(S, why) EXCEPT ![b] = "none"]
    /\ ops' = [ops EXCEPT ![b] = {}]
    /\ Forgotten(b, txs)

\* A call ends: its operations are not submitted yet.
Ends(b) == EndsWith(b, pool, {}, "none")

\* A bundle that was submitted ends: all its operations leave the submitted
\* store, also those whose entry names another bundle.
Closes(b, txs) == EndsWith(b, txs, ops[b], "shared")

bundle(b) ==
    /\ pc[b] = "idle"
    /\ Pool!Ask(b)
    /\ \E S \in (SUBSET Available) \ {{}} : ops' = [ops EXCEPT ![b] = S]
    /\ Goes(b, "waiting")
    /\ UNCHANGED <<nonce, request, times, submitted, stage, stalled, chain>>

getWallet(b) ==
    /\ pc[b] = "waiting"
    /\ Pool!Take(b)
    /\ Goes(b, "parameters")
    /\ UNCHANGED <<nonce, request, times, ops, submitted, stage, stalled, chain>>

\* The gas price and the nonce, or an error.
Parameters(b) ==
    /\ pc[b] = "parameters"
    /\ \/ Ends(b)
       \/ /\ \E n \in TransactionCounts(Account(b)) :
                 nonce' = [nonce EXCEPT ![b] = n]
          /\ Goes(b, "filtering")
          /\ UNCHANGED <<wallets, request, times, ops, submitted, stage, stalled, chain>>

\* filterOpsAndEstimateGas: nothing can be sent, some can, or it throws.
Filter(b) ==
    /\ pc[b] = "filtering"
    /\ \/ Ends(b)
       \/ /\ \E S \in (SUBSET ops[b]) \ {{}} : ops' = [ops EXCEPT ![b] = S]
          /\ Goes(b, "sending")
          /\ request' = [request EXCEPT ![b].nonce = nonce[b]]
          /\ UNCHANGED <<wallets, nonce, times, submitted, stage, stalled, chain>>
       \/ /\ Goes(b, "pending")
          /\ fate' = [fate EXCEPT ![b] = "threw"]
          /\ UNCHANGED <<wallets, nonce, request, times, ops, entry, stage, stalled,
                         chain>>

\* handleTransactionUnderPriced: the operations that it resubmits.
conflictingOps(b, underPriced) ==
    {o \in Operations : /\ underPriced
                        /\ entry[o] \in Bundles
                        /\ Account(entry[o]) = Account(b)
                        /\ nonce[entry[o]] = request[b].nonce}

\* The transaction is sent.
SendSucceeds(b) ==
    /\ pc[b] = "sending"
    /\ request[b].nonce \in latest[Account(b)]..MaxNonce
    /\ pool' = Taken(b, request[b].nonce)
    /\ LET S == conflictingOps(b, request[b].underPriced)
       IN  entry' = Without(S) /\ fate' = FateWithout(S, "conflict")
    /\ Goes(b, "sent")
    /\ request' = [request EXCEPT ![b] = NewRequest]
    /\ UNCHANGED <<wallets, nonce, times, ops, stage, stalled, latest, mined>>

\* An error that is handled: another attempt, or after the third "Transaction
\* hash not assigned".
Attempt(b, n, underPriced) ==
    IF request[b].attempts < 2
    THEN /\ request' = [request EXCEPT ![b] =
                [nonce |-> n, attempts |-> @.attempts + 1,
                 underPriced |-> underPriced]]
         /\ UNCHANGED <<wallets, pc, nonce, times, ops, submitted, stage, stalled, chain>>
    ELSE EndsWith(b, pool, conflictingOps(b, underPriced), "conflict")

\* The transaction is not sent.  NonceTooLow and NonceTooHigh read the nonce
\* again; "replacement transaction underpriced" raises the fees; too little
\* gas and "no backends available" leave the nonce as it is.
SendFails(b) ==
    /\ pc[b] = "sending"
    /\ LET n == request[b].nonce
           Misplaced == n \notin TransactionCounts(Account(b))
       IN  \/ /\ Misplaced
              /\ \E m \in TransactionCounts(Account(b)) : Attempt(b, m, FALSE)
           \/ /\ \E p \in Pending(Account(b)) : p.nonce = n
              /\ Attempt(b, n, TRUE)
           \/ Attempt(b, n, FALSE)

\* An error that is not handled; it may come after the node has taken the
\* transaction.
SendThrows(b) ==
    /\ pc[b] = "sending"
    /\ \/ Ends(b)
       \/ /\ request[b].nonce \in latest[Account(b)]..MaxNonce
          /\ EndsWith(b, Taken(b, request[b].nonce), {}, "none")

\* sendToExecutor reports the results once the call for the compressed
\* operations is over too: markSubmitted; or that call has thrown.
Reported(b) ==
    /\ pc[b] = "sent"
    /\ Goes(b, "pending")
    /\ \/ /\ entry' = [o \in Operations |-> IF o \in ops[b] THEN b ELSE entry[o]]
          /\ UNCHANGED fate
       \/ /\ fate' = [fate EXCEPT ![b] = "unreported"]
          /\ UNCHANGED entry
    /\ UNCHANGED <<wallets, nonce, request, times, ops, stage, stalled, chain>>

-----------------------------------------------------------------------------
(* handleBlock.                                                            *)

\* The bundles bs enter a stage.
Enter(bs, to, at) ==
    /\ pc' = [b \in Bundles |-> IF b \in bs THEN at ELSE pc[b]]
    /\ stage' = to
    /\ UNCHANGED <<wallets, nonce, request, times, ops, submitted, stalled, chain>>

handleBlock ==
    /\ stage = "idle"
    /\ followed # {}
    /\ Enter(followed, "refresh", "status")

NextStage(from, to) ==
    /\ stage = from
    /\ ~ stalled
    /\ \A b \in Bundles : pc[b] \notin Handling
    /\ \E bs \in SUBSET followed : Enter(bs, to, "price")

GasPriceStage == NextStage("refresh", "gas_price")

\* The gas price that this stage starts with cannot be read.
GasPriceThrows ==
    /\ stage = "refresh"
    /\ \A b \in Bundles : pc[b] \notin Handling
    /\ stalled' = TRUE
    /\ UNCHANGED <<wallets, pc, nonce, request, times, ops, submitted, stage, chain>>

StuckStage == NextStage("gas_price", "stuck")

HandlingEnds ==
    /\ stage = "stuck"
    /\ ~ stalled
    /\ \A b \in Bundles : pc[b] \notin Handling
    /\ Enter({}, "idle", "idle")

\* getBundleStatus: pending, as far as the node knows; included or reverted;
\* or AA95, for which the operations leave the submitted store before the
\* transaction is sent again with the next nonce.
refreshTransactionStatus(b) ==
    /\ pc[b] = "status"
    /\ \/ /\ Goes(b, "pending")
          /\ UNCHANGED <<wallets, nonce, request, times, ops, submitted, stage, stalled,
                         chain>>
       \/ /\ b \in mined
          /\ Closes(b, pool)
       \/ /\ b \in mined
          /\ nonce' = [nonce EXCEPT ![b] = @ + 1]
          /\ entry' = Without(ops[b])
          /\ fate' = [FateWithout(ops[b], "shared") EXCEPT ![b] = "AA95"]
          /\ Goes(b, "price")
          /\ UNCHANGED <<wallets, request, times, ops, stage, stalled, chain>>

\* The third time, the bundle is given up.
PotentiallyIncluded(b) ==
    IF times[b] = 2
    THEN Closes(b, pool)
    ELSE /\ times' = [times EXCEPT ![b] = @ + 1]
         /\ Goes(b, "pending")
         /\ UNCHANGED <<wallets, nonce, request, ops, submitted, stage, stalled, chain>>

\* Executor.replaceTransaction: the gas price,
ReplacementPrice(b) ==
    /\ pc[b] = "price"
    /\ \/ Closes(b, pool)
       \/ /\ Goes(b, "refiltering")
          /\ UNCHANGED <<wallets, nonce, request, times, ops, submitted, stage, stalled,
                         chain>>

\* filterOpsAndEstimateGas again: nonce errors alone say that the operations
\* may be in a block,
RefilterOps(b) ==
    /\ pc[b] = "refiltering"
    /\ \/ Closes(b, pool)
       \/ PotentiallyIncluded(b)
       \/ /\ Goes(b, "resending")
          /\ UNCHANGED <<wallets, nonce, request, times, ops, submitted, stage, stalled,
                         chain>>

\* replaceSubmitted for the operations S of the new transaction, that changes
\* an entry, whichever bundle it names, and makes none; removeSubmitted for
\* the others.
Replaced(b, S) ==
    /\ ops' = [ops EXCEPT ![b] = S]
    /\ entry' = [o \in Operations |->
           IF o \in S /\ entry[o] # NoBundle THEN b
           ELSE IF o \in ops[b] THEN NoBundle ELSE entry[o]]
    /\ fate' = [FateWithout(ops[b], "shared") EXCEPT ![b] =
           IF \E o \in S : entry[o] # NoBundle THEN "none"
           ELSE IF fate[b] = "none" THEN "shared" ELSE fate[b]]

\* and the new transaction, with the recorded nonce.  An error may come after
\* the node has taken it.
ReplacementSent(b) ==
    /\ pc[b] = "resending"
    /\ \/ /\ nonce[b] \in latest[Account(b)]..MaxNonce
          /\ pool' = Taken(b, nonce[b])
          /\ \E S \in (SUBSET ops[b]) \ {{}} : Replaced(b, S)
          /\ Goes(b, "pending")
          /\ UNCHANGED <<wallets, nonce, request, times, stage, stalled, latest, mined>>
       \/ /\ nonce[b] \in latest[Account(b)]..MaxNonce
          /\ Closes(b, Taken(b, nonce[b]))
       \/ Closes(b, pool)
       \/ /\ nonce[b] < latest[Account(b)]
          /\ PotentiallyIncluded(b)

\* An await of handleBlock throws; its flag is never reset.
HandlerThrows(b) ==
    /\ pc[b] \in {"status", "refiltering"}
    /\ Goes(b, "pending")
    /\ stalled' = TRUE
    /\ UNCHANGED <<wallets, nonce, request, times, ops, submitted, stage, chain>>

-----------------------------------------------------------------------------

Call(b) == Parameters(b) \/ Filter(b) \/ SendSucceeds(b) \/ SendFails(b)
             \/ SendThrows(b) \/ Reported(b)

Handle(b) == refreshTransactionStatus(b) \/ ReplacementPrice(b)
               \/ RefilterOps(b) \/ ReplacementSent(b) \/ HandlerThrows(b)

Next ==
    \/ \E b \in Bundles : bundle(b) \/ getWallet(b) \/ Call(b) \/ Handle(b)
    \/ handleBlock \/ GasPriceStage \/ GasPriceThrows \/ StuckStage \/ HandlingEnds
    \/ \E p \in pool : Mine(p) \/ Evict(p)

Spec == Init /\ [][Next]_vars

-----------------------------------------------------------------------------

Fates == {"none", "threw", "unreported", "AA95", "conflict", "shared"}

TypeOK ==
    /\ free \in SUBSET Wallets
    /\ asking \in SUBSET Bundles
    /\ owned \in [Bundles -> Wallets \cup {NoWallet}]
    /\ pc \in [Bundles -> PCs]
    /\ nonce \in [Bundles -> Nat]
    /\ request \in [Bundles -> [nonce : Nat, attempts : 0..2,
                                underPriced : BOOLEAN]]
    /\ times \in [Bundles -> 0..2]
    /\ ops \in [Bundles -> SUBSET Operations]
    /\ entry \in [Operations -> Bundles \cup {NoBundle}]
    /\ fate \in [Bundles -> Fates]
    /\ stage \in {"idle", "refresh", "gas_price", "stuck"}
    /\ stalled \in BOOLEAN
    /\ latest \in [Accounts -> 0..MaxNonce + 1]
    /\ pool \in SUBSET [account : Accounts, nonce : 0..MaxNonce,
                        by : Bundles \cup {NoBundle}]
    /\ mined \in SUBSET Bundles

\* Bundles that need their wallet: the calls and the followed transactions.
Busy == followed \cup {b \in Bundles : pc[b] \in Calling \cup Handling}

\* A wallet signs for one bundle at a time: as long as a call or a followed
\* transaction needs it, it is not available and nobody else has it, although
\* it is given back in many places and while other awaits are open, and the
\* operations that decide who is followed may pass from bundle to bundle.
OneTransactionPerWallet ==
    /\ \A b \in Busy : owned[b] \in Wallets \ free
    /\ \A b, c \in Busy : owned[b] = owned[c] => b = c

\* A wallet that is not available belongs to a bundle that will give it back,
\* or was lost in one of five ways: filterOpsAndEstimateGas threw; the call for
\* the compressed operations threw after this one had sent its own; AA95;
\* another bundle's conflict took the operations; or they were shared, since
\* AA95 or a conflict, with a bundle that took their entries along.
WalletsAccounted ==
    \A w \in Wallets \ free :
        \E b \in Bundles : owned[b] = w /\ (b \in Busy \/ fate[b] # "none")
=============================================================================
