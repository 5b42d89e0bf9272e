------------------------------- MODULE Refill -------------------------------
(***************************************************************************)
(* SenderManager.validateAndRefillWallets: the utility account tops up the *)
(* executor wallets that are in the array, while clients take wallets out, *)
(* spend from them and bring them back.                                    *)
(*                                                                         *)
(* setupServer.ts starts a call at each interval and does not wait for the *)
(* one before, so that several calls run at once, each on the balances it  *)
(* has read.  A call that throws rejects a promise nobody handles: here it *)
(* ends, as it does when Sentry is configured.                             *)
(***************************************************************************)
EXTENDS SenderManager, FiniteSetsExt

CONSTANTS
    Refills,             \* the calls that may run at once
    minExecutorBalance,
    Funds,               \* of the utility account at the start
    StartBalance,        \* of the wallets then
    Costs                \* what a transaction of an executor may cost

ASSUME RefillAssumption ==
    /\ IsFiniteSet(Refills)
    /\ minExecutorBalance \in Nat \ {0}
    /\ Funds \in Nat
    /\ StartBalance \in Nat
    /\ Costs \subseteq Nat

VARIABLES
    balance,               \* of each wallet
    utility,               \* of the utility account
    refillingWallets,      \* an option
    refillHelperContract,  \* whether one is configured
    call,                  \* where each call is
    overlapped             \* whether two calls have run at once

options == <<refillingWallets, refillHelperContract>>

refillVars == <<balance, utility, options, call, overlapped>>

Idle == [at |-> "idle", funds |-> 0, asked |-> {}, missing |-> <<>>]

\* What a wallet that is refilled should have.
Target == (minExecutorBalance * 6) \div 5

RefillInit ==
    /\ Init
    /\ balance = [w \in Wallets |-> StartBalance]
    /\ utility = Funds
    /\ refillingWallets \in BOOLEAN
    /\ refillHelperContract \in BOOLEAN /\ (refillHelperContract => refillingWallets)
    /\ call = [r \in Refills |-> Idle]
    /\ overlapped = FALSE

----------------------------------------------------------------------------
(* One call *)

Refilled(r, c) == call' = [call EXCEPT ![r] = c]

\* The interval: the utility account's balance is asked for, and upon the
\* answer that of each wallet in the array, if there is any.
validateAndRefillWallets(r) ==
    /\ refillingWallets
    /\ call[r].at = "idle"
    /\ availableWallets # <<>>
    /\ Refilled(r, [Idle EXCEPT !.at = "wallets", !.funds = utility,
                                !.asked = Elements(availableWallets)])
    /\ overlapped' = (overlapped \/ \E q \in Refills \ {r} : call[q].at # "idle")
    /\ UNCHANGED <<balance, utility, options, vars>>

\* Mutant: the wallet is given the whole target.
wholeTarget(b) == Target

missingBalance(b) == Target - b

\* Mutant: only an empty wallet.
OnlyEmpty(b) == b = 0

TooLow(b) == b < minExecutorBalance

total(missing) == MapThenSumSet(LAMBDA w : missing[w], DOMAIN missing)

\* Mutant: each wallet's need is compared with the funds, not their sum.
AffordableEach(funds, missing) == \A w \in DOMAIN missing : funds >= missing[w]

Affordable(funds, missing) == funds >= (total(missing) * 11) \div 10

\* What is left of a call that has read the balance of w: the last answer
\* decides whether anything is sent.
AfterReading(c, w) ==
    LET missing == IF TooLow(balance[w])
                   THEN [x \in {w} \cup DOMAIN c.missing |->
                            IF x = w THEN missingBalance(balance[w]) ELSE c.missing[x]]
                   ELSE c.missing
        read == [c EXCEPT !.asked = @ \ {w}, !.missing = missing]
    IN  CASE c.asked # {w} -> read
          [] c.asked = {w} /\ DOMAIN missing # {} /\ Affordable(c.funds, missing)
               -> [read EXCEPT !.at = "sending"]
          [] OTHER -> Idle

ReadWallet(r, w) ==
    /\ call[r].at = "wallets"
    /\ w \in call[r].asked
    /\ Refilled(r, AfterReading(call[r], w))
    /\ UNCHANGED <<balance, utility, options, overlapped, vars>>

\* Any of the answers, and the gas price, may be an error.
Throws(r) ==
    /\ call[r].at # "idle"
    /\ Refilled(r, Idle)
    /\ UNCHANGED <<balance, utility, options, overlapped, vars>>

\* One transaction, and its receipt: by the helper contract to all, without
\* it to one wallet after the other.  The node refuses it for lack of funds.
Send(r, ws) ==
    /\ call[r].at = "sending"
    /\ ws # {} /\ ws \subseteq DOMAIN call[r].missing
    /\ IF refillHelperContract THEN ws = DOMAIN call[r].missing ELSE \E w \in ws : ws = {w}
    /\ LET due == total([w \in ws |-> call[r].missing[w]])
           rest == DOMAIN call[r].missing \ ws
       IN  IF utility >= due
           THEN /\ utility' = utility - due
                /\ balance' = [w \in Wallets |->
                        balance[w] + IF w \in ws THEN call[r].missing[w] ELSE 0]
                /\ Refilled(r, IF rest = {} THEN Idle
                               ELSE [call[r] EXCEPT !.missing = [w \in rest |-> @[w]]])
           ELSE /\ Refilled(r, Idle)
                /\ UNCHANGED <<balance, utility>>
    /\ UNCHANGED <<options, overlapped, vars>>

----------------------------------------------------------------------------

\* A transaction of a client's wallet is mined; of no interest when nobody
\* refills the wallets.
Spend(c) ==
    /\ refillingWallets
    /\ pc[c] = "holding"
    /\ \E cost \in Costs :
            /\ cost <= balance[held[c]]
            /\ balance' = [balance EXCEPT ![held[c]] = @ - cost]
    /\ UNCHANGED <<utility, options, call, overlapped, vars>>

Clientele == Next /\ UNCHANGED refillVars

RefillStep(r) ==
    \/ \E w \in Wallets : ReadWallet(r, w)
    \/ \E ws \in SUBSET Wallets : Send(r, ws)

RefillNext ==
    \/ Clientele
    \/ \E c \in Clients : Spend(c)
    \/ \E r \in Refills : \/ validateAndRefillWallets(r)
                          \/ RefillStep(r)
                          \/ Throws(r)

\* The interval keeps calling, the node answers, and in the end without
\* errors.
RefillFairness ==
    /\ \A r \in Refills : /\ WF_<<vars, refillVars>>(validateAndRefillWallets(r))
                          /\ WF_<<vars, refillVars>>(RefillStep(r))
    /\ <>[][\A r \in Refills : Throws(r) => RefillStep(r)]_<<vars, refillVars>>

RefillSpec ==
    RefillInit /\ [][RefillNext]_<<vars, refillVars>> /\ Fairness /\ RefillFairness

----------------------------------------------------------------------------

\* The funds were compared with the sum of what is missing before anything
\* is sent, so that they do not run out half-way; two calls at once compare
\* the same funds.
FundsSuffice ==
    ~ overlapped =>
        \A r \in Refills : call[r].at = "sending" => utility >= total(call[r].missing)

\* What was missing when it was read is still not too much when it arrives,
\* for a wallet only spends meanwhile; each call that runs at the same time
\* may add as much once more.
NotOverfilled ==
    \A w \in Wallets :
        balance[w] <= Target * (IF overlapped THEN Cardinality(Refills) ELSE 1)

\* Refilling pays no more than there is, and gives no more than is missing,
\* although it sends on balances it read some awaits ago.
RefillsWithinMeans == FundsSuffice /\ NotOverfilled

Low == {w \in Wallets : balance[w] < minExecutorBalance}

\* A wallet that is low does not stay low while it is in the array and the
\* utility account could pay for all the low ones: a call that read the
\* balances before it was low, or that throws, is followed by another.
LowWalletsRefilled ==
    \A w \in Wallets :
        refillingWallets /\ w \in Low ~>
            \/ w \notin Low
            \/ w \notin Elements(availableWallets)
            \/ ~ Affordable(utility, [x \in Low |-> missingBalance(balance[x])])
=============================================================================
