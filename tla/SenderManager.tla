--------------------------- MODULE SenderManager ---------------------------
(***************************************************************************)
(* The executor wallets of src/executor/senderManager.ts: an array of      *)
(* available wallets guarded by a counting semaphore of async-mutex.       *)
(*                                                                         *)
(* A client is one call that needs a wallet: Executor.bundle and           *)
(* bundleCompressed (the wallet comes back when the bundle is settled) or  *)
(* SafeValidator.getCodeHashes (the wallet comes back after an eth_call).  *)
(* getWallet awaits twice, so that other calls run between the three       *)
(* parts of it: waitForUnlock, acquire and availableWallets.shift().       *)
(***************************************************************************)
EXTENDS Naturals, Sequences, FiniteSets

CONSTANTS
    ExecutorPrivateKeys,  \* the configured wallets, in order
    MaxExecutors,         \* --max-executors; as long as the list if unset
    Clients,
    NoWallet

Elements(s) == {s[i] : i \in 1..Len(s)}

Distinct(s) == \A i, j \in 1..Len(s) : s[i] = s[j] => i = j

ASSUME SenderAssumption ==
    /\ ExecutorPrivateKeys \in Seq(Elements(ExecutorPrivateKeys))
    /\ Distinct(ExecutorPrivateKeys)
    /\ MaxExecutors \in Nat
    /\ IsFiniteSet(Clients)
    /\ NoWallet \notin Elements(ExecutorPrivateKeys)

\* The wallets the constructor keeps.
wallets ==
    IF Len(ExecutorPrivateKeys) > MaxExecutors
    THEN SubSeq(ExecutorPrivateKeys, 1, MaxExecutors)
    ELSE ExecutorPrivateKeys

Wallets == Elements(wallets)

VARIABLES
    availableWallets,  \* the array; shift takes the head, push appends
    value,             \* the semaphore's counter
    queue,             \* clients inside acquire(), in order of arrival
    pc,                \* where each client is in getWallet
    held               \* the wallet each client was given

vars == <<availableWallets, value, queue, pc, held>>

At(l) == {c \in Clients : pc[c] = l}

Init ==
    /\ availableWallets = wallets
    /\ value = Len(wallets)
    /\ queue = <<>>
    /\ pc = [c \in Clients |-> "idle"]
    /\ held = [c \in Clients |-> NoWallet]

-----------------------------------------------------------------------------
(* async-mutex.  dispatch lets as many queued clients through as the       *)
(* counter allows and, if some of it is left, wakes every client that      *)
(* waits in waitForUnlock.                                                 *)

Granted(q, v) == IF v < Len(q) THEN v ELSE Len(q)

dispatch(q, v, at) ==
    LET n == Granted(q, v)
        through == {q[i] : i \in 1..n}
    IN  /\ queue' = SubSeq(q, n + 1, Len(q))
        /\ value' = v - n
        /\ pc' = [c \in Clients |->
                    CASE c \in through -> "granted"
                      [] c \notin through /\ at[c] = "waiting" /\ v - n > 0
                           -> "unlocked"
                      [] OTHER -> at[c]]

\* await semaphore.waitForUnlock()
waitForUnlock(c) ==
    /\ pc[c] = "idle"
    /\ dispatch(queue, value, [pc EXCEPT ![c] = "waiting"])
    /\ UNCHANGED <<availableWallets, held>>

\* Mutant: the permit is not taken.
acquireWithoutPermit(c) ==
    /\ pc[c] = "unlocked"
    /\ pc' = [pc EXCEPT ![c] = "granted"]
    /\ UNCHANGED <<availableWallets, value, queue, held>>

\* await semaphore.acquire()
acquire(c) ==
    /\ pc[c] = "unlocked"
    /\ dispatch(Append(queue, c), value, [pc EXCEPT ![c] = "queued"])
    /\ UNCHANGED <<availableWallets, held>>

\* The rest of getWallet: shift the array; release and throw if it is empty.
getWallet(c) ==
    /\ pc[c] = "granted"
    /\ IF availableWallets = <<>>
       THEN /\ dispatch(queue, value + 1, [pc EXCEPT ![c] = "idle"])
            /\ UNCHANGED <<availableWallets, held>>
       ELSE /\ held' = [held EXCEPT ![c] = Head(availableWallets)]
            /\ availableWallets' = Tail(availableWallets)
            /\ pc' = [pc EXCEPT ![c] = "holding"]
            /\ UNCHANGED <<value, queue>>

\* Mutant: the semaphore is not released.
PushNoRelease(c) ==
    /\ availableWallets' = Append(availableWallets, held[c])
    /\ pc' = [pc EXCEPT ![c] = "idle"]
    /\ UNCHANGED <<value, queue>>

\* What pushWallet does to the array and the semaphore.
Push(c) ==
    /\ availableWallets' = Append(availableWallets, held[c])
    /\ dispatch(queue, value + 1, [pc EXCEPT ![c] = "idle"])

\* The end of getCodeHashes.
pushWallet(c) ==
    /\ pc[c] = "holding"
    /\ Push(c)
    /\ held' = [held EXCEPT ![c] = NoWallet]

\* Mutant: the guard against pushing twice reads the wrong way round.
markWalletProcessedInverted(c) ==
    /\ pc[c] = "holding"
    /\ pc' = [pc EXCEPT ![c] = "idle"]
    /\ availableWallets' = Append(Append(availableWallets, held[c]), held[c])
    /\ held' = [held EXCEPT ![c] = NoWallet]
    /\ UNCHANGED <<value, queue>>

\* The end of a bundle: pushes only a wallet that is not in the array.
markWalletProcessed(c) ==
    /\ pc[c] = "holding"
    /\ IF held[c] \notin Elements(availableWallets)
       THEN Push(c)
       ELSE /\ pc' = [pc EXCEPT ![c] = "idle"]
            /\ UNCHANGED <<availableWallets, value, queue>>
    /\ held' = [held EXCEPT ![c] = NoWallet]

\* The caller throws between getWallet and the call that returns the wallet.
Abandon(c) ==
    /\ pc[c] = "holding"
    /\ pc' = [pc EXCEPT ![c] = "idle"]
    /\ held' = [held EXCEPT ![c] = NoWallet]
    /\ UNCHANGED <<availableWallets, value, queue>>

Next ==
    \E c \in Clients :
        \/ waitForUnlock(c)
        \/ acquire(c)
        \/ getWallet(c)
        \/ pushWallet(c)
        \/ markWalletProcessed(c)
        \/ Abandon(c)

Spec == Init /\ [][Next]_vars

\* A resolved promise is continued, and a client that holds a wallet
\* returns it in the end, unless it throws.
Fairness ==
    \A c \in Clients : /\ WF_vars(acquire(c))
                       /\ WF_vars(getWallet(c))
                       /\ WF_vars(pushWallet(c) \/ markWalletProcessed(c))

FairSpec == Spec /\ Fairness

-----------------------------------------------------------------------------

\* The shape of every variable.
TypeOK ==
    /\ availableWallets \in Seq(Wallets)
    /\ value \in Nat
    /\ queue \in Seq(Clients)
    /\ pc \in [Clients -> {"idle", "waiting", "unlocked", "queued",
                           "granted", "holding"}]
    /\ held \in [Clients -> Wallets \cup {NoWallet}]

\* "should never happen because of semaphore": a client the semaphore let
\* through always finds a wallet in the array, however the calls interleave
\* and whoever takes the head in between.
NoMoreWalletsNeverThrown ==
    Cardinality(At("granted")) =< Len(availableWallets)

\* No two clients were given the same wallet, and no wallet a client holds
\* can be given to another.
WalletsExclusive ==
    /\ Distinct(availableWallets)
    /\ \A c \in At("holding") : held[c] \notin Elements(availableWallets)
    /\ \A c, d \in At("holding") : held[c] = held[d] => c = d

\* A wakeup is not lost: while the semaphore has permits left nobody sleeps
\* in waitForUnlock or in acquire's queue.
NoLostWakeup ==
    value > 0 => At("waiting") \cup At("queued") = {}

\* The wallets whose holder has thrown: none comes back.
Lost == Wallets \ (Elements(availableWallets) \cup {held[c] : c \in Clients})

\* As long as one wallet is left, every call that asks for one gets one, in
\* spite of the clients that enter acquire() while it still sleeps in
\* waitForUnlock.
EveryClientServed ==
    \A c \in Clients :
        pc[c] = "waiting" ~> pc[c] = "holding" \/ Lost = Wallets

Pool == INSTANCE WalletPool WITH
            free   <- Elements(availableWallets),
            asking <- At("waiting") \cup At("unlocked") \cup At("queued")
                        \cup At("granted"),
            owned  <- held

\* The array and the semaphore implement the abstract pool.
ImplementsPool == Pool!Spec
=============================================================================
