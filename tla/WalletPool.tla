----------------------------- MODULE WalletPool -----------------------------
(***************************************************************************)
(* What the executor promises its callers about executor wallets, without  *)
(* saying how: a client asks for a wallet, is given one nobody else holds, *)
(* and gives it back.  SenderManager implements it with an array and a     *)
(* semaphore.                                                              *)
(***************************************************************************)
EXTENDS FiniteSets

CONSTANTS Wallets, Clients, NoWallet

VARIABLES free, asking, owned

vars == <<free, asking, owned>>

Init == /\ free = Wallets
        /\ asking = {}
        /\ owned = [c \in Clients |-> NoWallet]

Ask(c) == /\ c \notin asking
          /\ owned[c] = NoWallet
          /\ asking' = asking \cup {c}
          /\ UNCHANGED <<free, owned>>

Take(c) == /\ c \in asking
           /\ \E w \in free : /\ owned' = [owned EXCEPT ![c] = w]
                              /\ free' = free \ {w}
           /\ asking' = asking \ {c}

Give(c) == /\ owned[c] # NoWallet
           /\ free' = free \cup {owned[c]}
           /\ owned' = [owned EXCEPT ![c] = NoWallet]
           /\ UNCHANGED asking

\* A client that never gives its wallet back; the wallet is gone.
Lose(c) == /\ owned[c] # NoWallet
           /\ owned' = [owned EXCEPT ![c] = NoWallet]
           /\ UNCHANGED <<free, asking>>

Next == \E c \in Clients : Ask(c) \/ Take(c) \/ Give(c) \/ Lose(c)

Spec == Init /\ [][Next]_vars
=============================================================================
