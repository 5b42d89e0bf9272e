------------------------------ MODULE MCRefill ------------------------------
(* SenderManager and Refill with two wallets of three configured: four      *)
(* clients while nobody refills the wallets, one while two calls do.        *)
EXTENDS Refill

CONSTANTS w1, w2, w3, c1, c2, c3, c4, r1, r2

MCKeys == <<w1, w2, w3>>
MCClients == {c1, c2, c3, c4}
MCRefills == {r1, r2}
MCCosts == {4}

MCNext == RefillNext /\ (refillingWallets => \A c \in MCClients \ {c1} : pc'[c] = "idle")

MCSpec == RefillInit /\ [][MCNext]_<<vars, refillVars>> /\ Fairness /\ RefillFairness
=============================================================================
