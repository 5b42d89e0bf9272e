---------------------------- MODULE MCBundleTx ----------------------------
(* Two bundles, two operations, and two wallets of one account.            *)
EXTENDS BundleTx, TLC

CONSTANTS b1, b2, w1, w2, acc, o1, o2

MCBundles == {b1, b2}
MCAccounts == {acc}
SameAddress == w1 :> acc @@ w2 :> acc

\* The bundles, the wallets of one account and the operations are alike.
Symmetry ==
    Permutations(Bundles) \cup Permutations(Wallets) \cup Permutations(Operations)
=============================================================================
