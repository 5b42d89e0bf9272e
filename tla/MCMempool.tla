----------------------------- MODULE MCMempool -----------------------------
(* Mempool with a few user operations of two senders.                      *)
EXTENDS Mempool

CONSTANTS r1, r2, alice, bob, carol, a1, a1x, a2, b1, b2, c1, c2, c2x,
          pm, fac, EP, EP2

\* Alice's a1 and a1x have the same nonce, and a1x pays enough to replace a1.
Op(sender, key, nonce, fee, gas, paymaster, factory, ep) ==
    [sender |-> sender, nonceKey |-> key, nonceValue |-> nonce, maxFee |-> fee,
     maxPriorityFee |-> fee, gas |-> gas, prefund |-> 2, entryPoint |-> ep,
     paymaster |-> paymaster, factory |-> factory]

\* Alice's a2 has a key of its own, and the smaller nonce.  a1 and b1 fit into a
\* bundle, a2 and b1 do not, nor b2 alone.  Carol's c1 and c2 deploy her; c2x has
\* the nonce of c2 and does not.
AllOps == (a1  :> Op(alice, 0, 2, 10, 2, pm, NoEntity, EP))
       @@ (a1x :> Op(alice, 0, 2, 11, 3, NoEntity, NoEntity, EP))
       @@ (a2  :> Op(alice, 1, 1, 10, 3, NoEntity, NoEntity, EP))
       @@ (b1  :> Op(bob, 0, 1, 10, 3, pm, NoEntity, EP))
       @@ (b2  :> Op(bob, 0, 2, 10, 6, pm, NoEntity, EP2))
       @@ (c1  :> Op(carol, 0, 1, 10, 2, NoEntity, fac, EP))
       @@ (c2  :> Op(carol, 1, 2, 11, 2, NoEntity, fac, EP))
       @@ (c2x :> Op(carol, 1, 2, 10, 2, NoEntity, NoEntity, EP))

Choose(S) == [o \in S |-> AllOps[o]]

MCBalance == [e \in Entities |-> 2]
None == {}

BlockOps == {a1, a1x, b1}
BlockUserOp ==
    [o \in BlockOps |-> [AllOps[o] EXCEPT !.paymaster = IF o = b1 THEN pm ELSE NoEntity]]

LiveOps == {a2, b2}
LiveUserOp == [o \in LiveOps |-> [AllOps[o] EXCEPT !.paymaster = NoEntity]]

BundleOps == {a1, a1x, a2, b1, b2, c1, c2, c2x}
BundleUserOp == Choose(BundleOps)

Idle(r) == run[r] = NewRun

UnderPriced == todo # <<>> /\ Head(todo).kind = "underpriced"

\* Bound: no block arrives, and what comes is either two rivals, with two calls
\* of bundle() at once and wallets that are shared; or Alice's two keys and Bob;
\* or Bob's two; or Carol's three, whose entities keep their standing, before
\* any of them is bundled, or two of them and one of Bob's.
NoBlocks ==
    /\ phase' = "idle"
    /\ UnderPriced' => Known' \subseteq {a1, a1x}
    /\ reputation'[fac] = "ok"
    /\ \/ Known' \subseteq {a1, a1x} /\ reputation'[pm] = "ok"
       \/ Known' \subseteq {a1, a2, b1} /\ Idle(r2)'
       \/ /\ Known' \subseteq {b1, b2} \/ Known' \subseteq {b1, c1, c2}
          /\ Idle(r2)'
          /\ reputation'[pm] = "ok"
       \/ /\ Known' \subseteq {c1, c2, c2x}
          /\ Idle(r1)' /\ Idle(r2)'
          /\ reputation'[pm] = "ok"

\* Bound: the paymaster keeps its standing, which admission and bundling look at.
Standing == reputation'[pm] = "ok"

\* Bound: one transaction that reverted is watched at a time, and none of two
\* operations that AA95 concerns, nor has an await thrown then.
OneTrouble ==
    /\ Cardinality(watching) =< 1
    /\ resending # {} \/ overtaken # {} =>
           Known \subseteq {a1, b1} /\ watching = {} /\ ~ stalled

\* Bound: nothing is submitted again before AA95's replacement ends.
NoneOvertaken == overtaken' = {}
=============================================================================
