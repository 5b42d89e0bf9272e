----------------------------- MODULE MCNonceKey -----------------------------
(* Admission with the second operation of a nonce key other than 0.        *)
EXTENDS Admission

CONSTANTS c1, p1, alice, k1, EP

Key == 1

MCOps == {k1}
MCUserOp ==
    [o \in MCOps |->
        [sender |-> alice, nonceKey |-> Key, nonceValue |-> 1, maxFee |-> 10,
         maxPriorityFee |-> 10, gas |-> 1, prefund |-> 1, entryPoint |-> EP,
         paymaster |-> NoEntity, factory |-> NoEntity]]

MCAddresses == {alice}
None == {}

\* Bounds: the operation is queued and seen once at a time, and two nonces
\* are used.
Bounded ==
    /\ \A s \in Slots : nonce'[s] =< 2
    /\ Len(queue') =< 1
    /\ uncounted'[alice] =< 1 /\ entityCount'[alice] =< 1
    /\ entries'[EP][alice].opsSeen =< 1
=============================================================================
