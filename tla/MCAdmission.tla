---------------------------- MODULE MCAdmission ----------------------------
(* Admission with operations of Alice in a row, of which the first deploys *)
(* her account, a rival, and one of Bob.                                   *)
EXTENDS Admission

CONSTANTS c1, c2, p1, p2, alice, bob, a0, a1, a1x, a2, b0, pm, fac, EP

Op(sender, value, fee, paymaster) ==
    [sender |-> sender, nonceKey |-> 0, nonceValue |-> value, maxFee |-> fee,
     maxPriorityFee |-> fee, gas |-> 1, prefund |-> 1, entryPoint |-> EP,
     paymaster |-> paymaster, factory |-> NoEntity]

MCOps == {a0, a1, a1x, a2, b0}
AllOps == (a0  :> [Op(alice, 0, 10, NoEntity) EXCEPT !.factory = fac])
       @@ (a1  :> Op(alice, 1, 10, NoEntity))
       @@ (a1x :> Op(alice, 1, 11, NoEntity))
       @@ (a2  :> Op(alice, 2, 10, NoEntity))
       @@ (b0  :> Op(bob, 0, 10, pm))
MCUserOp == [o \in MCOps |-> AllOps[o]]

MCAddresses == {alice, bob, pm, fac}
None == {}
MCReputations == {[opsSeen |-> 2, opsIncluded |-> 0]}

Symmetry == Permutations(Clients) \cup Permutations(Processes)

Known ==
    {request[c].op : c \in {d \in Clients : request[d] # Idle}}
        \cup ToSet(outstanding) \cup busy \cup screening

Requests == Cardinality({c \in Clients : request[c] # Idle})
Fetching == Cardinality({p \in Processes : process[p] # Idle})

\* Only the operations of o: what is known of others is as at first.
Only(o) ==
    /\ Known' \subseteq o
    /\ \A e \in Addresses : (\A p \in o : Roles(p, e) = 0) =>
           /\ entries'[EP][e] = NoEntries[EP][e]
           /\ entityCount'[e] = 0
           /\ uncounted'[e] = 0
    /\ \A s \in Slots \ {Slot(p) : p \in o} : nonce'[s] = 0

\* Alice is seen once or twice, her factory once, and nothing else is.
SeenOnly ==
    /\ \A e \in {alice, fac} : entries'[EP][e].opsIncluded = 0
    /\ entries'[EP][alice].opsSeen =< 2
    /\ entries'[EP][fac].opsSeen =< 1

\* Bounds: one nonce is used, two operations are queued, and there are
\* Alice's operations, one of them bundled at a time, with one request and a
\* call of the nonce queue's process(), or two calls; or her rivals with two
\* requests and neither queue nor bundles; or one long after another; or Bob's
\* standing changes, one request at a time.
Bounded ==
    /\ \A s \in Slots : nonce'[s] =< 1
    /\ Len(queue') =< 2
    /\ \A e \in Addresses : uncounted'[e] =< 2 /\ entityCount'[e] =< 3
    /\ \/ /\ Only({a0, a1})
          /\ SeenOnly
          /\ entityCount'[alice] =< 1
          /\ uncounted'[alice] =< 1
          /\ Requests' =< 1
          /\ Requests' + Fetching' =< 2
          /\ Cardinality(screening' \cup busy') =< 1
       \/ /\ Only({a0, a1, a1x})
          /\ queue' = <<>> /\ Fetching' = 0
          /\ busy' = {} /\ screening' = {} /\ uncounted'[alice] = 0
          /\ SeenOnly
       \/ /\ Only({a0, a2})
          /\ busy' = {} /\ uncounted'[alice] = 0
          /\ queue' = <<>> /\ Fetching' = 0
          /\ SeenOnly
          /\ Requests' =< 1
       \/ /\ Only({b0})
          /\ queue' = <<>> /\ Fetching' = 0
          /\ Requests' =< 1
          /\ \A e \in Addresses : entries'[EP][e].opsSeen =< 3
=============================================================================
