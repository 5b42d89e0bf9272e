----------------------------- MODULE Admission -----------------------------
(***************************************************************************)
(* How a user operation gets into the mempool: addToMempoolIfValid of      *)
(* src/rpc/rpcHandler.ts, the nonce queue of src/rpc/nonceQueuer.ts, and   *)
(* the reputation that the first checks and both change, with the add() of *)
(* the mempool they call.                                                  *)
(*                                                                         *)
(* What the bundler does with an operation once it is in the mempool is    *)
(* module Mempool; here it is taken, and included, refused or put back.    *)
(* Validation and the gas prices are external: an await that throws.       *)
(*                                                                         *)
(* A nonce is read while other code runs, and nonces only grow: what the   *)
(* node answers lies between the nonce when it was asked, `low', and now.  *)
(***************************************************************************)
EXTENDS Reputation

CONSTANTS
    Clients,       \* requests that are handled at the same time
    Processes,     \* calls of the nonce queue's process() at the same time
    NonceSpace,    \* 2^64: a nonce is its key times this, plus its value
    maxAhead,      \* 10
    dangerousSkipUserOperationValidation,
    enableDebugEndpoints,
    SetReputations \* what debug_bundler_setReputation may set

ASSUME AdmissionAssumption ==
    /\ NonceSpace \in Nat \ {0}
    /\ \A o \in Ops : userOp[o].nonceValue < NonceSpace
    /\ maxAhead \in Nat
    /\ dangerousSkipUserOperationValidation \in BOOLEAN
    /\ enableDebugEndpoints \in BOOLEAN
    /\ SetReputations \subseteq ReputationEntry

VARIABLES
    nonce,        \* the chain's nonce values, by sender and key
    outstanding,  \* the mempool's outstanding store
    busy,         \* the operations being processed or submitted
    queue,        \* queuedUserOperations, oldest first
    request,      \* the requests that are being handled
    process,      \* the calls of process()
    screening,    \* the operations that calls of the mempool's process() hold
    uncounted     \* the roles that entityCount lacks: of operations that were
                  \* added without it, or taken off it when no longer there

reputationVars == <<entries, entityCount>>
vars == <<nonce, outstanding, busy, queue, request, process, screening,
          uncounted, reputationVars>>

Slot(o) == <<Sender(o), userOp[o].nonceKey>>
Slots == {Slot(o) : o \in Ops}

NonceValue(o) == userOp[o].nonceValue

\* What getNonce of the entry point returns.
fullNonce(key, value) == key * NonceSpace + value

Idle == [pc |-> "idle"]

-----------------------------------------------------------------------------
(* MemoryMempool.                                                          *)

\* Mutant: whatever the chain has used already counts as well.
queuedBelow(o, from) ==
    {i \in DOMAIN outstanding :
        /\ Slot(outstanding[i]) = Slot(o)
        /\ NonceValue(outstanding[i]) < NonceValue(o)}

\* The operations of o's sender and key that come before it, from `from' on.
getQueuedUserOperations(o, from) ==
    {i \in DOMAIN outstanding :
        /\ Slot(outstanding[i]) = Slot(o)
        /\ NonceValue(outstanding[i]) >= from
        /\ NonceValue(outstanding[i]) < NonceValue(o)}

EntitiesOf(o) == {userOp[o].paymaster, userOp[o].factory} \ {NoEntity}

\* checkEntityMultipleRoleViolation throws.
MultipleRoleViolation(o) ==
    /\ safeMode
    /\ \E p \in ToSet(outstanding) :
           Sender(o) \in EntitiesOf(p) \/ Sender(p) \in EntitiesOf(o)

\* add() gets as far as updateUserOperationSeenStatus.
NotYetInMempool(o, out) ==
    /\ o \notin ToSet(out) \cup busy
    /\ \A b \in busy : ~ SameNonce(b, o)

\* add(), one call after another for the operations of s.
AddAll(s) ==
    LET step(acc, o) ==
            [out |-> OutstandingAfterAdd(o, acc.out, busy),
             entries |-> IF NotYetInMempool(o, acc.out) THEN Seen(acc.entries, o)
                         ELSE acc.entries]
        end == FoldLeft(step, [out |-> outstanding, entries |-> entries], s)
    IN  /\ outstanding' = end.out
        /\ entries' = end.entries

\* What this step adds to the outstanding store was not counted.
Uncount ==
    uncounted' = [e \in Addresses |->
        uncounted[e] + MapThenSumSet(LAMBDA o : Roles(o, e),
                                     ToSet(outstanding') \ ToSet(outstanding))]

-----------------------------------------------------------------------------
(* eth_sendUserOperation: addToMempoolIfValid.                             *)

\* Received, and the checks before the nonce is read passed.
Receive(c, o) ==
    /\ request[c] = Idle
    /\ request' = [request EXCEPT ![c] = [pc |-> "reading", op |-> o,
                                          low |-> nonce[Slot(o)]]]
    /\ UNCHANGED <<nonce, outstanding, busy, queue, process, screening, uncounted,
                   reputationVars>>

\* A check before, a read or the validation throws.
Throws(c) ==
    /\ request[c].pc \in {"reading", "rereading", "validating"}
    /\ request' = [request EXCEPT ![c] = Idle]
    /\ UNCHANGED <<nonce, outstanding, busy, queue, process, screening, uncounted,
                   reputationVars>>

\* AA25: the nonce value is used, or too far ahead of v.
InvalidNonce(o, v) == NonceValue(o) < v \/ NonceValue(o) > v + maxAhead

\* currentNonceValue is v, and queuedUserOperations are at these positions.
Judge(c, v, positions) ==
    LET o == request[c].op
        due == NonceValue(o) = v + Cardinality(positions)
    IN  IF due /\ ~ dangerousSkipUserOperationValidation
        THEN /\ request' = [request EXCEPT ![c] =
                    [pc |-> "validating", op |-> o, current |-> v,
                     ahead |-> {outstanding[i] : i \in positions}]]
             /\ UNCHANGED <<outstanding, queue, uncounted, reputationVars>>
        ELSE /\ request' = [request EXCEPT ![c] = Idle]
             /\ IF due THEN /\ AddAll(<<o>>)
                            /\ Uncount
                            /\ UNCHANGED entityCount
                ELSE UNCHANGED <<outstanding, uncounted, reputationVars>>
             \* Also if it has just been added; not if that was refused.
             /\ queue' = IF due /\ ~ Accepted(o, outstanding, busy) THEN queue
                         ELSE Append(queue, o)

\* getNonceValue answers v.  A v of 0 is taken for none by
\* getQueuedUserOperations, that reads the nonce again.
NonceRead(c) ==
    /\ request[c].pc = "reading"
    /\ LET o == request[c].op
           early(v) == NonceValue(o) > v /\ ~ isVersion06(o)
       IN  \E v \in request[c].low..nonce[Slot(o)] :
            IF InvalidNonce(o, v)
            THEN /\ request' = [request EXCEPT ![c] = Idle]
                 /\ UNCHANGED <<outstanding, queue, uncounted, reputationVars>>
            ELSE IF early(v) /\ v = 0
            THEN /\ request' = [request EXCEPT ![c] =
                        [pc |-> "rereading", op |-> o, low |-> nonce[Slot(o)]]]
                 /\ UNCHANGED <<outstanding, queue, uncounted, reputationVars>>
            ELSE Judge(c, v, IF early(v) THEN getQueuedUserOperations(o, v)
                             ELSE {})
    /\ UNCHANGED <<nonce, busy, process, screening>>

NonceReadAgain(c) ==
    /\ request[c].pc = "rereading"
    /\ \E w \in request[c].low..nonce[Slot(request[c].op)] :
           Judge(c, 0, getQueuedUserOperations(request[c].op, w))
    /\ UNCHANGED <<nonce, busy, process, screening>>

\* Mutant: an operation is counted once it is let through.
checkReputationFirst(c) ==
    LET o == request[c].op
    IN  /\ request[c].pc = "validating"
        /\ IF Reputable(o, entityCount)
           THEN /\ request' = [request EXCEPT ![c] = [pc |-> "checked", op |-> o]]
                /\ increaseUserOperationCount(o)
           ELSE /\ request' = [request EXCEPT ![c] = Idle]
                /\ UNCHANGED entityCount
        /\ UNCHANGED <<nonce, outstanding, busy, queue, process, screening, uncounted,
                       entries>>

\* The validation passed.  The count stays increased if this throws.
checkReputation(c) ==
    LET o == request[c].op
    IN  /\ request[c].pc = "validating"
        /\ increaseUserOperationCount(o)
        /\ request' = [request EXCEPT ![c] =
               IF Reputable(o, entityCount') THEN [pc |-> "checked", op |-> o]
               ELSE Idle]
        /\ UNCHANGED <<nonce, outstanding, busy, queue, process, screening, uncounted,
                       entries>>

\* After the promises of the checks: other callbacks may have run.
AddChecked(c) ==
    LET o == request[c].op
    IN  /\ request[c].pc = "checked"
        /\ AddAll(IF MultipleRoleViolation(o) THEN <<>> ELSE <<o>>)
        /\ request' = [request EXCEPT ![c] = Idle]
        /\ UNCHANGED <<nonce, busy, queue, process, screening, uncounted, entityCount>>

-----------------------------------------------------------------------------
(* NonceQueuer.process, started by a timer whether or not another is done. *)

\* What is older than 15 minutes is removed: it is at the front.
Tick(p) ==
    /\ process[p] = Idle
    /\ \E k \in 0..Len(queue) :
        /\ queue' = SubSeq(queue, k + 1, Len(queue))
        /\ process' = [process EXCEPT ![p] =
               IF queue' = <<>> THEN Idle
               ELSE [pc |-> "fetching", snapshot |-> queue', low |-> nonce]]
    /\ UNCHANGED <<nonce, outstanding, busy, request, screening, uncounted,
                   reputationVars>>

\* The nonces that the node may have answered for o's key since process p
\* asked.  They are full nonces.
Answers(p, o) ==
    {fullNonce(userOp[o].nonceKey, v) : v \in process[p].low[Slot(o)]..nonce[Slot(o)]}

\* The operations of s at these positions, in their order: what the loop over
\* the results collects, and what filter() keeps.
Selected(s, positions) ==
    LET push(ops, i) == IF i \in positions THEN Append(ops, s[i]) ELSE ops
    IN  FoldLeft(push, <<>>, [i \in DOMAIN s |-> i])

Without(s, S) == Selected(s, {i \in DOMAIN s : s[i] \notin S})

\* Mutant: the queue becomes what is left of the snapshot.
QueueFromSnapshot(p, available) ==
    queue' = Without(process[p].snapshot, ToSet(available))

QueueWithout(p, available) == queue' = Without(queue, ToSet(available))

\* resubmitUserOperation for each.  That add() refuses one is not noticed:
\* its result is a pair, and always true.
Release(p, available) ==
    /\ QueueWithout(p, available)
    /\ AddAll(available)
    /\ Uncount

\* The nonces are there, in one multicall or one by one; some reads failed.
Fetched(p) ==
    /\ process[p].pc = "fetching"
    /\ LET snapshot == process[p].snapshot
       IN  \E ready \in SUBSET DOMAIN snapshot :
            /\ \A i \in ready :
                   NonceValue(snapshot[i]) \in Answers(p, snapshot[i])
            /\ Release(p, Selected(snapshot, ready))
    /\ process' = [process EXCEPT ![p] = Idle]
    /\ UNCHANGED <<nonce, busy, request, screening, entityCount>>

-----------------------------------------------------------------------------
(* The bundler: module Mempool, seen from here.                            *)

\* The mempool's process() takes its snapshot.
Started ==
    /\ screening' = screening \cup ToSet(outstanding)
    /\ UNCHANGED <<nonce, outstanding, busy, queue, request, process, uncounted,
                   reputationVars>>

\* A call is done with o.  Another one may still hold it.
Leaves(o) ==
    /\ o \in screening
    /\ screening' \in {screening, screening \ {o}}

\* process() moves o to the processing store, be it outstanding or not.
Taken(o) ==
    /\ Leaves(o)
    /\ outstanding' = RemoveFirst(outstanding, o)
    /\ busy' = busy \cup {o}
    /\ decreaseUserOperationCount(o)
    /\ uncounted' = [e \in Addresses |->
           uncounted[e] + (IF o \in ToSet(outstanding) THEN 0 ELSE Roles(o, e))]
    /\ UNCHANGED <<nonce, queue, request, process, entries>>

\* shouldSkip removes o.
Screened(o) ==
    /\ Leaves(o)
    /\ outstanding' = RemoveFirst(outstanding, o)
    /\ UNCHANGED <<nonce, busy, queue, request, process, uncounted, reputationVars>>

\* The chain executes o.
Executed(o) ==
    /\ o \in busy
    /\ nonce[Slot(o)] = NonceValue(o)
    /\ nonce' = [nonce EXCEPT ![Slot(o)] = @ + 1]
    /\ UNCHANGED <<outstanding, busy, queue, request, process, screening, uncounted,
                   reputationVars>>

\* The executor manager learns that it was.
Included(o) ==
    /\ o \in busy
    /\ nonce[Slot(o)] > NonceValue(o)
    /\ busy' = busy \ {o}
    /\ \E accountDeployed \in {userOp[o].factory # NoEntity, FALSE} :
           updateUserOperationIncludedStatus(o, accountDeployed)
    /\ UNCHANGED <<nonce, outstanding, queue, request, process, screening, uncounted,
                   entityCount>>

\* The simulation of its bundle accuses o.
Crashed(o) ==
    /\ o \in busy
    /\ \E reason \in {"AA1", "AA2", "AA3", "other"} : crashedHandleOps(o, reason)
    /\ UNCHANGED <<nonce, outstanding, busy, queue, request, process, screening,
                   uncounted, entityCount>>

\* It is given up.
Rejected(o) ==
    /\ o \in busy
    /\ busy' = busy \ {o}
    /\ UNCHANGED <<nonce, outstanding, queue, request, process, screening,
                   uncounted, reputationVars>>

\* A bundle that was not sent is put back.
Resubmitted(o) ==
    /\ o \in busy
    /\ busy' = busy \ {o}
    /\ LET rest == busy \ {o}
       IN  /\ outstanding' = OutstandingAfterAdd(o, outstanding, rest)
           /\ entries' = IF /\ o \notin ToSet(outstanding)
                            /\ \A b \in rest : ~ SameNonce(b, o)
                         THEN Seen(entries, o) ELSE entries
    /\ Uncount
    /\ UNCHANGED <<nonce, queue, request, process, screening, entityCount>>

\* Someone else's transaction uses a nonce.
UsedElsewhere(s) ==
    /\ nonce' = [nonce EXCEPT ![s] = @ + 1]
    /\ UNCHANGED <<outstanding, busy, queue, request, process, screening, uncounted,
                   reputationVars>>

-----------------------------------------------------------------------------
(* The debug endpoints.  A request between its checks and add() waits only *)
(* for settled promises: no other request begins then.                     *)

Quiet == enableDebugEndpoints /\ \A c \in Clients : request[c].pc # "checked"

debug_bundler_clearState ==
    /\ Quiet
    /\ outstanding' = <<>>
    /\ entries' = NoEntries
    /\ clearEntityCount
    /\ UNCHANGED <<nonce, busy, queue, request, process, screening, uncounted>>

debug_bundler_clearMempool ==
    /\ Quiet
    /\ outstanding' = <<>>
    /\ clearEntityCount
    /\ UNCHANGED <<nonce, busy, queue, request, process, screening, uncounted, entries>>

debug_bundler_setReputation ==
    /\ Quiet
    /\ \E ep \in EntryPoints, e \in Addresses, r \in SetReputations :
           setReputation(ep, e, r)
    /\ UNCHANGED <<nonce, outstanding, busy, queue, request, process, screening, uncounted,
                   entityCount>>

-----------------------------------------------------------------------------

Init ==
    /\ nonce = [s \in Slots |-> 0]
    /\ outstanding = <<>>
    /\ busy = {}
    /\ queue = <<>>
    /\ request = [c \in Clients |-> Idle]
    /\ process = [p \in Processes |-> Idle]
    /\ screening = {}
    /\ uncounted = [e \in Addresses |-> 0]
    /\ entries = NoEntries
    /\ entityCount = [e \in Addresses |-> 0]

Request(c) ==
    \/ \E o \in Ops : Receive(c, o)
    \/ Throws(c)
    \/ NonceRead(c)
    \/ NonceReadAgain(c)
    \/ checkReputation(c)
    \/ AddChecked(c)

Bundler(o) ==
    \/ Taken(o)
    \/ Screened(o)
    \/ Executed(o)
    \/ Included(o)
    \/ Crashed(o)
    \/ Rejected(o)
    \/ Resubmitted(o)

Debug ==
    \/ debug_bundler_clearState
    \/ debug_bundler_clearMempool
    \/ debug_bundler_setReputation

Next ==
    \/ \E c \in Clients : Request(c)
    \/ \E p \in Processes : Tick(p) \/ Fetched(p)
    \/ Started
    \/ \E o \in Ops : Bundler(o)
    \/ \E s \in Slots : UsedElsewhere(s)
    \/ Debug

Spec == Init /\ [][Next]_vars

(* The nonce queue as long as nothing in it gets 15 minutes old: process() is *)
(* called every two seconds, and again and again all its reads succeed.       *)

Due(o) == nonce[Slot(o)] = NonceValue(o)

\* Every operation whose nonce the node answers is released.
FetchedAll(p) ==
    /\ Fetched(p)
    /\ \A q \in ToSet(process[p].snapshot) :
           NonceValue(q) = fullNonce(userOp[q].nonceKey, nonce[Slot(q)])
               => q \notin ToSet(queue')

YoungNext ==
    /\ Next
    /\ \A p \in Processes : Tick(p) => queue' = queue

YoungSpec ==
    /\ Init
    /\ [][YoungNext]_vars
    /\ \A p \in Processes : WF_vars(Tick(p) /\ queue' = queue) /\ SF_vars(FetchedAll(p))

-----------------------------------------------------------------------------
(* Properties.                                                             *)

RequestType ==
    {Idle}
    \cup [pc : {"reading", "rereading"}, op : Ops, low : Nat]
    \cup [pc : {"validating"}, op : Ops, current : Nat, ahead : SUBSET Ops]
    \cup [pc : {"checked"}, op : Ops]

ProcessType ==
    {Idle} \cup [pc : {"fetching"}, snapshot : Seq(Ops), low : [Slots -> Nat]]

\* The types of the variables.  That an address's count never goes below zero
\* is part of them: operations that were never counted are uncounted too.
TypeOK ==
    /\ nonce \in [Slots -> Nat]
    /\ outstanding \in Seq(Ops)
    /\ busy \in SUBSET Ops
    /\ queue \in Seq(Ops)
    /\ request \in [Clients -> RequestType]
    /\ process \in [Processes -> ProcessType]
    /\ screening \in SUBSET Ops
    /\ uncounted \in [Addresses -> Nat]
    /\ entries \in [EntryPoints -> [Addresses -> ReputationEntry]]
    /\ entityCount \in [Addresses -> Nat]

\* addToMempoolIfValid only counts the operations before a new one: an
\* operation is validated with every nonce from the current one up to its own
\* present, none of them missing and another there twice.  Of its sender no
\* two operations with one nonce disagree about the account's deployment: then
\* a replacement may replace its rival's predecessor and stay beside the rival.
PredecessorsPresent ==
    \A c \in Clients :
        /\ request[c].pc = "validating"
        /\ ~ Disputed(Sender(request[c].op), Ops)
        => {NonceValue(q) : q \in request[c].ahead}
               = request[c].current..(NonceValue(request[c].op) - 1)

RolesOutstanding(e) ==
    FoldLeft(LAMBDA acc, o : acc + Roles(o, e), 0, outstanding)

\* In the safe mode a sender without stake has no more operations in the
\* mempool than it may, besides those that were added without being counted:
\* however the requests interleave, bundles are made and the counts are cleared.
UnstakedSendersLimited == safeMode =>
    \A s \in Field("sender") \ staked :
        RolesOutstanding(s) =< maxMempoolUserOperationsPerSender + uncounted[s]

\* An operation leaves the nonce queue because it is too old, or because a
\* call of process() that saw it there ends: what is queued during its await
\* is kept.
QueueKeepsArrivals ==
    [][\A o \in ToSet(queue) \ ToSet(queue') :
          \/ IsSuffix(queue', queue)
          \/ \E p \in Processes : /\ process[p].pc = "fetching"
                                  /\ process'[p] = Idle
                                  /\ o \in ToSet(process[p].snapshot)]_vars

\* process() releases the queued operations whose turn has come: one whose
\* nonce is the account's next does not stay in the queue while that is so.
DueOperationsReleased ==
    \A o \in Ops :
        (o \in ToSet(queue) /\ Due(o)) ~> (o \notin ToSet(queue) \/ ~ Due(o))

\* An entity that is banned stays so, unless an operation of it is included
\* or a debug endpoint says otherwise: a crash never helps.
BanLasts ==
    [][\A ep \in EntryPoints, e \in Addresses :
          getStatus(ep, e) = "banned" =>
              \/ getStatus(ep, e)' = "banned"
              \/ entries'[ep][e].opsIncluded > entries[ep][e].opsIncluded
              \/ debug_bundler_clearState
              \/ debug_bundler_setReputation]_vars
=============================================================================
