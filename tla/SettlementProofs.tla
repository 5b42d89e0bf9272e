-------------------------- MODULE SettlementProofs --------------------------
(***************************************************************************)
(* For any bundles, rivals, hashes and length of the chain.                *)
(*                                                                         *)
(* The monitor keeps a status for the whole timeout after it was last set, *)
(* whatever else happens: an invariant of the timers and the ages.         *)
(*                                                                         *)
(* What the statuses and the events say is on the chain, and an operation  *)
(* is called rejected only when nothing ran it for two blocks after ours   *)
(* reverted.  SInv says why: a hash is mined once, and stays where it was  *)
(* mined; while the bundle is followed at most one of its transactions is  *)
(* mined, which carries the operations that are still followed; and while  *)
(* somebody looks for a frontrunner, nothing of ours is left that could be *)
(* mined, so that what a call has read is still true when it answers.      *)
(*                                                                         *)
(* Whether a mined transaction tells of an operation depends on the logs   *)
(* that getBundleStatus walks: DetailsTell says what it finds there.       *)
(*                                                                         *)
(* A receipt is cut out of the logs of anybody's transaction: WellLogged   *)
(* says how the logs of its runs follow each other, WalkFinds what the     *)
(* walk over them keeps, ReceiptOwn what lies between the two events.  An  *)
(* operation is looked up by its hash, its sender and its nonce: RunsInv   *)
(* says that no nonce was used twice, UnpackedAgain that unpacking undoes  *)
(* packing.                                                                *)
(***************************************************************************)
EXTENDS Settlement, SequenceLemmas

IsAFunction(f) == f = [o \in DOMAIN f |-> f[o]]

\* A timer that runs was set with the last status, and has not run ahead of
\* the ages.
TimersMatch ==
    /\ IsAFunction(userOperationToStatus) /\ Ops \subseteq DOMAIN userOperationToStatus
    /\ IsAFunction(userOperationTimeouts) /\ Ops \subseteq DOMAIN userOperationTimeouts
    /\ Ops \subseteq DOMAIN age
    /\ \A o \in Ops :
        /\ age[o] \in 0..Timeout
        /\ \A t \in userOperationTimeouts[o] : t \in Nat /\ t + age[o] >= Timeout

KInv == TimersMatch /\ StatusKept

\* A status that is set is known, and a fresh timer runs for it.
LEMMA SetKeeps ==
    ASSUME KInv, NEW new, setUserOperationStatus(new),
           \A o \in DOMAIN new : new[o] # Forgotten
    PROVE  KInv'
<1> USE SettlementAssumption
<1>1. IsAFunction(userOperationToStatus)' /\ (Ops \subseteq DOMAIN userOperationToStatus)'
  BY DEF KInv, TimersMatch, IsAFunction, setUserOperationStatus, Updated
<1>2. IsAFunction(userOperationTimeouts)' /\ (Ops \subseteq DOMAIN userOperationTimeouts)'
  BY DEF KInv, TimersMatch, IsAFunction, setUserOperationStatus, Updated
<1>3. (Ops \subseteq DOMAIN age)'
  BY DEF KInv, TimersMatch, setUserOperationStatus, Updated
<1>4. ASSUME NEW o \in Ops, o \in DOMAIN new
      PROVE  /\ age'[o] = 0
             /\ userOperationTimeouts'[o] = {Timeout}
             /\ userOperationToStatus'[o] = new[o]
  <2>1. age'[o] = 0 /\ userOperationToStatus'[o] = new[o]
    BY <1>4 DEF KInv, TimersMatch, setUserOperationStatus, Updated
  <2>2. userOperationTimeouts'[o] = clearedTimeouts(new)[o] \cup {Timeout}
    BY <1>4 DEF KInv, TimersMatch, setUserOperationStatus, Updated
  <2> QED BY <1>4, <2>1, <2>2 DEF clearedTimeouts
<1>5. ASSUME NEW o \in Ops, o \notin DOMAIN new
      PROVE  /\ age'[o] = age[o]
             /\ userOperationTimeouts'[o] = userOperationTimeouts[o]
             /\ userOperationToStatus'[o] = userOperationToStatus[o]
  BY <1>5 DEF KInv, TimersMatch, setUserOperationStatus, Updated
<1>6. ASSUME NEW o \in Ops
      PROVE  /\ age'[o] \in 0..Timeout
             /\ \A t \in userOperationTimeouts'[o] : t \in Nat /\ t + age'[o] >= Timeout
             /\ age'[o] < Timeout => userOperationToStatus'[o] # Forgotten
  <2>1. CASE o \in DOMAIN new BY <1>4, <2>1
  <2>2. CASE o \notin DOMAIN new BY <1>5, <2>2 DEF KInv, TimersMatch, StatusKept
  <2> QED BY <2>1, <2>2
<1> QED BY <1>1, <1>2, <1>3, <1>6 DEF KInv, TimersMatch, StatusKept

LEMMA KInit == Init => KInv
<1> SUFFICES ASSUME Init PROVE KInv OBVIOUS
<1> USE SettlementAssumption
<1> PICK bundle \in Bundles :
        /\ userOperationToStatus =
              [o \in Ops |-> IF o \in ToSet(bundle) THEN Status("submitted", Hashes[1]) ELSE Forgotten]
        /\ userOperationTimeouts = [o \in Ops |-> IF o \in ToSet(bundle) THEN {Timeout} ELSE {}]
        /\ age = [o \in Ops |-> IF o \in ToSet(bundle) THEN 0 ELSE Timeout]
  BY DEF Init
<1>1. TimersMatch BY DEF TimersMatch, IsAFunction
<1>2. Status("submitted", Hashes[1]) # Forgotten BY DEF Status, Forgotten
<1>3. StatusKept BY <1>2 DEF StatusKept
<1> QED BY <1>1, <1>3 DEF KInv

LEMMA KStep == KInv /\ [Next]_vars => KInv'
<1> SUFFICES ASSUME KInv, [Next]_vars PROVE KInv' OBVIOUS
<1> USE SettlementAssumption
<1>1. ASSUME UNCHANGED monitor PROVE KInv'
  BY <1>1 DEF KInv, TimersMatch, IsAFunction, StatusKept, monitor
<1>2. CASE Mine BY <1>1, <1>2 DEF Mine
<1>3. CASE Replace BY <1>1, <1>3 DEF Replace
<1>4. CASE GiveUp BY <1>1, <1>4 DEF GiveUp
<1>5. CASE Tick
  <2>1. /\ IsAFunction(userOperationToStatus)' /\ (Ops \subseteq DOMAIN userOperationToStatus)'
        /\ IsAFunction(userOperationTimeouts)' /\ (Ops \subseteq DOMAIN userOperationTimeouts)'
        /\ (Ops \subseteq DOMAIN age)'
    BY <1>5 DEF KInv, TimersMatch, IsAFunction, Tick
  <2>2. ASSUME NEW o \in Ops
        PROVE  /\ age'[o] \in 0..Timeout
               /\ age'[o] =< age[o] + 1
               /\ age'[o] < Timeout => age[o] < Timeout
               /\ age[o] = Timeout => age'[o] = Timeout
    BY <1>5 DEF KInv, TimersMatch, Tick
  <2>3. ASSUME NEW o \in Ops, NEW t \in userOperationTimeouts'[o]
        PROVE  t \in Nat /\ t + age'[o] >= Timeout
    <3>1. PICK u \in userOperationTimeouts[o] : t = IF u = 0 THEN 0 ELSE u - 1
      BY <1>5, <2>3 DEF Tick
    <3>2. u \in Nat /\ u + age[o] >= Timeout /\ age[o] \in 0..Timeout
      BY <3>1, <2>3 DEF KInv, TimersMatch
    <3>3. CASE age[o] < Timeout
      <4>1. age'[o] = age[o] + 1 BY <1>5, <2>3, <3>3 DEF Tick
      <4> QED BY <3>1, <3>2, <3>3, <4>1
    <3>4. CASE age[o] = Timeout
      BY <2>2, <3>1, <3>2, <3>4
    <3> QED BY <3>2, <3>3, <3>4
  <2>4. StatusKept'
    BY <1>5, <2>2 DEF KInv, StatusKept, Tick
  <2> QED BY <2>1, <2>2, <2>3, <2>4 DEF KInv, TimersMatch
<1>6. CASE refreshTransactionStatus
  <2>1. ASSUME NEW hash, NEW details, RefreshIncluded(hash, details) PROVE KInv'
    <3> DEFINE new == [o \in ToSet(followed.ops) |-> Status("included", hash)]
    <3>1. setUserOperationStatus(new) BY <2>1 DEF RefreshIncluded
    <3>2. \A o \in DOMAIN new : new[o] # Forgotten BY DEF Status, Forgotten
    <3> HIDE DEF new
    <3> QED BY <3>1, <3>2, SetKeeps
  <2>2. ASSUME RefreshAA95 PROVE KInv' BY <1>1, <2>2 DEF RefreshAA95
  <2>3. ASSUME NEW hash, RefreshReverted(hash) PROVE KInv' BY <1>1, <2>3 DEF RefreshReverted
  <2> DEFINE tx == transactionOf(chain, CHOOSE h \in ToSet(txHashesToCheck) : IsMined(chain, h))
             status == getBundleStatus(tx, entryPointOf[followed.ops[1]])
  <2>4. status.status \in {"included", "reverted"}
    BY DEF getBundleStatus
  <2>5. \/ RefreshIncluded(reportedHash(tx), status.userOperationDetails)
        \/ RefreshAA95
        \/ RefreshReverted(reportedHash(tx))
    BY <1>6, <2>4 DEF refreshTransactionStatus
  <2> HIDE DEF tx, status
  <2> QED BY <2>1, <2>2, <2>3, <2>5
<1>7. ASSUME NEW o \in Ops, onBlockNumber(o) PROVE KInv' BY <1>1, <1>7 DEF onBlockNumber
<1>8. ASSUME NEW o \in Ops, Expire(o) PROVE KInv'
  <2>1. age[o] \in 0..Timeout /\ 0 + age[o] >= Timeout
    BY <1>8 DEF Expire, KInv, TimersMatch
  <2>2. age[o] = Timeout BY <2>1
  <2>3. /\ IsAFunction(userOperationToStatus)' /\ (Ops \subseteq DOMAIN userOperationToStatus)'
        /\ IsAFunction(userOperationTimeouts)' /\ (Ops \subseteq DOMAIN userOperationTimeouts)'
        /\ (Ops \subseteq DOMAIN age)'
    BY <1>8 DEF KInv, TimersMatch, IsAFunction, Expire
  <2>4. \A p \in Ops : /\ age'[p] = age[p]
                       /\ userOperationTimeouts'[p] \subseteq userOperationTimeouts[p]
                       /\ p # o => userOperationToStatus'[p] = userOperationToStatus[p]
    BY <1>8 DEF KInv, TimersMatch, IsAFunction, Expire
  <2>5. StatusKept' BY <2>2, <2>4 DEF KInv, StatusKept
  <2> QED BY <2>3, <2>4, <2>5 DEF KInv, TimersMatch
<1>9. ASSUME NEW c \in calls, ReadReceipt(c) PROVE KInv' BY <1>1, <1>9 DEF ReadReceipt
<1>10. ASSUME NEW c \in calls, Answer(c) PROVE KInv'
  <2> DEFINE found == c.receipt # Nothing
             s == IF found THEN "included" ELSE "rejected"
             hash == IF found THEN c.receipt[1].transactionHash ELSE c.transactionHash
             new == [o \in {c.op} |-> Status(s, hash)]
  <2>1. setUserOperationStatus(new) BY <1>10 DEF Answer
  <2>2. s \in {"included", "rejected"} OBVIOUS
  <2> HIDE DEF s, hash
  <2>3. \A o \in DOMAIN new : new[o] # Forgotten BY <2>2 DEF Status, Forgotten
  <2> HIDE DEF new
  <2> QED BY <2>1, <2>3, SetKeeps
<1>11. ASSUME NEW c \in calls, ReceiptThrows(c) PROVE KInv' BY <1>1, <1>11 DEF ReceiptThrows
<1>12. CASE UNCHANGED vars BY <1>1, <1>12 DEF vars, monitor
<1> QED BY <1>2, <1>3, <1>4, <1>5, <1>6, <1>7, <1>8, <1>9, <1>10, <1>11, <1>12 DEF Next

\* For any bundles, rivals and timeout: a status is known for the whole
\* timeout since setUserOperationStatus was last called for its operation.
THEOREM Kept == Spec => []StatusKept
<1>1. KInv => StatusKept BY DEF KInv
<1> QED BY KInit, KStep, <1>1, PTL DEF Spec

-----------------------------------------------------------------------------
(* What is read from the chain.                                            *)

\* g has what is kept of s up to each place.
Filtering(g, S, s, P) ==
    /\ g \in [0..Len(s) -> Seq(S)]
    /\ g[0] = <<>>
    /\ \A k \in 1..Len(s) : g[k] = IF s[k] \in P THEN Append(g[k - 1], s[k]) ELSE g[k - 1]

LEMMA FilteredSteps ==
    ASSUME NEW S, NEW s \in Seq(S), NEW P
    PROVE  \E g : Filtering(g, S, s, P) /\ Filtered(s, P) = g[Len(s)]
<1> DEFINE n == Len(s)
           Turn(kept, e) == IF e \in P THEN Append(kept, e) ELSE kept
           step == [p \in (1..n) \X Seq(S) |-> Turn(p[2], s[p[1]])]
           Body(g) == [T \in SUBSET DOMAIN s |->
                          IF T = {} THEN <<>> ELSE Turn(g[T \ {Max(T)}], s[Max(T)])]
           h == CHOOSE g : g = Body(g)
<1>0. Filtered(s, P) = h[DOMAIN s]
  BY DEF Filtered, FoldLeft, MapThenFoldSet
<1>1. n \in Nat /\ DOMAIN s = 1..n /\ <<>> \in Seq(S) /\ \A k \in 1..n : s[k] \in S
  OBVIOUS
<1>2. ASSUME NEW kept \in Seq(S), NEW k \in 1..n
      PROVE  Turn(kept, s[k]) \in Seq(S)
  OBVIOUS
<1> HIDE DEF Turn
<1>3. step \in [(1..n) \X Seq(S) -> Seq(S)]
  BY <1>2
<1>4. PICK g \in [SUBSET (1..n) -> Seq(S)] : Folding(g, 1..n, <<>>, LastOf(n), step)
  <2> HIDE DEF step, n
  <2> QED BY <1>1, <1>3, FoldOnSequenceExists
<1>5. g = Body(g)
  <2>1. \A T \in SUBSET (1..n) : T # {} => Max(T) \in 1..n /\ T \ {Max(T)} \in SUBSET (1..n)
    BY <1>1, LastPosition
  <2>2. \A T \in SUBSET (1..n) :
            g[T] = IF T = {} THEN <<>> ELSE Turn(g[T \ {Max(T)}], s[Max(T)])
    <3> HIDE DEF n
    <3> QED BY <1>1, <1>4, <2>1 DEF Folding, LastOf
  <2> QED BY <1>1, <1>4, <2>2
<1>6. h = Body(h)
  <2> HIDE DEF Body
  <2> QED BY <1>5
<1>7. h[1..0] = <<>> /\ \A k \in 1..n : h[1..k] = Turn(h[1..(k-1)], s[k])
  <2>1. \A k \in 1..n : /\ 1..k \in SUBSET (1..n) /\ 1..k # {}
                        /\ Max(1..k) = k /\ (1..k) \ {k} = 1..(k - 1)
    BY <1>1, LastOfFirst
  <2>2. \A T \in SUBSET (1..n) :
            h[T] = IF T = {} THEN <<>> ELSE Turn(h[T \ {Max(T)}], s[Max(T)])
    <3> HIDE DEF h, n
    <3> QED BY <1>1, <1>6
  <2>3. 1..0 \in SUBSET (1..n) /\ 1..0 = {}
    OBVIOUS
  <2> HIDE DEF h, n
  <2> QED BY <2>1, <2>2, <2>3
<1> DEFINE f == [k \in 0..n |-> h[1..k]]
<1>8. /\ f[0] = <<>> /\ f[n] = h[1..n]
      /\ \A k \in 1..n : f[k] = Turn(f[k - 1], s[k])
  <2> HIDE DEF h, n
  <2>1. \A k \in 1..n : k \in 0..n /\ k - 1 \in 0..n
    BY <1>1
  <2> QED BY <1>1, <1>7, <2>1
<1>9. f = [k \in 0..n |-> f[k]] /\ Filtered(s, P) = f[n]
  BY <1>0, <1>1, <1>8
<1> HIDE DEF f, h, n
<1>10. \A k \in 0..n : f[k] \in Seq(S)
  <2> DEFINE Q == {k \in 0..n : f[k] \in Seq(S)}
  <2>1. 0 \in Q
    <3>1. f[0] \in Seq(S)
      BY <1>1, <1>8
    <3>2. 0 \in 0..n
      BY <1>1 DEF n
    <3> QED BY <3>1, <3>2
  <2>2. ASSUME NEW k \in 1..n, k - 1 \in Q
        PROVE  k \in Q
    <3>1. f[k - 1] \in Seq(S)
      BY <2>2
    <3>2. f[k] \in Seq(S)
      BY <1>2, <1>8, <3>1
    <3>3. k \in 0..n
      BY <1>1 DEF n
    <3> QED BY <3>2, <3>3
  <2> HIDE DEF Q
  <2>3. \A k \in 0..n : k \in Q
    BY <1>1, <2>1, <2>2, UpTo
  <2> QED BY <2>3 DEF Q
<1>11. f \in [0..n -> Seq(S)]
  BY <1>9, <1>10
<1>12. Filtering(f, S, s, P)
  BY <1>8, <1>11 DEF n, Turn, Filtering
<1> QED BY <1>9, <1>12 DEF n

\* It keeps the elements that are in P.
LEMMA FilteredElements ==
    ASSUME NEW S, NEW s \in Seq(S), NEW P
    PROVE  /\ Filtered(s, P) \in Seq(S) /\ ToSet(Filtered(s, P)) = ToSet(s) \cap P
           /\ IsInjective(s) => IsInjective(Filtered(s, P))
<1> DEFINE n == Len(s)
<1>1. n \in Nat /\ \A k \in 1..n : s[k] \in S
  OBVIOUS
<1>0. PICK g : Filtering(g, S, s, P) /\ Filtered(s, P) = g[Len(s)]
  BY FilteredSteps
<1>2. /\ g[0] = <<>> /\ Filtered(s, P) = g[n] /\ g \in [0..n -> Seq(S)]
      /\ \A k \in 1..n : g[k] = IF s[k] \in P THEN Append(g[k - 1], s[k]) ELSE g[k - 1]
  BY <1>0 DEF Filtering
<1> DEFINE Before(k) == {s[i] : i \in 1..k} \cap P
           Q == {k \in 0..n : /\ g[k] \in Seq(S) /\ ToSet(g[k]) = Before(k)
                              /\ IsInjective(s) => IsInjective(g[k])}
<1>3. 0 \in Q
  <2>1. ToSet(<<>>) = {} /\ IsInjective(<<>>)
    BY DEF ToSet, IsInjective
  <2>2. Before(0) = {} /\ 0 \in 0..n
    BY <1>1
  <2> HIDE DEF Before
  <2> QED BY <1>2, <2>1, <2>2
<1>4. ASSUME NEW k \in 1..n, k - 1 \in Q
      PROVE  k \in Q
  <2> DEFINE t == g[k - 1]
             b == Before(k - 1)
  <2>1. /\ t \in Seq(S) /\ ToSet(t) = b
        /\ IsInjective(s) => IsInjective(t)
    BY <1>4
  <2>2. IsInjective(s) => s[k] \notin b
    BY <1>1 DEF IsInjective
  <2>3. Before(k) = IF s[k] \in P THEN b \cup {s[k]} ELSE b
    <3>1. 1..k = (1..(k - 1)) \cup {k}
      BY <1>1
    <3> QED BY <3>1
  <2>4. g[k] = IF s[k] \in P THEN Append(t, s[k]) ELSE t
    BY <1>2
  <2>5. s[k] \in S /\ k \in 0..n
    BY <1>1
  <2> HIDE DEF Before, t, b
  <2>6. /\ Append(t, s[k]) \in Seq(S)
        /\ ToSet(Append(t, s[k])) = ToSet(t) \cup {s[k]}
        /\ IsInjective(t) /\ s[k] \notin ToSet(t) => IsInjective(Append(t, s[k]))
    BY <2>1, <2>5, AppendElements
  <2> QED BY <2>1, <2>2, <2>3, <2>4, <2>5, <2>6
<1>5. n \in Q
  <2> HIDE DEF Q
  <2>1. \A k \in 0..n : k \in Q
    BY <1>1, <1>3, <1>4, UpTo
  <2> QED BY <1>1, <2>1
<1>6. Before(n) = ToSet(s) \cap P
  BY SequenceElements
<1> HIDE DEF Before
<1> QED BY <1>2, <1>5, <1>6

\* What it keeps if one element at most is in P.
LEMMA FilteredOne ==
    ASSUME NEW S, NEW s \in Seq(S), NEW P,
           \A i, j \in 1..Len(s) : s[i] \in P /\ s[j] \in P => i = j
    PROVE  /\ (\A i \in 1..Len(s) : s[i] \notin P) => Filtered(s, P) = <<>>
           /\ \A i \in 1..Len(s) : s[i] \in P => Filtered(s, P) = <<s[i]>>
<1> DEFINE n == Len(s)
<1>1. n \in Nat /\ \A k \in 1..n : s[k] \in S
  OBVIOUS
<1>0. PICK g : Filtering(g, S, s, P) /\ Filtered(s, P) = g[Len(s)]
  BY FilteredSteps
<1>2. /\ g[0] = <<>> /\ Filtered(s, P) = g[n] /\ g \in [0..n -> Seq(S)]
      /\ \A k \in 1..n : g[k] = IF s[k] \in P THEN Append(g[k - 1], s[k]) ELSE g[k - 1]
  BY <1>0 DEF Filtering
<1> DEFINE Q == {k \in 0..n : /\ (\A i \in 1..k : s[i] \notin P) => g[k] = <<>>
                              /\ \A i \in 1..k : s[i] \in P => g[k] = <<s[i]>>}
<1>3. 0 \in Q
  BY <1>1, <1>2
<1> HIDE DEF n
<1>4. ASSUME NEW k \in 1..n, k - 1 \in Q
      PROVE  k \in Q
  <2> DEFINE l == k - 1
  <2>1. /\ k \in 0..n /\ \A i \in 1..k : i = k \/ i \in 1..l
        /\ \A i \in 1..l : i \in 1..n /\ i # k /\ i \in 1..k /\ k \in 1..k
    BY <1>1
  <2>2. /\ (\A i \in 1..l : s[i] \notin P) => g[l] = <<>>
        /\ \A i \in 1..l : s[i] \in P => g[l] = <<s[i]>>
    BY <1>4
  <2>3. g[k] = IF s[k] \in P THEN Append(g[l], s[k]) ELSE g[l]
    BY <1>2
  <2> HIDE DEF l
  <2>4. CASE s[k] \in P
    <3>1. \A i \in 1..l : s[i] \notin P
      BY <2>1, <2>4 DEF n
    <3>2. g[k] = <<s[k]>>
      <4>1. g[k] = Append(<<>>, s[k])
        BY <2>2, <2>3, <2>4, <3>1
      <4> QED BY <4>1
    <3>3. k \in 1..k
      BY <1>1
    <3> QED BY <2>1, <2>4, <3>1, <3>2, <3>3
  <2>5. CASE s[k] \notin P
    BY <2>1, <2>2, <2>3, <2>5
  <2> QED BY <2>4, <2>5
<1>5. n \in Q
  <2> HIDE DEF Q
  <2>1. \A k \in 0..n : k \in Q
    BY <1>1, <1>3, <1>4, UpTo
  <2> QED BY <1>1, <2>1
<1> QED BY <1>2, <1>5 DEF n

\* A transaction found for an operation has a run of it; when none is found,
\* no block that getLogs looks at has one.
LEMMA FoundTransactions ==
    ASSUME NEW T, NEW ch \in Seq(Seq(T)), NEW o
    PROVE  /\ \A n \in DOMAIN ch : ToSet(ch[n]) \subseteq T
           /\ filterResult(ch, o) \in Seq(T)
           /\ \A tx \in ToSet(filterResult(ch, o)) :
                  tx \in TransactionsIn(ch) /\ \E run \in RunsOf(tx) : run.op = o
           /\ \A n \in DOMAIN ch : n >= fromBlock(ch) =>
                  \A tx \in ToSet(ch[n]) :
                      (\E run \in RunsOf(tx) : run.op = o) => tx \in ToSet(filterResult(ch, o))
<1> DEFINE P == {tx \in TransactionsIn(ch) : \E run \in RunsOf(tx) : run.op = o}
           bs == [n \in DOMAIN ch |-> IF n >= fromBlock(ch) THEN ch[n] ELSE <<>>]
           all == FlattenSeq(bs)
<1>1. filterResult(ch, o) = Filtered(all, P)
  BY DEF filterResult
<1>2. /\ bs \in Seq(Seq(T)) /\ Len(bs) = Len(ch)
      /\ \A n \in 1..Len(ch) : bs[n] = IF n >= fromBlock(ch) THEN ch[n] ELSE <<>>
  <2>1. \A n \in DOMAIN ch : (IF n >= fromBlock(ch) THEN ch[n] ELSE <<>>) \in Seq(T)
    OBVIOUS
  <2>2. DOMAIN ch = 1..Len(ch) /\ Len(ch) \in Nat
    OBVIOUS
  <2>3. bs \in [1..Len(ch) -> Seq(T)]
    BY <2>1, <2>2
  <2> QED BY <2>2, <2>3
<1>3. \A n \in DOMAIN ch : ToSet(ch[n]) \subseteq T /\ ToSet(ch[n]) \subseteq TransactionsIn(ch)
  <2>1. \A n \in DOMAIN ch : ch[n] \in Seq(T)
    OBVIOUS
  <2> QED BY <2>1, SequenceElements DEF TransactionsIn
<1> HIDE DEF bs
<1>4. all \in Seq(T) /\ ToSet(all) = UNION {ToSet(bs[i]) : i \in 1..Len(bs)}
  BY <1>2, FlattenedElements
<1> HIDE DEF all, P
<1>5. Filtered(all, P) \in Seq(T) /\ ToSet(Filtered(all, P)) = ToSet(all) \cap P
  BY <1>4, FilteredElements
<1>6. ASSUME NEW n \in DOMAIN ch, n >= fromBlock(ch), NEW tx \in ToSet(ch[n]),
             \E run \in RunsOf(tx) : run.op = o
      PROVE  tx \in ToSet(all) \cap P
  <2>1. n \in 1..Len(bs) /\ bs[n] = ch[n]
    BY <1>2, <1>6
  <2>2. tx \in ToSet(all)
    BY <1>4, <1>6, <2>1
  <2> QED BY <1>3, <1>6, <2>2 DEF P
<1> QED BY <1>1, <1>3, <1>5, <1>6 DEF P

\* The receipt is of the first of them.
LEMMA ReceiptFound ==
    ASSUME NEW T, NEW ch \in Seq(Seq(T)), NEW o, NEW r, r = getUserOperationReceipt(ch, o)
    PROVE  /\ r # Nothing =>
                  \E tx \in TransactionsIn(ch) : /\ r[1].transactionHash = tx.hash
                                                 /\ \E run \in RunsOf(tx) : run.op = o
           /\ r = Nothing => \A n \in DOMAIN ch : n >= fromBlock(ch) =>
                                  o \notin Executed(ToSet(ch[n]))
<1> DEFINE txs == filterResult(ch, o)
<1>1. r = IF txs = <<>> THEN Nothing ELSE <<parseUserOperationReceipt(o, txs[1])>>
  BY DEF getUserOperationReceipt
<1>2. \A tx : parseUserOperationReceipt(o, tx).transactionHash = tx.hash
  BY DEF parseUserOperationReceipt
<1> HIDE DEF txs
<1>3. txs \in Seq(T)
  BY FoundTransactions DEF txs
<1>4. CASE txs = <<>>
  <2>1. ToSet(txs) = {} /\ r = Nothing
    BY <1>1, <1>4 DEF ToSet
  <2>2. ASSUME NEW n \in DOMAIN ch, n >= fromBlock(ch), o \in Executed(ToSet(ch[n]))
        PROVE  FALSE
    <3>1. PICK tx \in ToSet(ch[n]) : \E run \in RunsOf(tx) : run.op = o
      BY <2>2 DEF Executed
    <3> QED BY <2>1, <2>2, <3>1, FoundTransactions DEF txs
  <2> QED BY <2>1, <2>2
<1>5. CASE txs # <<>>
  <2>1. txs[1] \in ToSet(txs)
    BY <1>3, <1>5, SequenceElements
  <2>2. txs[1] \in TransactionsIn(ch) /\ \E run \in RunsOf(txs[1]) : run.op = o
    BY <2>1, FoundTransactions DEF txs
  <2>3. r # Nothing /\ r[1].transactionHash = txs[1].hash
    BY <1>1, <1>2, <1>5 DEF Nothing
  <2> QED BY <2>2, <2>3
<1> QED BY <1>4, <1>5

-----------------------------------------------------------------------------
(* What our transaction's logs say.                                        *)

Sendings == [hash : ToSet(Hashes), ops : Seq(Ops)]

\* What sendToExecutor and its replacements send.
Sound(ops) ==
    /\ ops \in Seq(Ops) /\ ops # <<>> /\ IsInjective(ops)
    /\ \A o \in ToSet(ops) : entryPointOf[o] = entryPointOf[ops[1]]
    /\ \A o, q \in ToSet(ops) : SameNonce(o, q) => o = q

LogsFrom(entryPoint) ==
    [address : {entryPoint, "account"},
     name    : {"AccountDeployed", "Validated", "BeforeExecution", "Executed",
                "UserOperationRevertReason", "UserOperationEvent"},
     op      : Ops \cup {NoAddress},
     success : BOOLEAN]

EventOf(entryPoint, run) ==
    Log(entryPoint, "UserOperationEvent", run.op, run.outcome = "success")

LEMMA ImitationsAre ==
    /\ \A l \in Imitations : /\ l.address = "account" /\ l.op \in Ops /\ l.success \in BOOLEAN
                             /\ l.name \in {"UserOperationRevertReason", "UserOperationEvent"}
                             /\ l = Log("account", l.name, l.op, l.success)
    /\ \A ep : Imitations \subseteq LogsFrom(ep)
    /\ \A o \in Ops : /\ entryPointOf[o] # "account"
                      /\ imitated[o].validation \in Seq(Imitations)
                      /\ imitated[o].execution \in Seq(Imitations)
<1>1. ASSUME NEW l \in Imitations
      PROVE  /\ l.address = "account" /\ l.op \in Ops /\ l.success \in BOOLEAN
             /\ l.name \in {"UserOperationRevertReason", "UserOperationEvent"}
             /\ l = Log("account", l.name, l.op, l.success)
             /\ \A ep : l \in LogsFrom(ep)
  <2>1. PICK name \in {"UserOperationRevertReason", "UserOperationEvent"}, o \in Ops,
             success \in BOOLEAN : l = Log("account", name, o, success)
    BY DEF Imitations
  <2>2. l.address = "account" /\ l.name = name /\ l.op = o /\ l.success = success
    BY <2>1 DEF Log
  <2>3. \A ep : l \in LogsFrom(ep)
    BY <2>1 DEF Log, LogsFrom
  <2> QED BY <2>1, <2>2, <2>3
<1>2. ASSUME NEW o \in Ops
      PROVE  /\ entryPointOf[o] # "account"
             /\ imitated[o].validation \in Seq(Imitations)
             /\ imitated[o].execution \in Seq(Imitations)
  <2>1. imitated[o] \in [validation : Seq(Imitations), execution : Seq(Imitations)]
    BY ImitationsAssumption
  <2> QED BY <2>1, ImitationsAssumption
<1> QED BY <1>1, <1>2

\* Of the entry point's own logs, those of a validation are no event, and one of
\* those of an execution is.
LEMMA RunLogs ==
    ASSUME NEW ep, ep # "account", NEW run \in [op : Ops, outcome : Ends]
    PROVE  /\ ValidationLogs(ep, run.op) \in Seq(LogsFrom(ep))
           /\ \A l \in ToSet(ValidationLogs(ep, run.op)) : ~ (IsEvent(l) /\ l.address = ep)
           /\ ExecutionLogs(ep, run) \in Seq(LogsFrom(ep))
           /\ EventOf(ep, run) \in ToSet(ExecutionLogs(ep, run))
           /\ \A l \in ToSet(ExecutionLogs(ep, run)) :
                  IsEvent(l) /\ l.address = ep => l = EventOf(ep, run)
<1> DEFINE L == LogsFrom(ep)
           o == run.op
           deployed == Log(ep, "AccountDeployed", o, TRUE)
           validated == Log("account", "Validated", o, TRUE)
           executed == Log("account", "Executed", o, TRUE)
           reason == Log(ep, "UserOperationRevertReason", o, FALSE)
           event == EventOf(ep, run)
<1>1. /\ deployed \in L /\ validated \in L /\ executed \in L /\ reason \in L /\ event \in L
      /\ ~ IsEvent(deployed) /\ ~ IsEvent(validated) /\ ~ IsEvent(executed) /\ ~ IsEvent(reason)
  BY DEF LogsFrom, Log, EventOf, IsEvent
<1> DEFINE vi == imitated[o].validation
           ei == imitated[o].execution
<1>2. \/ ValidationLogs(ep, o) = (<<>> \o <<validated>>) \o vi
      \/ ValidationLogs(ep, o) = (<<deployed>> \o <<validated>>) \o vi
  BY DEF ValidationLogs
<1>3. \/ ExecutionLogs(ep, run) = (<<executed>> \o ei) \o <<event>>
      \/ ExecutionLogs(ep, run) = <<reason>> \o <<event>>
      \/ ExecutionLogs(ep, run) = <<>> \o <<event>>
  BY DEF ExecutionLogs, Ends, EventOf
<1>9. /\ vi \in Seq(L) /\ ei \in Seq(L)
      /\ \A l \in ToSet(vi) \cup ToSet(ei) : l.address = "account"
  <2>1. o \in Ops
    OBVIOUS
  <2>2. vi \in Seq(Imitations) /\ ei \in Seq(Imitations) /\ Imitations \subseteq L
    BY <2>1, ImitationsAre
  <2> HIDE DEF vi, ei, L
  <2>3. vi \in Seq(L) /\ ei \in Seq(L)
    BY <2>2
  <2>4. ToSet(vi) \subseteq Imitations /\ ToSet(ei) \subseteq Imitations
    BY <2>2, SequenceElements
  <2> QED BY <2>3, <2>4, ImitationsAre
<1> HIDE DEF L, deployed, validated, executed, reason, event, vi, ei
<1>4. ASSUME NEW l \in L
      PROVE  <<l>> \in Seq(L) /\ ToSet(<<l>>) = {l}
  BY DEF ToSet
<1>5. <<>> \in Seq(L) /\ ToSet(<<>>) = {}
  BY DEF ToSet
<1>6. ASSUME NEW s \in Seq(L), NEW l \in L
      PROVE  s \o <<l>> \in Seq(L) /\ ToSet(s \o <<l>>) = ToSet(s) \cup {l}
  <2> DEFINE t == <<l>>
  <2>1. t \in Seq(L) /\ ToSet(t) = {l}
    BY <1>4
  <2> HIDE DEF t
  <2>2. s \o t \in Seq(L) /\ ToSet(s \o t) = ToSet(s) \cup ToSet(t)
    BY <2>1, ConcatenatedElements
  <2> QED BY <2>1, <2>2 DEF t
<1>7. /\ ValidationLogs(ep, o) \in Seq(L)
      /\ ToSet(ValidationLogs(ep, o)) \subseteq {deployed, validated} \cup ToSet(vi)
  <2>1. PICK t \in Seq(L) : /\ ValidationLogs(ep, o) = t \o vi
                            /\ ToSet(t) \subseteq {deployed, validated}
    <3> DEFINE d == <<deployed>>
               e == <<>>
    <3>1. d \in Seq(L) /\ ToSet(d) = {deployed} /\ e \in Seq(L) /\ ToSet(e) = {}
      BY <1>1, <1>4, <1>5
    <3>2. \/ ValidationLogs(ep, o) = (e \o <<validated>>) \o vi
          \/ ValidationLogs(ep, o) = (d \o <<validated>>) \o vi
      BY <1>2
    <3> HIDE DEF d, e
    <3>3. /\ e \o <<validated>> \in Seq(L) /\ ToSet(e \o <<validated>>) = {validated}
          /\ d \o <<validated>> \in Seq(L) /\ ToSet(d \o <<validated>>) = {deployed, validated}
      BY <1>1, <1>6, <3>1
    <3> QED BY <3>2, <3>3
  <2>2. t \o vi \in Seq(L) /\ ToSet(t \o vi) = ToSet(t) \cup ToSet(vi)
    BY <1>9, ConcatenatedElements
  <2> QED BY <2>1, <2>2
<1>8. /\ ExecutionLogs(ep, run) \in Seq(L)
      /\ event \in ToSet(ExecutionLogs(ep, run))
      /\ ToSet(ExecutionLogs(ep, run)) \subseteq {executed, reason, event} \cup ToSet(ei)
  <2>1. PICK t \in Seq(L) : /\ ExecutionLogs(ep, run) = t \o <<event>>
                            /\ ToSet(t) \subseteq {executed, reason} \cup ToSet(ei)
    <3> DEFINE x == <<executed>>
               r == <<reason>>
               e == <<>>
    <3>1. /\ e \in Seq(L) /\ x \in Seq(L) /\ r \in Seq(L)
          /\ ToSet(e) = {} /\ ToSet(x) = {executed} /\ ToSet(r) = {reason}
      BY <1>1, <1>4, <1>5
    <3>2. \/ ExecutionLogs(ep, run) = (x \o ei) \o <<event>>
          \/ ExecutionLogs(ep, run) = r \o <<event>>
          \/ ExecutionLogs(ep, run) = e \o <<event>>
      BY <1>3
    <3> HIDE DEF x, r, e
    <3>3. x \o ei \in Seq(L) /\ ToSet(x \o ei) = {executed} \cup ToSet(ei)
      BY <1>9, <3>1, ConcatenatedElements
    <3> QED BY <3>1, <3>2, <3>3
  <2>2. /\ t \o <<event>> \in Seq(L)
        /\ ToSet(t \o <<event>>) = ToSet(t) \cup {event}
    BY <1>1, <1>6
  <2> QED BY <2>1, <2>2
<1> QED BY <1>1, <1>7, <1>8, <1>9 DEF L, event

\* The entry point's events of a call are those of its runs.
LEMMA CallEvents ==
    ASSUME NEW call, call.runs \in Seq([op : Ops, outcome : Ends]),
           call.logged \in Seq(Imitations), call.entryPoint # "account"
    PROVE  /\ CallLogs(call) \in Seq(LogsFrom(call.entryPoint))
           /\ \A i \in DOMAIN call.runs :
                  EventOf(call.entryPoint, call.runs[i]) \in ToSet(CallLogs(call))
           /\ \A l \in ToSet(CallLogs(call)) : IsEvent(l) /\ l.address = call.entryPoint =>
                  \E i \in DOMAIN call.runs : l = EventOf(call.entryPoint, call.runs[i])
<1> DEFINE ep == call.entryPoint
           runs == call.runs
           n == Len(runs)
           L == LogsFrom(ep)
           before == call.logged
           vs == [i \in DOMAIN runs |-> ValidationLogs(ep, runs[i].op)]
           es == [i \in DOMAIN runs |-> ExecutionLogs(ep, runs[i])]
           border == Log(ep, "BeforeExecution", NoAddress, TRUE)
<1>1. CallLogs(call) = ((before \o FlattenSeq(vs)) \o <<border>>) \o FlattenSeq(es)
  BY DEF CallLogs
<1>0. /\ ep # "account" /\ before \in Seq(L)
      /\ \A l \in ToSet(before) : l.address = "account"
  <2>1. before \in Seq(Imitations) /\ Imitations \subseteq L
    BY ImitationsAre
  <2> HIDE DEF before, L
  <2>2. before \in Seq(L) /\ ToSet(before) \subseteq Imitations
    BY <2>1, SequenceElements
  <2> QED BY <2>2, ImitationsAre
<1> DEFINE R == [op : Ops, outcome : Ends]
<1>2. n \in Nat /\ DOMAIN runs = 1..n /\ \A i \in 1..n : runs[i] \in R
  <2>1. runs \in Seq(R) OBVIOUS
  <2> HIDE DEF R, runs
  <2> QED BY <2>1
<1>3. /\ vs \in Seq(Seq(L)) /\ Len(vs) = n /\ es \in Seq(Seq(L)) /\ Len(es) = n
      /\ \A i \in 1..n : vs[i] = ValidationLogs(ep, runs[i].op) /\ es[i] = ExecutionLogs(ep, runs[i])
  <2> HIDE DEF L, ep
  <2> HIDE DEF runs, n
  <2>1. \A i \in 1..n : /\ ValidationLogs(ep, runs[i].op) \in Seq(L)
                        /\ ExecutionLogs(ep, runs[i]) \in Seq(L)
    BY <1>2, <1>0, RunLogs DEF L
  <2>2. /\ vs \in [1..n -> Seq(L)] /\ es \in [1..n -> Seq(L)]
        /\ \A i \in 1..n : vs[i] = ValidationLogs(ep, runs[i].op) /\ es[i] = ExecutionLogs(ep, runs[i])
    BY <1>2, <2>1
  <2> HIDE DEF vs, es, L
  <2> QED BY <1>2, <2>2
<1>4. border \in L /\ ~ IsEvent(border)
  BY DEF LogsFrom, Log, IsEvent
<1> HIDE DEF vs, es, border, L, n, before
<1>5. /\ FlattenSeq(vs) \in Seq(L) /\ ToSet(FlattenSeq(vs)) = UNION {ToSet(vs[i]) : i \in 1..n}
      /\ FlattenSeq(es) \in Seq(L) /\ ToSet(FlattenSeq(es)) = UNION {ToSet(es[i]) : i \in 1..n}
  BY <1>3, FlattenedElements
<1>6. <<border>> \in Seq(L) /\ ToSet(<<border>>) = {border}
  BY <1>4 DEF ToSet
<1> DEFINE v == FlattenSeq(vs)
           b == <<border>>
           e == FlattenSeq(es)
           u == before \o v
           w == u \o b
<1>7. v \in Seq(L) /\ b \in Seq(L) /\ e \in Seq(L)
  BY <1>5, <1>6
<1>8. CallLogs(call) = w \o e
  BY <1>1
<1>9. /\ ToSet(v) = UNION {ToSet(vs[i]) : i \in 1..n}
      /\ ToSet(e) = UNION {ToSet(es[i]) : i \in 1..n}
      /\ ToSet(b) = {border}
  BY <1>5, <1>6
<1> HIDE DEF v, b, e
<1>15. u \in Seq(L) /\ ToSet(u) = ToSet(before) \cup ToSet(v)
  BY <1>0, <1>7, ConcatenatedElements
<1> HIDE DEF u
<1>10. w \in Seq(L) /\ ToSet(w) = ToSet(u) \cup ToSet(b)
  BY <1>7, <1>15, ConcatenatedElements
<1> HIDE DEF w
<1>11. w \o e \in Seq(L) /\ ToSet(w \o e) = ToSet(w) \cup ToSet(e)
  BY <1>7, <1>10, ConcatenatedElements
<1>12. ASSUME NEW i \in 1..n
       PROVE  /\ \A l \in ToSet(vs[i]) : ~ (IsEvent(l) /\ l.address = ep)
              /\ EventOf(ep, runs[i]) \in ToSet(es[i])
              /\ \A l \in ToSet(es[i]) :
                     IsEvent(l) /\ l.address = ep => l = EventOf(ep, runs[i])
  <2> DEFINE run == runs[i]
  <2>1. run \in [op : Ops, outcome : Ends] /\ ep # "account"
    BY <1>0, <1>2
  <2>2. vs[i] = ValidationLogs(ep, run.op) /\ es[i] = ExecutionLogs(ep, run)
    BY <1>3
  <2> HIDE DEF ep, runs, run
  <2>3. /\ \A l \in ToSet(vs[i]) : ~ (IsEvent(l) /\ l.address = ep)
        /\ EventOf(ep, run) \in ToSet(es[i])
        /\ \A l \in ToSet(es[i]) : IsEvent(l) /\ l.address = ep => l = EventOf(ep, run)
    BY <2>1, <2>2, RunLogs
  <2> QED BY <2>3 DEF run
<1>13. \A l \in ToSet(w \o e) : IsEvent(l) /\ l.address = ep =>
           \E i \in 1..n : l = EventOf(ep, runs[i])
  <2> HIDE DEF ep, runs
  <2>1. ASSUME NEW l \in ToSet(w \o e), IsEvent(l), l.address = ep
        PROVE  \E i \in 1..n : l = EventOf(ep, runs[i])
    <3>1. l \notin ToSet(before) /\ l \notin ToSet(v) /\ l \notin ToSet(b)
      BY <1>0, <1>4, <1>12, <1>9, <2>1
    <3>2. PICK i \in 1..n : l \in ToSet(es[i])
      BY <1>10, <1>11, <1>15, <1>9, <2>1, <3>1
    <3> QED BY <1>12, <2>1, <3>2
  <2> QED BY <2>1
<1>14. \A i \in 1..n : EventOf(ep, runs[i]) \in ToSet(w \o e)
  <2> HIDE DEF ep, runs
  <2> QED BY <1>11, <1>12, <1>9
<1> QED BY <1>2, <1>11, <1>8, <1>13, <1>14 DEF L

\* getBundleStatus calls an operation of our transaction successful if and
\* only if its execution was.
LEMMA DetailsTell ==
    ASSUME NEW p \in Sendings, Sound(p.ops), NEW outcome \in [DOMAIN p.ops -> Ends],
           NEW o \in ToSet(p.ops)
    PROVE  LET tx == OurTransaction(p, outcome)
           IN  /\ \E run \in RunsOf(tx) : run.op = o
               /\ userOperationDetails(logsOf(tx), entryPointOf[p.ops[1]])[o].status = "succesful"
                      <=> [op |-> o, outcome |-> "success"] \in RunsOf(tx)
<1> DEFINE tx == OurTransaction(p, outcome)
           ep == entryPointOf[p.ops[1]]
           n == Len(p.ops)
           runs == [i \in DOMAIN p.ops |-> [op |-> p.ops[i], outcome |-> outcome[i]]]
           call == [entryPoint |-> ep, logged |-> <<>>, runs |-> runs]
           logs == logsOf(tx)
           L == LogsFrom(ep)
<1>1. tx.status = "success" /\ tx.calls = <<call>>
  BY DEF OurTransaction
<1>2. /\ n \in Nat /\ DOMAIN p.ops = 1..n /\ runs \in Seq([op : Ops, outcome : Ends])
      /\ DOMAIN runs = 1..n
      /\ \A i \in 1..n : runs[i] = [op |-> p.ops[i], outcome |-> outcome[i]]
  <2>1. p.ops \in Seq(Ops) BY DEF Sendings
  <2>2. n \in Nat /\ DOMAIN p.ops = 1..n /\ \A i \in 1..n : p.ops[i] \in Ops /\ outcome[i] \in Ends
    BY <2>1
  <2>3. runs \in [1..n -> [op : Ops, outcome : Ends]]
    BY <2>2
  <2> QED BY <2>2, <2>3
<1>3. /\ call.entryPoint = ep /\ call.runs = runs /\ call.logged \in Seq(Imitations)
      /\ ep # "account"
  <2>1. p.ops[1] \in Ops
    BY DEF Sound
  <2> QED BY <2>1, ImitationsAre
<1>4. RunsOf(tx) = ToSet(runs)
  <2> HIDE DEF call, tx
  <2>1. DOMAIN tx.calls = {1} /\ tx.calls[1] = call
    BY <1>1
  <2> QED BY <1>1, <1>3, <2>1 DEF RunsOf
<1>5. ToSet(runs) = {runs[i] : i \in 1..n}
  BY <1>2 DEF ToSet
<1>6. PICK k \in 1..n : o = p.ops[k]
  BY <1>2 DEF ToSet
<1>7. \A i \in 1..n : p.ops[i] = o => i = k
  BY <1>2, <1>6 DEF Sound, IsInjective
<1>8. logs = FlattenSeq(<<CallLogs(call)>>)
  <2> HIDE DEF call, tx
  <2>1. DOMAIN tx.calls = {1} /\ tx.calls[1] = call
    BY <1>1
  <2>2. [i \in DOMAIN tx.calls |-> CallLogs(tx.calls[i])] = <<CallLogs(call)>>
    BY <2>1
  <2> QED BY <1>1, <2>2 DEF logsOf
<1>9. /\ CallLogs(call) \in Seq(L)
      /\ \A i \in 1..n : EventOf(ep, runs[i]) \in ToSet(CallLogs(call))
      /\ \A l \in ToSet(CallLogs(call)) :
             IsEvent(l) /\ l.address = ep => \E i \in 1..n : l = EventOf(ep, runs[i])
  <2> HIDE DEF call, runs, ep
  <2> QED BY <1>2, <1>3, CallEvents DEF L
<1>10. logs \in Seq(L) /\ ToSet(logs) = ToSet(CallLogs(call))
  <2> DEFINE c == CallLogs(call)
             bs == <<c>>
  <2>1. c \in Seq(L) BY <1>9
  <2> HIDE DEF c, L
  <2>2. bs \in Seq(Seq(L)) /\ Len(bs) = 1 /\ bs[1] = c
    BY <2>1
  <2>3. UNION {ToSet(bs[i]) : i \in 1..1} = ToSet(c)
    BY <2>2
  <2> HIDE DEF bs
  <2>4. FlattenSeq(bs) \in Seq(L) /\ ToSet(FlattenSeq(bs)) = UNION {ToSet(bs[i]) : i \in 1..1}
    BY <2>2, FlattenedElements
  <2> QED BY <1>8, <2>3, <2>4 DEF c, bs
<1> HIDE DEF logs, tx, call, L
<1>11. DOMAIN logs = 1..Len(logs) /\ ToSet(logs) = {logs[i] : i \in 1..Len(logs)}
  BY <1>10, SequenceElements
<1> DEFINE told == {i \in DOMAIN logs :
                      /\ logs[i].address = ep
                      /\ logs[i].name \in {"AccountDeployed", "UserOperationRevertReason",
                                           "UserOperationEvent"}}
           good == \A i \in told : logs[i].op = o /\ logs[i].name = "UserOperationEvent"
                                       => logs[i].success
           event == EventOf(ep, runs[k])
<1>12. /\ event.address = ep /\ event.name = "UserOperationEvent" /\ event.op = o
       /\ event.success = (outcome[k] = "success")
  BY <1>2, <1>6 DEF EventOf, Log
<1>13. PICK j \in told : logs[j] = event
  <2>1. event \in ToSet(logs)
    BY <1>9, <1>10
  <2> HIDE DEF event
  <2>2. PICK i \in 1..Len(logs) : logs[i] = event
    BY <1>11, <2>1
  <2> QED BY <1>11, <1>12, <2>2
<1>14. ASSUME NEW i \in told, logs[i].op = o, logs[i].name = "UserOperationEvent"
       PROVE  logs[i] = event
  <2>1. PICK m \in 1..n : logs[i] = EventOf(ep, runs[m])
    BY <1>9, <1>10, <1>11, <1>14 DEF IsEvent
  <2>2. p.ops[m] = o
    BY <1>2, <1>14, <2>1 DEF EventOf, Log
  <2> QED BY <1>7, <2>1, <2>2
<1>15. good <=> outcome[k] = "success"
  <2> HIDE DEF told, event
  <2> QED BY <1>12, <1>13, <1>14
<1>16. userOperationDetails(logs, ep)[o].status
           = IF good THEN "succesful" ELSE "calldata_phase_reverted"
  <2>1. o \in {logs[i].op : i \in told}
    <3> HIDE DEF told, event
    <3> QED BY <1>12, <1>13
  <2> QED BY <2>1 DEF userOperationDetails
<1>17. [op |-> o, outcome |-> "success"] \in ToSet(runs) <=> outcome[k] = "success"
  <2>1. ASSUME outcome[k] = "success"
        PROVE  [op |-> o, outcome |-> "success"] \in ToSet(runs)
    <3>1. runs[k] = [op |-> o, outcome |-> "success"]
      BY <1>2, <1>6, <2>1
    <3> HIDE DEF runs
    <3> QED BY <1>5, <1>6, <3>1
  <2>2. ASSUME [op |-> o, outcome |-> "success"] \in ToSet(runs)
        PROVE  outcome[k] = "success"
    <3>1. PICK i \in 1..n : [op |-> o, outcome |-> "success"] = [op |-> p.ops[i], outcome |-> outcome[i]]
      <4>1. PICK i \in 1..n : [op |-> o, outcome |-> "success"] = runs[i]
        <5> HIDE DEF runs
        <5> QED BY <1>5, <2>2
      <4> QED BY <1>2, <4>1
    <3>2. p.ops[i] = o /\ outcome[i] = "success"
      BY <3>1
    <3> QED BY <1>7, <3>2
  <2> QED BY <2>1, <2>2
<1>18. runs[k] \in ToSet(runs) /\ runs[k].op = o
  BY <1>2, <1>5, <1>6
<1> HIDE DEF good, runs
<1> QED BY <1>4, <1>15, <1>16, <1>17, <1>18 DEF tx, logs

-----------------------------------------------------------------------------
(* The chain.                                                              *)

Transactions == Rivals \cup UNION {Outcomes(p, {}) : p \in Sendings}

\* A hash is mined once.
GoodChain(ch) ==
    /\ ch \in Seq(Seq(Transactions))
    /\ \A n, m \in DOMAIN ch : \A tx \in ToSet(ch[n]), other \in ToSet(ch[m]) :
           tx.hash = other.hash => n = m /\ tx = other

OursMined == {tx \in TransactionsIn(chain) : tx.hash \in Ours}

\* What a transaction can become does not depend on the chain, but for whether
\* it can run at all.
LEMMA OutcomesAre ==
    ASSUME NEW p \in Sendings, NEW done, NEW tx \in Outcomes(p, done)
    PROVE  /\ tx.hash = p.hash /\ tx \in Outcomes(p, {})
           /\ \/ tx.status = "reverted"
              \/ \E outcome \in [DOMAIN p.ops -> Ends] : tx = OurTransaction(p, outcome)
<1>1. Runnable(ToSet(p.ops), {})
  BY DEF Runnable
<1>2. \/ tx \in {Failed(p, FALSE), Failed(p, TRUE)}
      \/ \E outcome \in [DOMAIN p.ops -> Ends] : tx = OurTransaction(p, outcome)
  BY DEF Outcomes, Ends
<1>3. tx \in Outcomes(p, {})
  BY <1>1, <1>2 DEF Outcomes, Ends
<1>4. CASE tx \in {Failed(p, FALSE), Failed(p, TRUE)}
  <2>1. tx.hash = p.hash /\ tx.status = "reverted"
    BY <1>4 DEF Failed, OurTransaction
  <2> QED BY <1>3, <2>1
<1>5. ASSUME NEW outcome \in [DOMAIN p.ops -> Ends], tx = OurTransaction(p, outcome)
      PROVE  tx.hash = p.hash
  BY <1>5 DEF OurTransaction
<1> QED BY <1>2, <1>3, <1>4, <1>5

\* A mined hash stands for one transaction, in one block.
LEMMA MinedOnce ==
    ASSUME NEW ch, GoodChain(ch), NEW h, IsMined(ch, h)
    PROVE  /\ transactionOf(ch, h) \in TransactionsIn(ch)
           /\ transactionOf(ch, h).hash = h
           /\ \A tx \in TransactionsIn(ch) : tx.hash = h => tx = transactionOf(ch, h)
           /\ blockNumberOf(ch, h) \in 1..Len(ch)
           /\ \E tx \in ToSet(ch[blockNumberOf(ch, h)]) : tx.hash = h
<1>1. PICK n \in DOMAIN ch : \E tx \in ToSet(ch[n]) : tx.hash = h
  BY DEF IsMined, TransactionsIn
<1>2. /\ transactionOf(ch, h) \in TransactionsIn(ch)
      /\ transactionOf(ch, h).hash = h
  BY DEF IsMined, transactionOf
<1>3. /\ blockNumberOf(ch, h) \in DOMAIN ch
      /\ \E tx \in ToSet(ch[blockNumberOf(ch, h)]) : tx.hash = h
  BY <1>1 DEF blockNumberOf
<1>4. \A tx, other \in TransactionsIn(ch) : tx.hash = other.hash => tx = other
  BY DEF GoodChain, TransactionsIn
<1>5. DOMAIN ch = 1..Len(ch)
  BY DEF GoodChain
<1> QED BY <1>2, <1>3, <1>4, <1>5

\* What a block that follows the chain may contain.
Following(block) ==
    /\ block \in Seq(Transactions)
    /\ \A tx \in ToSet(block) : \/ tx \in Rivals /\ tx \notin TransactionsIn(chain)
                                \/ \E p \in pending : tx \in Outcomes(p, {})
    /\ \A tx, other \in ToSet(block) :
           tx.hash = other.hash \/ (tx.hash \in Ours /\ other.hash \in Ours) => tx = other

LEMMA BlocksAre ==
    ASSUME pending \in SUBSET Sendings, NEW block \in NextBlocks
    PROVE  Following(block)
<1> DEFINE before == TransactionsIn(chain)
           rivals == {r \in Rivals \ before : Runnable(Executed({r}), Executed(before))}
           ours(txs) == UNION {Outcomes(p, Executed(txs)) : p \in pending}
<1>0. /\ \A r \in Rivals : r.hash \notin Ours
      /\ \A r, other \in Rivals : r.hash = other.hash => r = other
  BY SettlementAssumption DEF Ours
<1>1. \/ block = <<>>
      \/ \E r \in rivals : block = <<r>>
      \/ \E tx \in ours(before) : block = <<tx>>
      \/ \E r \in rivals : \E tx \in ours(before \cup {r}) : block = <<r, tx>>
  BY DEF NextBlocks
<1>2. \A r \in rivals : r \in Transactions /\ r \in Rivals /\ r \notin TransactionsIn(chain)
  BY DEF Transactions
<1>3. ASSUME NEW txs, NEW tx \in ours(txs)
      PROVE  /\ tx \in Transactions /\ tx.hash \in Ours
             /\ \E p \in pending : tx \in Outcomes(p, {})
  <2>1. PICK p \in pending : tx \in Outcomes(p, Executed(txs))
    BY <1>3
  <2>2. p \in Sendings
    OBVIOUS
  <2>3. tx.hash = p.hash /\ tx \in Outcomes(p, {})
    BY <2>1, <2>2, OutcomesAre
  <2>4. p.hash \in Ours
    BY <2>2 DEF Sendings, Ours
  <2> QED BY <2>2, <2>3, <2>4 DEF Transactions
<1> HIDE DEF rivals, ours, before
<1>4. CASE block = <<>>
  <2>1. block \in Seq(Transactions) /\ ToSet(block) = {}
    BY <1>4 DEF ToSet
  <2> QED BY <2>1 DEF Following
<1>5. ASSUME NEW r \in rivals, block = <<r>>
      PROVE  block \in Seq(Transactions) /\ ToSet(block) = {r}
  BY <1>2, <1>5 DEF ToSet
<1>6. ASSUME NEW tx \in ours(before), block = <<tx>>
      PROVE  block \in Seq(Transactions) /\ ToSet(block) = {tx}
  BY <1>3, <1>6 DEF ToSet
<1>7. ASSUME NEW r \in rivals, NEW tx \in ours(before \cup {r}), block = <<r, tx>>
      PROVE  block \in Seq(Transactions) /\ ToSet(block) = {r, tx}
  <2>1. r \in Transactions /\ tx \in Transactions
    BY <1>2, <1>3
  <2> QED BY <1>7, <2>1 DEF ToSet
<1>8. ASSUME NEW r \in rivals, block = <<r>>
      PROVE  Following(block)
  BY <1>2, <1>5, <1>8 DEF Following
<1>9. ASSUME NEW t \in ours(before), block = <<t>>
      PROVE  Following(block)
  BY <1>3, <1>6, <1>9 DEF Following
<1>10. ASSUME NEW r \in rivals, NEW t \in ours(before \cup {r}), block = <<r, t>>
      PROVE  Following(block)
  <2>1. /\ r \in Rivals /\ r \notin TransactionsIn(chain) /\ r.hash \notin Ours
        /\ t.hash \in Ours /\ \E p \in pending : t \in Outcomes(p, {})
    BY <1>0, <1>2, <1>3
  <2> QED BY <1>7, <1>10, <2>1 DEF Following
<1> QED BY <1>1, <1>4, <1>8, <1>9, <1>10

\* What was mined stays where it is.
LEMMA ChainGrows ==
    ASSUME GoodChain(chain), pending \in SUBSET Sendings,
           \A tx \in TransactionsIn(chain), p \in pending : tx.hash # p.hash,
           NEW block, Following(block), NEW next, next = Append(chain, block)
    PROVE  /\ GoodChain(next)
           /\ Len(chain) \in Nat /\ Len(next) = Len(chain) + 1
           /\ \A n \in 1..Len(chain) : next[n] = chain[n]
           /\ TransactionsIn(next) = TransactionsIn(chain) \cup ToSet(block)
           /\ fromBlock(chain) \in Nat /\ fromBlock(next) \in Nat
           /\ fromBlock(chain) =< fromBlock(next)
           /\ \A h : IsMined(chain, h) =>
                  /\ IsMined(next, h)
                  /\ transactionOf(next, h) = transactionOf(chain, h)
                  /\ blockNumberOf(next, h) = blockNumberOf(chain, h)
<1> DEFINE n == Len(chain)
<1>1. /\ chain \in Seq(Seq(Transactions)) /\ n \in Nat /\ DOMAIN chain = 1..n
      /\ block \in Seq(Transactions)
  BY DEF GoodChain, Following
<1>2. /\ next \in Seq(Seq(Transactions)) /\ Len(next) = n + 1 /\ DOMAIN next = 1..(n + 1)
      /\ \A i \in 1..n : next[i] = chain[i]
      /\ next[n + 1] = block
  BY <1>1, AppendProperties
<1>3. fromBlock(chain) \in Nat /\ fromBlock(next) \in Nat /\ fromBlock(chain) =< fromBlock(next)
  BY <1>1, <1>2, ReceiptsAssumption DEF fromBlock
<1> HIDE DEF n
<1>4. TransactionsIn(next) = TransactionsIn(chain) \cup ToSet(block)
  <2>1. 1..(n + 1) = (1..n) \cup {n + 1}
    BY <1>1
  <2> QED BY <1>1, <1>2, <2>1 DEF TransactionsIn

\* A new transaction's hash was not mined before.
<1>5. ASSUME NEW tx \in TransactionsIn(chain), NEW other \in ToSet(block)
      PROVE  tx.hash # other.hash
  <2>1. ASSUME NEW p \in pending, other \in Outcomes(p, {})
        PROVE  tx.hash # other.hash
    BY <2>1, OutcomesAre
  <2>2. ASSUME other \in Rivals, other \notin TransactionsIn(chain)
        PROVE  tx.hash # other.hash
    <3>1. tx \in Transactions
      <4>1. PICK i \in DOMAIN chain : tx \in ToSet(chain[i])
        BY DEF TransactionsIn
      <4>2. chain[i] \in Seq(Transactions)
        BY <1>1
      <4> QED BY <4>1, <4>2, SequenceElements
    <3>2. CASE tx \in Rivals
      BY <2>2, <3>2, SettlementAssumption
    <3>3. ASSUME NEW p \in Sendings, tx \in Outcomes(p, {})
          PROVE  tx.hash # other.hash
      <4>1. tx.hash = p.hash
        BY <3>3, OutcomesAre
      <4>2. tx.hash \in ToSet(Hashes)
        BY <4>1 DEF Sendings
      <4> QED BY <2>2, <4>2, SettlementAssumption
    <3> QED BY <3>1, <3>2, <3>3 DEF Transactions
  <2> QED BY <2>1, <2>2 DEF Following
<1>6. GoodChain(next)
  <2> SUFFICES ASSUME NEW i \in DOMAIN next, NEW j \in DOMAIN next,
                      NEW tx \in ToSet(next[i]), NEW other \in ToSet(next[j]),
                      tx.hash = other.hash
               PROVE  i = j /\ tx = other
    <3>1. next \in Seq(Seq(Transactions))
      BY <1>2
    <3> QED BY <3>1 DEF GoodChain
  <2>1. CASE i \in 1..n /\ j \in 1..n
    <3>1. /\ i \in DOMAIN chain /\ j \in DOMAIN chain
          /\ tx \in ToSet(chain[i]) /\ other \in ToSet(chain[j])
      BY <1>1, <1>2, <2>1
    <3> QED BY <3>1 DEF GoodChain
  <2>2. CASE i = n + 1 /\ j = n + 1
    BY <1>2, <2>2 DEF Following
  <2>3. CASE i \in 1..n /\ j = n + 1
    <3>1. tx \in TransactionsIn(chain)
      BY <1>1, <1>2, <2>3 DEF TransactionsIn
    <3> QED BY <1>2, <1>5, <2>3, <3>1
  <2>4. CASE i = n + 1 /\ j \in 1..n
    <3>1. other \in TransactionsIn(chain)
      BY <1>1, <1>2, <2>4 DEF TransactionsIn
    <3> QED BY <1>2, <1>5, <2>4, <3>1
  <2>5. (i \in 1..n \/ i = n + 1) /\ (j \in 1..n \/ j = n + 1)
    BY <1>1, <1>2
  <2> QED BY <2>1, <2>2, <2>3, <2>4, <2>5
<1>7. ASSUME NEW h, IsMined(chain, h)
      PROVE  /\ IsMined(next, h)
             /\ transactionOf(next, h) = transactionOf(chain, h)
             /\ blockNumberOf(next, h) = blockNumberOf(chain, h)
  <2> DEFINE t == transactionOf(chain, h)
             b == blockNumberOf(chain, h)
  <2>1. /\ t \in TransactionsIn(chain) /\ t.hash = h
        /\ b \in 1..n /\ \E tx \in ToSet(chain[b]) : tx.hash = h
    BY <1>7, MinedOnce DEF n
  <2> HIDE DEF t, b
  <2>2. t \in TransactionsIn(next) /\ IsMined(next, h)
    BY <1>4, <2>1 DEF IsMined
  <2>3. /\ \A tx \in TransactionsIn(next) : tx.hash = h => tx = transactionOf(next, h)
        /\ blockNumberOf(next, h) \in 1..Len(next)
        /\ \E tx \in ToSet(next[blockNumberOf(next, h)]) : tx.hash = h
    BY <1>6, <2>2, MinedOnce
  <2>4. transactionOf(next, h) = t
    BY <2>1, <2>2, <2>3
  <2>5. b \in DOMAIN next /\ blockNumberOf(next, h) \in DOMAIN next
        /\ \E tx \in ToSet(next[b]) : tx.hash = h
    BY <1>1, <1>2, <2>1, <2>3
  <2>6. blockNumberOf(next, h) = b
    BY <1>6, <2>3, <2>5 DEF GoodChain
  <2> QED BY <2>2, <2>4, <2>6 DEF t, b
<1> QED BY <1>1, <1>2, <1>3, <1>4, <1>6, <1>7 DEF n

-----------------------------------------------------------------------------
(* What becomes of the bundle.                                             *)

SentHashes == {Hashes[i] : i \in 1..sent}

\* What miners may know is not mined yet, and the next hash is new.
SendInv ==
    /\ sent \in 1..Len(Hashes)
    /\ pending \in SUBSET Sendings
    /\ \A p \in pending : p.hash \in SentHashes /\ Sound(p.ops)
    /\ \A tx \in OursMined : tx.hash \in SentHashes
    /\ \A tx \in TransactionsIn(chain), p \in pending : tx.hash # p.hash

\* p has the operations that are followed, or more.
Carries(p) == Sound(p.ops) /\ ToSet(followed.ops) \subseteq ToSet(p.ops)

\* While the transaction is followed, at most one that replaces or is replaced by
\* it is mined; all of them have the operations that are still followed.
FollowInv ==
    followed # NoTransaction =>
        /\ Sound(followed.ops)
        /\ followed.transactionHash \in Ours
        /\ followed.previousTransactionHashes \in Seq(Ours)
        /\ \A p \in pending : Carries(p)
        /\ \A tx \in OursMined : pending = {} /\ \E p \in Sendings : tx \in Outcomes(p, {}) /\ Carries(p)
        /\ \A tx, other \in OursMined : tx = other

\* While somebody looks for a frontrunner, nothing of ours can be mined any
\* more, and what was mined has reverted.
NothingOfOurs ==
    /\ followed = NoTransaction
    /\ pending = {}
    /\ \A tx \in OursMined : tx.status = "reverted"

WatchInv ==
    /\ watches \in [Ops -> [transactionHash : Ours \cup {NoHash}, blockNumber : Nat, seen : Nat]]
    /\ \A o \in Ops : watches[o] # NoWatch =>
           /\ watches[o].transactionHash \in Ours
           /\ IsMined(chain, watches[o].transactionHash)
           /\ watches[o].blockNumber = blockNumberOf(chain, watches[o].transactionHash)
    /\ (\E o \in Ops : watches[o] # NoWatch) \/ calls # {} => NothingOfOurs

\* The blocks up to the second after h's are there, and as far as getLogs looks
\* back none of them ran o.
NotRunNear(o, h) ==
    \A n \in 1..(blockNumberOf(chain, h) + 2) :
        n >= fromBlock(chain) => o \notin Executed(ToSet(chain[n]))

TwoBlocksAfter(h) == IsMined(chain, h) /\ blockNumberOf(chain, h) + 2 =< Len(chain)

\* A call knows of the right transaction, and what it has read is still true.
CallOK(c) ==
    /\ c \in [op : Ops, transactionHash : Ours, started : Nat, read : BOOLEAN, receipt : {c.receipt}]
    /\ TwoBlocksAfter(c.transactionHash)
    /\ c.read /\ c.receipt = Nothing => NotRunNear(c.op, c.transactionHash)
    /\ c.read /\ c.receipt # Nothing =>
           /\ RanIn(c.op, c.receipt[1].transactionHash)
           /\ c.receipt[1].transactionHash \notin Ours

\* What was called rejected.
RejectedInv ==
    \A o \in Ops : userOperationToStatus[o].status = "rejected" =>
        LET h == userOperationToStatus[o].transactionHash
        IN  TwoBlocksAfter(h) /\ NotRunNear(o, h)

SInv ==
    /\ KInv
    /\ GoodChain(chain)
    /\ SendInv
    /\ FollowInv
    /\ WatchInv
    /\ \A c \in calls : CallOK(c)
    /\ ReportsTrue
    /\ RejectedInv

StatusesTrue ==
    \A o \in Ops : userOperationToStatus[o].status = "included" =>
                       RanIn(o, userOperationToStatus[o].transactionHash)

EventTrue(e) ==
    LET o    == e.userOperationHash
        hash == e.transactionHash
        tx   == transactionOf(chain, hash)
    IN  /\ IsMined(chain, hash)
        /\ CASE e.eventType = "included_onchain" ->
                   hash \in Ours /\ [op |-> o, outcome |-> "success"] \in RunsOf(tx)
             [] e.eventType = "execution_reverted_onchain" ->
                   /\ hash \in Ours /\ RanIn(o, hash)
                   /\ [op |-> o, outcome |-> "success"] \notin RunsOf(tx)
             [] e.eventType = "frontran_onchain" -> hash \notin Ours /\ RanIn(o, hash)
             [] e.eventType = "failed_onchain" -> hash \in Ours /\ tx.status = "reverted"

LEMMA Reports == ReportsTrue <=> StatusesTrue /\ \A e \in emitted : EventTrue(e)
  BY DEF ReportsTrue, StatusesTrue, EventTrue

-----------------------------------------------------------------------------
(* The past does not change.                                               *)

ChainKept ==
    /\ GoodChain(chain')
    /\ Len(chain) \in Nat /\ Len(chain') \in Nat /\ Len(chain) =< Len(chain')
    /\ \A n \in 1..Len(chain) : chain'[n] = chain[n]
    /\ fromBlock(chain) \in Nat /\ fromBlock(chain') \in Nat
    /\ fromBlock(chain) =< fromBlock(chain')
    /\ \A h : IsMined(chain, h) =>
           /\ IsMined(chain', h)
           /\ transactionOf(chain', h) = transactionOf(chain, h)
           /\ blockNumberOf(chain', h) = blockNumberOf(chain, h)

LEMMA SameChain ==
    ASSUME GoodChain(chain), UNCHANGED chain
    PROVE  ChainKept
<1>1. chain \in Seq(Seq(Transactions))
  BY DEF GoodChain
<1>2. Len(chain) \in Nat
  BY <1>1
<1>3. fromBlock(chain) \in Nat
  BY <1>2, ReceiptsAssumption DEF fromBlock
<1> QED BY <1>2, <1>3 DEF ChainKept

LEMMA PastKept ==
    ASSUME GoodChain(chain), ChainKept
    PROVE  /\ \A o, h : RanIn(o, h) => RanIn(o, h)'
           /\ \A h : TwoBlocksAfter(h) => TwoBlocksAfter(h)'
           /\ \A o, h : TwoBlocksAfter(h) /\ NotRunNear(o, h) => NotRunNear(o, h)'
           /\ \A c : CallOK(c) => CallOK(c)'
           /\ \A e : EventTrue(e) => EventTrue(e)'
<1>1. ASSUME NEW o, NEW h, RanIn(o, h)
      PROVE  RanIn(o, h)'
  <2>1. IsMined(chain, h) /\ \E run \in RunsOf(transactionOf(chain, h)) : run.op = o
    BY <1>1 DEF RanIn
  <2>2. IsMined(chain', h) /\ transactionOf(chain', h) = transactionOf(chain, h)
    BY <2>1 DEF ChainKept
  <2>3. \E run \in RunsOf(transactionOf(chain', h)) : run.op = o
    BY <2>1, <2>2
  <2> QED BY <2>2, <2>3 DEF RanIn
<1>2. ASSUME NEW h, TwoBlocksAfter(h)
      PROVE  TwoBlocksAfter(h)' /\ blockNumberOf(chain', h) = blockNumberOf(chain, h)
                                /\ blockNumberOf(chain, h) \in Nat
                                /\ blockNumberOf(chain, h) + 2 =< Len(chain)
  <2>1. IsMined(chain, h) /\ blockNumberOf(chain, h) + 2 =< Len(chain)
    BY <1>2 DEF TwoBlocksAfter
  <2>2. blockNumberOf(chain, h) \in 1..Len(chain)
    BY <2>1, MinedOnce
  <2>3. IsMined(chain', h) /\ blockNumberOf(chain', h) = blockNumberOf(chain, h)
    BY <2>1 DEF ChainKept
  <2>4. blockNumberOf(chain', h) + 2 =< Len(chain')
    BY <2>1, <2>2, <2>3 DEF ChainKept
  <2> QED BY <2>1, <2>2, <2>3, <2>4 DEF TwoBlocksAfter
<1>3. ASSUME NEW o, NEW h, TwoBlocksAfter(h), NotRunNear(o, h)
      PROVE  NotRunNear(o, h)'
  <2> DEFINE b == blockNumberOf(chain, h)
  <2>1. blockNumberOf(chain', h) = b /\ b \in Nat /\ b + 2 =< Len(chain)
    BY <1>2, <1>3
  <2> HIDE DEF b
  <2>2. ASSUME NEW n \in 1..(b + 2), n >= fromBlock(chain')
        PROVE  o \notin Executed(ToSet(chain'[n]))
    <3>1. n \in 1..Len(chain) /\ n >= fromBlock(chain)
      BY <2>1, <2>2 DEF ChainKept
    <3>2. chain'[n] = chain[n]
      BY <3>1 DEF ChainKept
    <3> QED BY <1>3, <2>2, <3>1, <3>2 DEF NotRunNear, b
  <2> QED BY <2>1, <2>2 DEF NotRunNear
<1>4. ASSUME NEW c, CallOK(c)
      PROVE  CallOK(c)'
  <2>1. TwoBlocksAfter(c.transactionHash)'
    BY <1>2, <1>4 DEF CallOK
  <2>2. c.read /\ c.receipt = Nothing => NotRunNear(c.op, c.transactionHash)'
    BY <1>3, <1>4 DEF CallOK
  <2>3. c.read /\ c.receipt # Nothing => RanIn(c.op, c.receipt[1].transactionHash)'
    BY <1>1, <1>4 DEF CallOK
  <2> QED BY <1>4, <2>1, <2>2, <2>3 DEF CallOK
<1>5. ASSUME NEW e, EventTrue(e)
      PROVE  EventTrue(e)'
  <2> DEFINE o == e.userOperationHash
             h == e.transactionHash
  <2>1. IsMined(chain, h)
    BY <1>5 DEF EventTrue
  <2>2. IsMined(chain', h) /\ transactionOf(chain', h) = transactionOf(chain, h)
    BY <2>1 DEF ChainKept
  <2>3. RanIn(o, h) => RanIn(o, h)'
    BY <1>1
  <2>4. RanIn(o, h)' => RanIn(o, h)
    BY <2>1, <2>2 DEF RanIn
  <2> QED BY <1>5, <2>1, <2>2, <2>3, <2>4 DEF EventTrue
<1> QED BY <1>1, <1>2, <1>3, <1>4, <1>5

\* What is known of the past is still known of it.
LEMMA RecordsKept ==
    ASSUME SInv, ChainKept
    PROVE  /\ GoodChain(chain)'
           /\ \A c \in calls : CallOK(c)'
           /\ \A e \in emitted : EventTrue(e)'
           /\ \A o \in Ops : \A h : userOperationToStatus[o].transactionHash = h =>
                  /\ userOperationToStatus[o].status = "included" => RanIn(o, h)'
                  /\ userOperationToStatus[o].status = "rejected" =>
                         TwoBlocksAfter(h)' /\ NotRunNear(o, h)'
<1>1. /\ GoodChain(chain) /\ StatusesTrue /\ RejectedInv
      /\ \A c \in calls : CallOK(c)
      /\ \A e \in emitted : EventTrue(e)
  BY Reports DEF SInv
<1>2. GoodChain(chain)'
  BY DEF ChainKept
<1>3. ASSUME NEW o \in Ops, NEW h, userOperationToStatus[o].transactionHash = h
      PROVE  /\ userOperationToStatus[o].status = "included" => RanIn(o, h)'
             /\ userOperationToStatus[o].status = "rejected" =>
                    TwoBlocksAfter(h)' /\ NotRunNear(o, h)'
  BY <1>1, <1>3, PastKept DEF StatusesTrue, RejectedInv
<1> QED BY <1>1, <1>2, <1>3, PastKept

LEMMA NothingReported ==
    ASSUME SInv, ChainKept, UNCHANGED <<userOperationToStatus, emitted>>
    PROVE  ReportsTrue' /\ RejectedInv'
<1>1. ReportsTrue' <=> StatusesTrue' /\ \A e \in emitted' : EventTrue(e)'
  BY DEF ReportsTrue, StatusesTrue, EventTrue
<1>2. \A e \in emitted' : EventTrue(e)'
  BY RecordsKept
<1>3. StatusesTrue'
  <2> SUFFICES ASSUME NEW o \in Ops, userOperationToStatus'[o].status = "included"
               PROVE  RanIn(o, userOperationToStatus[o].transactionHash)'
    BY DEF StatusesTrue
  <2> DEFINE h == userOperationToStatus[o].transactionHash
             g == userOperationToStatus'[o].transactionHash
  <2>1. h = g /\ userOperationToStatus[o].status = "included"
    OBVIOUS
  <2> HIDE DEF h
  <2>2. RanIn(o, h)'
    BY <2>1, RecordsKept DEF h
  <2> QED BY <2>2 DEF h
<1>4. RejectedInv'
  <2> SUFFICES ASSUME NEW o \in Ops, userOperationToStatus'[o].status = "rejected"
               PROVE  /\ TwoBlocksAfter(userOperationToStatus[o].transactionHash)'
                      /\ NotRunNear(o, userOperationToStatus[o].transactionHash)'
    BY DEF RejectedInv
  <2> DEFINE h == userOperationToStatus[o].transactionHash
  <2>1. userOperationToStatus[o].status = "rejected"
    OBVIOUS
  <2> HIDE DEF h
  <2>2. TwoBlocksAfter(h)' /\ NotRunNear(o, h)'
    BY <2>1, RecordsKept DEF h
  <2> QED BY <2>2 DEF h
<1> QED BY <1>1, <1>2, <1>3, <1>4

LEMMA MineKeeps ==
    ASSUME SInv, Mine
    PROVE  ChainKept /\ SendInv' /\ FollowInv' /\ WatchInv'
<1>1. PICK block \in NextBlocks :
          /\ chain' = Append(chain, block)
          /\ pending' = IF \E tx \in ToSet(block) : tx.hash \in Ours THEN {} ELSE pending
  BY DEF Mine, Ours
<1>2. UNCHANGED <<followed, sent, watches, calls>>
  BY DEF Mine
<1>3. /\ GoodChain(chain) /\ SendInv /\ FollowInv /\ WatchInv
      /\ pending \in SUBSET Sendings
      /\ \A tx \in TransactionsIn(chain), p \in pending : tx.hash # p.hash
  BY DEF SInv, SendInv
<1>4. Following(block)
  BY <1>3, BlocksAre
<1> DEFINE next == chain'
<1>5. next = Append(chain, block)
  BY <1>1
<1> HIDE DEF next
<1>6. /\ GoodChain(next)
      /\ Len(chain) \in Nat /\ Len(next) = Len(chain) + 1
      /\ \A n \in 1..Len(chain) : next[n] = chain[n]
      /\ TransactionsIn(next) = TransactionsIn(chain) \cup ToSet(block)
      /\ fromBlock(chain) \in Nat /\ fromBlock(next) \in Nat
      /\ fromBlock(chain) =< fromBlock(next)
      /\ \A h : IsMined(chain, h) =>
             /\ IsMined(next, h)
             /\ transactionOf(next, h) = transactionOf(chain, h)
             /\ blockNumberOf(next, h) = blockNumberOf(chain, h)
  BY <1>3, <1>4, <1>5, ChainGrows
<1>7. ChainKept
  <2>1. Len(next) \in Nat /\ Len(chain) =< Len(next)
    BY <1>6
  <2> QED BY <1>6, <2>1 DEF ChainKept, next
<1>8. TransactionsIn(chain') = TransactionsIn(chain) \cup ToSet(block)
  BY <1>6 DEF next
<1>9. OursMined' = OursMined \cup {tx \in ToSet(block) : tx.hash \in Ours}
  BY <1>8 DEF OursMined, Ours

\* A transaction of ours in the block was pending; after it nothing is.
<1>10. ASSUME NEW tx \in ToSet(block), tx.hash \in Ours
       PROVE  /\ pending' = {}
              /\ \E p \in pending : tx \in Outcomes(p, {}) /\ tx.hash = p.hash
  <2>1. tx \notin Rivals
    BY <1>10, SettlementAssumption DEF Ours
  <2>2. PICK p \in pending : tx \in Outcomes(p, {})
    BY <1>4, <2>1 DEF Following
  <2>3. tx.hash = p.hash
    BY <1>3, <2>2, OutcomesAre
  <2> QED BY <1>1, <1>10, <2>2, <2>3
<1>11. pending' \in SUBSET pending
  BY <1>1
<1>12. SendInv'
  <2>1. sent' \in 1..Len(Hashes) /\ pending' \in SUBSET Sendings
    BY <1>2, <1>3, <1>11 DEF SendInv
  <2>2. \A p \in pending' : p.hash \in SentHashes' /\ Sound(p.ops)
    BY <1>2, <1>3, <1>11 DEF SendInv, SentHashes
  <2>3. \A tx \in OursMined' : tx.hash \in SentHashes'
    BY <1>2, <1>3, <1>9, <1>10 DEF SendInv, SentHashes
  <2>4. ASSUME NEW tx \in TransactionsIn(chain'), NEW p \in pending'
        PROVE  tx.hash # p.hash
    <3>1. p \in pending /\ p.hash \in Ours
      BY <1>3, <1>11 DEF Sendings, Ours
    <3>2. CASE tx \in TransactionsIn(chain)
      BY <1>3, <3>1, <3>2
    <3>3. CASE tx \in ToSet(block)
      BY <1>10, <2>4, <3>1, <3>3
    <3> QED BY <1>8, <2>4, <3>2, <3>3
  <2> QED BY <2>1, <2>2, <2>3, <2>4 DEF SendInv
<1>13. FollowInv'
  <2> SUFFICES ASSUME followed # NoTransaction
               PROVE  /\ \A p \in pending' : Carries(p)
                      /\ \A tx \in OursMined' : /\ pending' = {}
                                                /\ \E p \in Sendings : tx \in Outcomes(p, {}) /\ Carries(p)
                      /\ \A tx, other \in OursMined' : tx = other
    BY <1>2, <1>3 DEF FollowInv, Carries
  <2>1. /\ \A p \in pending : Carries(p)
        /\ \A tx \in OursMined : pending = {} /\ \E p \in Sendings : tx \in Outcomes(p, {}) /\ Carries(p)
        /\ \A tx, other \in OursMined : tx = other
    BY <1>3 DEF FollowInv
  <2>2. ASSUME NEW tx \in OursMined'
        PROVE  /\ pending' = {}
               /\ \E p \in Sendings : tx \in Outcomes(p, {}) /\ Carries(p)
    <3>1. CASE tx \in OursMined
      BY <1>11, <2>1, <3>1
    <3>2. CASE tx \in ToSet(block) /\ tx.hash \in Ours
      BY <1>3, <1>10, <2>1, <3>2
    <3> QED BY <1>9, <2>2, <3>1, <3>2
  <2>3. ASSUME NEW tx \in OursMined', NEW other \in OursMined'
        PROVE  tx = other
    <3>1. CASE OursMined = {}
      BY <1>4, <1>9, <2>3, <3>1 DEF Following
    <3>2. CASE OursMined # {}
      <4>1. pending = {}
        BY <2>1, <3>2
      <4>2. OursMined' = OursMined
        BY <1>9, <1>10, <4>1
      <4> QED BY <2>1, <2>3, <4>2
    <3> QED BY <3>1, <3>2
  <2> QED BY <1>11, <2>1, <2>2, <2>3
<1>14. WatchInv'
  <2>1. ASSUME NEW o \in Ops, watches[o] # NoWatch
        PROVE  /\ IsMined(chain', watches[o].transactionHash)
               /\ watches[o].blockNumber = blockNumberOf(chain', watches[o].transactionHash)
    BY <1>3, <1>7, <2>1 DEF WatchInv, ChainKept
  <2>2. ASSUME (\E o \in Ops : watches[o] # NoWatch) \/ calls # {}
        PROVE  NothingOfOurs'
    <3>1. followed = NoTransaction /\ pending = {} /\ \A tx \in OursMined : tx.status = "reverted"
      BY <1>3, <2>2 DEF WatchInv, NothingOfOurs
    <3>2. pending' = {} /\ OursMined' = OursMined
      BY <1>9, <1>10, <1>11, <3>1
    <3> QED BY <1>2, <3>1, <3>2 DEF NothingOfOurs
  <2> QED BY <1>2, <1>3, <2>1, <2>2 DEF WatchInv
<1> QED BY <1>7, <1>12, <1>13, <1>14

LEMMA NoWatchers ==
    ASSUME SInv, followed # NoTransaction
    PROVE  (\A o \in Ops : watches[o] = NoWatch) /\ calls = {}
  BY DEF SInv, WatchInv, NothingOfOurs

\* A hash that was not used yet.
LEMMA NextHash ==
    ASSUME SendInv, sent < Len(Hashes), sent' = sent + 1
    PROVE  /\ sent \in Nat /\ Len(Hashes) \in Nat /\ sent + 1 \in 1..Len(Hashes)
           /\ Hashes[sent + 1] \in Ours
           /\ SentHashes' = SentHashes \cup {Hashes[sent + 1]}
           /\ Hashes[sent + 1] \notin SentHashes
<1>1. Hashes \in Seq(ToSet(Hashes)) /\ IsInjective(Hashes)
  BY SettlementAssumption
<1>2. /\ sent \in 1..Len(Hashes) /\ Len(Hashes) \in Nat
      /\ \A i, j \in 1..Len(Hashes) : Hashes[i] = Hashes[j] => i = j
      /\ ToSet(Hashes) = {Hashes[i] : i \in 1..Len(Hashes)}
  BY <1>1, SequenceElements DEF SendInv
<1>3. sent + 1 \in 1..Len(Hashes) /\ 1..(sent + 1) = (1..sent) \cup {sent + 1}
  BY <1>2
<1>4. SentHashes' = {Hashes[i] : i \in 1..(sent + 1)}
  BY DEF SentHashes
<1>5. Hashes[sent + 1] \notin SentHashes
  BY <1>2, <1>3 DEF SentHashes
<1>6. SentHashes' = SentHashes \cup {Hashes[sent + 1]}
  BY <1>3, <1>4 DEF SentHashes
<1>7. Hashes[sent + 1] \in Ours
  BY <1>2, <1>3 DEF Ours
<1> QED BY <1>2, <1>3, <1>5, <1>6, <1>7

LEMMA ReplaceKeeps ==
    ASSUME SInv, Replace
    PROVE  SendInv' /\ FollowInv' /\ WatchInv'
<1>0. /\ GoodChain(chain) /\ SendInv /\ FollowInv /\ WatchInv
  BY DEF SInv
<1>1. /\ followed # NoTransaction /\ sent < Len(Hashes) /\ sent' = sent + 1
      /\ UNCHANGED <<chain, watches, calls, emitted>>
  BY DEF Replace
<1>2. PICK kept \in (SUBSET ToSet(followed.ops)) \ {{}} :
          LET ops == Filtered(followed.ops, kept)
          IN  /\ followed' = [transactionHash |-> Hashes[sent + 1],
                              previousTransactionHashes |->
                                  <<followed.transactionHash>> \o followed.previousTransactionHashes,
                              ops |-> ops]
              /\ pending' = IF pending = {} THEN {} ELSE pending \cup {Transmitted(ops)}
  BY DEF Replace
<1> DEFINE ops == Filtered(followed.ops, kept)
           new == Transmitted(ops)
<1>3. /\ followed'.transactionHash = Hashes[sent + 1] /\ followed'.ops = ops
      /\ followed'.previousTransactionHashes
             = <<followed.transactionHash>> \o followed.previousTransactionHashes
      /\ pending' = IF pending = {} THEN {} ELSE pending \cup {new}
  BY <1>2
<1>4. /\ Sound(followed.ops) /\ followed.transactionHash \in Ours
      /\ followed.previousTransactionHashes \in Seq(Ours)
      /\ \A p \in pending : Carries(p)
      /\ \A tx \in OursMined : pending = {} /\ \E p \in Sendings : tx \in Outcomes(p, {}) /\ Carries(p)
      /\ \A tx, other \in OursMined : tx = other
  BY <1>0, <1>1 DEF FollowInv
<1>5. ToSet(ops) = kept /\ Sound(ops)
  <2> DEFINE all == followed.ops
  <2>1. all \in Seq(Ops) /\ IsInjective(all)
    BY <1>4 DEF Sound
  <2> HIDE DEF all
  <2>2. /\ Filtered(all, kept) \in Seq(Ops) /\ ToSet(Filtered(all, kept)) = ToSet(all) \cap kept
        /\ IsInjective(Filtered(all, kept))
    BY <2>1, FilteredElements
  <2>3. ops \in Seq(Ops) /\ ToSet(ops) = kept /\ IsInjective(ops)
    BY <1>2, <2>2 DEF all
  <2> HIDE DEF ops
  <2>4. ops # <<>> /\ ops[1] \in ToSet(ops)
    <3>1. ops # <<>>
      <4>1. ToSet(<<>>) = {} BY DEF ToSet
      <4> QED BY <1>2, <2>3, <4>1
    <3>2. 1 \in 1..Len(ops)
      BY <2>3, <3>1
    <3> QED BY <2>3, <3>1, <3>2, SequenceElements
  <2> QED BY <1>2, <1>4, <2>3, <2>4 DEF Sound
<1> HIDE DEF ops
<1>6. /\ sent \in Nat /\ Len(Hashes) \in Nat /\ sent + 1 \in 1..Len(Hashes)
      /\ Hashes[sent + 1] \in Ours
      /\ SentHashes' = SentHashes \cup {Hashes[sent + 1]}
      /\ Hashes[sent + 1] \notin SentHashes
  BY <1>0, <1>1, NextHash
<1>7. new \in Sendings /\ new.hash = Hashes[sent + 1] /\ new.ops = ops
  BY <1>5, <1>6 DEF Transmitted, Sendings, Ours, Sound
<1> HIDE DEF new
<1>8. SendInv'
  <2>1. \A tx \in TransactionsIn(chain), p \in pending' : tx.hash # p.hash
    BY <1>0, <1>3, <1>6, <1>7 DEF SendInv, OursMined
  <2>2. OursMined' = OursMined
    BY <1>1 DEF OursMined
  <2>3. \A p \in pending' : p \in Sendings /\ p.hash \in SentHashes' /\ Sound(p.ops)
    BY <1>0, <1>3, <1>5, <1>6, <1>7 DEF SendInv
  <2>4. \A tx \in OursMined' : tx.hash \in SentHashes'
    BY <1>0, <1>6, <2>2 DEF SendInv
  <2> QED BY <1>1, <1>6, <2>1, <2>2, <2>3, <2>4 DEF SendInv
<1>9. FollowInv'
  <2>1. Sound(followed'.ops) /\ followed'.transactionHash \in Ours
    BY <1>3, <1>5, <1>6
  <2>2. followed'.previousTransactionHashes \in Seq(Ours)
    <3>1. <<followed.transactionHash>> \in Seq(Ours)
      BY <1>4
    <3> QED BY <1>3, <1>4, <3>1
  <2>3. ASSUME NEW p, Carries(p) PROVE Carries(p)'
    BY <1>2, <1>3, <1>5, <2>3 DEF Carries
  <2>4. ASSUME NEW p, p = new PROVE Carries(p)'
    BY <1>3, <1>5, <1>7, <2>4 DEF Carries
  <2>5. \A p \in pending' : Carries(p)'
    <3>1. \A p \in pending' : p \in pending \/ p = new
      BY <1>3
    <3> QED BY <1>4, <2>3, <2>4, <3>1
  <2>6. OursMined' = OursMined
    BY <1>1 DEF OursMined
  <2>7. \A tx \in OursMined' :
            pending' = {} /\ \E p \in Sendings : tx \in Outcomes(p, {}) /\ Carries(p)'
    BY <1>3, <1>4, <2>3, <2>6
  <2>8. \A tx, other \in OursMined' : tx = other
    BY <1>4, <2>6
  <2> QED BY <2>1, <2>2, <2>5, <2>7, <2>8 DEF FollowInv
<1>10. WatchInv'
  BY <1>0, <1>1, NoWatchers DEF WatchInv
<1> QED BY <1>8, <1>9, <1>10

LEMMA GiveUpKeeps ==
    ASSUME SInv, GiveUp
    PROVE  SendInv' /\ FollowInv' /\ WatchInv'
<1>1. SendInv /\ WatchInv
  BY DEF SInv
<1>2. /\ followed # NoTransaction /\ followed' = NoTransaction
      /\ UNCHANGED <<chain, pending, sent, watches, calls, emitted>>
  BY DEF GiveUp
<1>3. SendInv'
  BY <1>1, <1>2 DEF SendInv, SentHashes, OursMined
<1>4. FollowInv'
  BY <1>2 DEF FollowInv
<1>5. WatchInv'
  BY <1>1, <1>2, NoWatchers DEF WatchInv
<1> QED BY <1>3, <1>4, <1>5

\* refreshTransactionStatus finds the one transaction of ours that is mined.
Found(tx, p) ==
    /\ tx \in OursMined /\ \A other \in OursMined : other = tx
    /\ IsMined(chain, tx.hash) /\ transactionOf(chain, tx.hash) = tx
    /\ p \in Sendings /\ tx \in Outcomes(p, {}) /\ Carries(p)
    /\ pending = {}

LEMMA RefreshFinds ==
    ASSUME SInv, refreshTransactionStatus
    PROVE  \E tx, p :
              /\ Found(tx, p)
              /\ \/ /\ tx.status # "reverted"
                    /\ RefreshIncluded(tx.hash,
                           userOperationDetails(logsOf(tx), entryPointOf[followed.ops[1]]))
                 \/ tx.status = "reverted" /\ RefreshAA95
                 \/ tx.status = "reverted" /\ RefreshReverted(tx.hash)
<1>0. followed # NoTransaction /\ GoodChain(chain) /\ FollowInv
  BY DEF refreshTransactionStatus, SInv
<1> DEFINE h == CHOOSE x \in ToSet(txHashesToCheck) : IsMined(chain, x)
           tx == transactionOf(chain, h)
           status == getBundleStatus(tx, entryPointOf[followed.ops[1]])
<1>1. h \in ToSet(txHashesToCheck) /\ IsMined(chain, h)
  BY DEF refreshTransactionStatus
<1>2. h \in Ours
  <2> DEFINE first == followed.transactionHash
             rest == followed.previousTransactionHashes
             one == <<first>>
  <2>1. first \in Ours /\ rest \in Seq(Ours)
    BY <1>0 DEF FollowInv
  <2>2. one \in Seq(Ours)
    BY <2>1
  <2>3. txHashesToCheck = one \o rest
    BY DEF txHashesToCheck
  <2> HIDE DEF rest, one
  <2>4. one \o rest \in Seq(Ours)
    BY <2>1, <2>2
  <2> DEFINE all == one \o rest
  <2>5. all \in Seq(Ours)
    BY <2>4
  <2> HIDE DEF all
  <2>6. ToSet(all) \subseteq Ours
    BY <2>5, SequenceElements
  <2> HIDE DEF h
  <2> QED BY <1>1, <2>3, <2>6 DEF all
<1> HIDE DEF h
<1>3. tx \in TransactionsIn(chain) /\ tx.hash = h
  BY <1>0, <1>1, MinedOnce
<1>4. tx \in OursMined
  BY <1>2, <1>3 DEF OursMined
<1> HIDE DEF tx
<1>5. /\ pending = {} /\ \E p \in Sendings : tx \in Outcomes(p, {}) /\ Carries(p)
      /\ \A other \in OursMined : other = tx
  BY <1>0, <1>4 DEF FollowInv
<1>6. PICK p \in Sendings : tx \in Outcomes(p, {}) /\ Carries(p)
  BY <1>5
<1>7. Found(tx, p)
  BY <1>1, <1>3, <1>4, <1>5, <1>6 DEF Found, tx
<1>8. /\ tx.status = "reverted" => status.status = "reverted"
      /\ tx.status # "reverted" =>
             /\ status.status = "included"
             /\ status.userOperationDetails
                    = userOperationDetails(logsOf(tx), entryPointOf[followed.ops[1]])
  BY DEF getBundleStatus
<1>9. /\ status.status = "included" => RefreshIncluded(tx.hash, status.userOperationDetails)
      /\ status.status = "reverted" => RefreshAA95 \/ RefreshReverted(tx.hash)
  BY DEF refreshTransactionStatus, reportedHash, tx, h
<1> HIDE DEF status
<1>10. CASE tx.status # "reverted"
  BY <1>7, <1>8, <1>9, <1>10
<1>11. CASE tx.status = "reverted"
  <2>1. RefreshAA95 \/ RefreshReverted(tx.hash)
    BY <1>8, <1>9, <1>11
  <2> QED BY <1>7, <1>11, <2>1
<1> QED BY <1>10, <1>11

LEMMA AA95Keeps ==
    ASSUME SInv, followed # NoTransaction, RefreshAA95, NEW tx, NEW p, Found(tx, p)
    PROVE  SendInv' /\ FollowInv' /\ WatchInv'
<1>0. SendInv /\ WatchInv /\ FollowInv
  BY DEF SInv
<1>1. followed' = NoTransaction /\ UNCHANGED <<chain, watches, calls>>
  BY DEF RefreshAA95
<1>2. pending = {} /\ Sound(followed.ops)
  BY <1>0 DEF Found, FollowInv
<1>3. FollowInv'
  BY <1>1 DEF FollowInv
<1>4. WatchInv'
  BY <1>0, <1>1, NoWatchers DEF WatchInv
<1>5. OursMined' = OursMined
  BY <1>1 DEF OursMined
<1>6. ASSUME UNCHANGED <<pending, sent>>
      PROVE  SendInv'
  <2>1. pending' = {} /\ SentHashes' = SentHashes /\ sent' = sent
    BY <1>2, <1>6 DEF SentHashes
  <2> QED BY <1>0, <1>5, <2>1 DEF SendInv
<1>7. ASSUME sent < Len(Hashes), pending' = {Transmitted(followed.ops)}, sent' = sent + 1
      PROVE  SendInv'
  <2> DEFINE new == Transmitted(followed.ops)
  <2>1. /\ sent + 1 \in 1..Len(Hashes) /\ Hashes[sent + 1] \in Ours
        /\ SentHashes' = SentHashes \cup {Hashes[sent + 1]}
        /\ Hashes[sent + 1] \notin SentHashes
    BY <1>0, <1>7, NextHash
  <2>2. new \in Sendings /\ new.hash = Hashes[sent + 1] /\ Sound(new.ops)
    BY <1>2, <2>1 DEF Transmitted, Sendings, Ours, Sound
  <2> HIDE DEF new
  <2>3. \A q \in pending' : q \in Sendings /\ q.hash \in SentHashes' /\ Sound(q.ops)
    BY <1>7, <2>1, <2>2 DEF new
  <2>4. \A t \in OursMined' : t.hash \in SentHashes'
    BY <1>0, <1>5, <2>1 DEF SendInv
  <2>5. \A t \in TransactionsIn(chain'), q \in pending' : t.hash # q.hash
    BY <1>0, <1>1, <1>7, <2>1, <2>2 DEF SendInv, OursMined, new
  <2>6. sent' \in 1..Len(Hashes) /\ pending' \in SUBSET Sendings
    BY <1>7, <2>1, <2>3
  <2> QED BY <2>3, <2>4, <2>5, <2>6 DEF SendInv
<1> QED BY <1>3, <1>4, <1>6, <1>7 DEF RefreshAA95

LEMMA RevertedKeeps ==
    ASSUME SInv, followed # NoTransaction, NEW tx, NEW p, Found(tx, p),
           tx.status = "reverted", RefreshReverted(tx.hash)
    PROVE  SendInv' /\ FollowInv' /\ WatchInv'
<1>0. GoodChain(chain) /\ SendInv /\ WatchInv /\ FollowInv
  BY DEF SInv
<1> DEFINE h == tx.hash
           b == blockNumberOf(chain, h)
           w == [transactionHash |-> h, blockNumber |-> b, seen |-> 0]
           new == [o \in ToSet(followed.ops) |-> w]
<1>1. /\ watches' = Updated(watches, new)
      /\ followed' = NoTransaction
      /\ UNCHANGED <<chain, pending, sent, calls, emitted, monitor>>
  BY DEF RefreshReverted
<1>2. h \in Ours /\ IsMined(chain, h) /\ pending = {} /\ \A other \in OursMined : other = tx
  BY DEF Found, OursMined
<1>3. b \in Nat
  BY <1>0, <1>2, MinedOnce
<1>4. OursMined' = OursMined
  BY <1>1 DEF OursMined
<1>5. SendInv'
  BY <1>0, <1>1, <1>4 DEF SendInv, SentHashes
<1>6. FollowInv'
  BY <1>1 DEF FollowInv
<1> HIDE DEF h, b
<1>7. w \in [transactionHash : Ours \cup {NoHash}, blockNumber : Nat, seen : Nat]
  BY <1>2, <1>3
<1>8. w.transactionHash = h /\ w.blockNumber = b
  OBVIOUS
<1> HIDE DEF w
<1>9. watches' = [o \in Ops |-> IF o \in ToSet(followed.ops) THEN w ELSE watches[o]]
  BY <1>0, <1>1 DEF WatchInv, Updated
<1>10. watches' \in [Ops -> [transactionHash : Ours \cup {NoHash}, blockNumber : Nat, seen : Nat]]
  BY <1>0, <1>7, <1>9 DEF WatchInv
<1>11. ASSUME NEW o \in Ops, watches'[o] # NoWatch
       PROVE  /\ watches'[o].transactionHash \in Ours
              /\ IsMined(chain, watches'[o].transactionHash)
              /\ watches'[o].blockNumber = blockNumberOf(chain, watches'[o].transactionHash)
  <2>1. watches'[o] = w
    BY <1>9, <1>11, NoWatchers
  <2> QED BY <1>2, <1>8, <2>1 DEF b
<1>12. NothingOfOurs'
  BY <1>1, <1>2, <1>4 DEF NothingOfOurs
<1> QED BY <1>1, <1>5, <1>6, <1>10, <1>11, <1>12 DEF WatchInv

\* What may be told of an operation.
StatusTrue(o, s) ==
    /\ s.status = "included" => RanIn(o, s.transactionHash)
    /\ s.status = "rejected" => TwoBlocksAfter(s.transactionHash) /\ NotRunNear(o, s.transactionHash)

LEMMA TruthReported ==
    ASSUME SInv, UNCHANGED chain, NEW new, setUserOperationStatus(new),
           \A o \in DOMAIN new : StatusTrue(o, new[o]),
           NEW events, emitEvents(events), \A e \in events : EventTrue(e)
    PROVE  ReportsTrue' /\ RejectedInv'
<1>1. /\ StatusesTrue /\ RejectedInv /\ \A e \in emitted : EventTrue(e)
      /\ Ops \subseteq DOMAIN userOperationToStatus
  BY Reports DEF SInv, KInv, TimersMatch
<1>2. \A o \in Ops : userOperationToStatus'[o] =
          IF o \in DOMAIN new THEN new[o] ELSE userOperationToStatus[o]
  BY <1>1 DEF setUserOperationStatus, Updated
<1>3. \A o \in Ops : StatusTrue(o, userOperationToStatus[o])
  BY <1>1 DEF StatusesTrue, RejectedInv, StatusTrue
<1>4. \A o \in Ops : StatusTrue(o, userOperationToStatus'[o])
  BY <1>2, <1>3
<1>5. StatusesTrue' /\ RejectedInv'
  BY <1>4 DEF StatusesTrue, RejectedInv, StatusTrue, RanIn, TwoBlocksAfter, NotRunNear
<1>6. \A e \in emitted' : EventTrue(e)
  BY <1>1 DEF emitEvents
<1>7. \A e \in emitted' : EventTrue(e)'
  BY <1>6 DEF EventTrue, RanIn
<1>8. ReportsTrue' <=> StatusesTrue' /\ \A e \in emitted' : EventTrue(e)'
  BY DEF ReportsTrue, StatusesTrue, EventTrue
<1> QED BY <1>5, <1>7, <1>8

LEMMA IncludedKeeps ==
    ASSUME SInv, followed # NoTransaction, NEW tx, NEW p, Found(tx, p), tx.status # "reverted",
           NEW details,
           details = userOperationDetails(logsOf(tx), entryPointOf[followed.ops[1]]),
           RefreshIncluded(tx.hash, details)
    PROVE  SendInv' /\ FollowInv' /\ WatchInv' /\ ReportsTrue' /\ RejectedInv'
<1>0. SendInv /\ WatchInv /\ FollowInv
  BY DEF SInv
<1> DEFINE ops == ToSet(followed.ops)
           told(o) == Event(IF details[o].status = "succesful"
                            THEN "included_onchain" ELSE "execution_reverted_onchain", o, tx.hash)
           events == {told(o) : o \in ops}
           new == [o \in ops |-> Status("included", tx.hash)]
<1>1. /\ emitEvents(events) /\ setUserOperationStatus(new)
      /\ followed' = NoTransaction /\ UNCHANGED <<chain, pending, sent, watches, calls>>
  BY DEF RefreshIncluded
<1>2. SendInv'
  BY <1>0, <1>1 DEF SendInv, SentHashes, OursMined
<1>3. FollowInv'
  BY <1>1 DEF FollowInv
<1>4. WatchInv'
  BY <1>0, <1>1, NoWatchers DEF WatchInv
<1>5. /\ tx.hash \in Ours /\ IsMined(chain, tx.hash) /\ transactionOf(chain, tx.hash) = tx
      /\ p \in Sendings /\ Sound(p.ops) /\ ops \subseteq ToSet(p.ops)
  BY DEF Found, Carries, OursMined
<1>6. PICK outcome \in [DOMAIN p.ops -> Ends] : tx = OurTransaction(p, outcome)
  BY OutcomesAre DEF Found
<1>7. entryPointOf[followed.ops[1]] = entryPointOf[p.ops[1]]
  <2> DEFINE s == followed.ops
  <2>1. s \in Seq(Ops) /\ s # <<>>
    BY <1>0 DEF FollowInv, Sound
  <2> HIDE DEF s
  <2>2. s[1] \in ToSet(s)
    BY <2>1, SequenceElements
  <2>3. s[1] \in ToSet(p.ops)
    BY <1>5, <2>2 DEF s
  <2> QED BY <1>5, <2>3 DEF Sound, s
<1>8. ASSUME NEW o \in ops
      PROVE  /\ \E run \in RunsOf(tx) : run.op = o
             /\ details[o].status = "succesful"
                    <=> [op |-> o, outcome |-> "success"] \in RunsOf(tx)
  BY <1>5, <1>6, <1>7, DetailsTell
<1> HIDE DEF ops
<1>9. \A o \in ops : RanIn(o, tx.hash)
  BY <1>5, <1>8 DEF RanIn
<1>10. ASSUME NEW o \in ops
       PROVE  EventTrue(told(o))
  <2>1. /\ told(o).userOperationHash = o /\ told(o).transactionHash = tx.hash
        /\ told(o).eventType = IF details[o].status = "succesful"
                               THEN "included_onchain" ELSE "execution_reverted_onchain"
    BY DEF Event
  <2> HIDE DEF told
  <2>2. CASE details[o].status = "succesful"
    BY <1>5, <1>8, <2>1, <2>2 DEF EventTrue
  <2>3. CASE details[o].status # "succesful"
    BY <1>5, <1>8, <1>9, <2>1, <2>3 DEF EventTrue
  <2> QED BY <2>2, <2>3
<1>11. \A e \in events : EventTrue(e)
  BY <1>10
<1>12. \A o \in DOMAIN new : StatusTrue(o, new[o])
  BY <1>9 DEF StatusTrue, Status
<1> HIDE DEF new, events
<1>13. ReportsTrue' /\ RejectedInv'
  BY <1>1, <1>11, <1>12, TruthReported
<1> QED BY <1>2, <1>3, <1>4, <1>13

-----------------------------------------------------------------------------
(* checkFrontrun.                                                          *)

LEMMA CallKeeps ==
    ASSUME SInv, NEW o \in Ops, onBlockNumber(o)
    PROVE  SendInv' /\ FollowInv' /\ WatchInv' /\ \A c \in calls' : CallOK(c)'
<1>0. GoodChain(chain) /\ SendInv /\ WatchInv /\ FollowInv /\ \A c \in calls : CallOK(c)
  BY DEF SInv
<1> DEFINE h == watches[o].transactionHash
           new == [op |-> o, transactionHash |-> h, started |-> Len(chain),
                   read |-> FALSE, receipt |-> Nothing]
<1>1. /\ watches[o] # NoWatch
      /\ Len(chain) > watches[o].blockNumber + 1
      /\ watches' = [watches EXCEPT ![o].seen = Len(chain)]
      /\ calls' = calls \cup {new}
      /\ UNCHANGED <<chain, followed, pending, sent, emitted, monitor>>
  BY DEF onBlockNumber, LateEnough
<1>2. h \in Ours /\ IsMined(chain, h) /\ watches[o].blockNumber = blockNumberOf(chain, h)
  BY <1>0, <1>1 DEF WatchInv
<1>3. Len(chain) \in Nat /\ blockNumberOf(chain, h) \in Nat
  BY <1>0, <1>2, MinedOnce DEF GoodChain
<1>4. NothingOfOurs
  BY <1>0, <1>1 DEF WatchInv
<1>5. SendInv' /\ FollowInv' /\ NothingOfOurs'
  BY <1>0, <1>1, <1>4 DEF SendInv, SentHashes, OursMined, FollowInv, NothingOfOurs
<1>6. /\ watches' \in [Ops -> [transactionHash : Ours \cup {NoHash}, blockNumber : Nat, seen : Nat]]
      /\ \A q \in Ops : /\ watches'[q].transactionHash = watches[q].transactionHash
                        /\ watches'[q].blockNumber = watches[q].blockNumber
                        /\ q # o => watches'[q] = watches[q]
  BY <1>0, <1>1, <1>3 DEF WatchInv
<1>7. WatchInv'
  <2>1. \A q \in Ops : watches'[q] # NoWatch => watches[q] # NoWatch
    BY <1>1, <1>6
  <2>2. ASSUME NEW q \in Ops, watches'[q] # NoWatch
        PROVE  /\ watches'[q].transactionHash \in Ours
               /\ IsMined(chain, watches'[q].transactionHash)
               /\ watches'[q].blockNumber = blockNumberOf(chain, watches'[q].transactionHash)
    BY <1>0, <1>6, <2>1, <2>2 DEF WatchInv
  <2> QED BY <1>1, <1>5, <1>6, <2>2 DEF WatchInv
<1>8. CallOK(new)
  <2>1. TwoBlocksAfter(h)
    BY <1>1, <1>2, <1>3 DEF TwoBlocksAfter
  <2> HIDE DEF h
  <2>2. /\ new.op = o /\ new.transactionHash = h /\ new.started = Len(chain)
        /\ new.read = FALSE /\ new.receipt = Nothing
    OBVIOUS
  <2>3. new \in [op : Ops, transactionHash : Ours, started : Nat, read : BOOLEAN, receipt : {new.receipt}]
    BY <1>2, <1>3 DEF h
  <2> HIDE DEF new
  <2> QED BY <2>1, <2>2, <2>3 DEF CallOK
<1> HIDE DEF new
<1>9. \A c \in calls' : CallOK(c)
  BY <1>0, <1>1, <1>8
<1>10. \A c \in calls' : CallOK(c)'
  BY <1>1, <1>9 DEF CallOK, TwoBlocksAfter, NotRunNear, RanIn
<1> QED BY <1>5, <1>7, <1>10

LEMMA ReadKeeps ==
    ASSUME SInv, NEW c \in calls, ReadReceipt(c)
    PROVE  SendInv' /\ FollowInv' /\ WatchInv' /\ \A d \in calls' : CallOK(d)'
<1>0. GoodChain(chain) /\ SendInv /\ WatchInv /\ FollowInv /\ \A d \in calls : CallOK(d)
  BY DEF SInv
<1> DEFINE r == getUserOperationReceipt(chain, c.op)
           new == [c EXCEPT !.read = TRUE, !.receipt = r]
           h == c.transactionHash
<1>1. /\ calls' = (calls \ {c}) \cup {new}
      /\ UNCHANGED <<chain, followed, pending, sent, watches, emitted, monitor>>
  BY DEF ReadReceipt
<1>2. NothingOfOurs
  BY <1>0 DEF WatchInv
<1>3. SendInv' /\ FollowInv' /\ NothingOfOurs'
  BY <1>0, <1>1, <1>2 DEF SendInv, SentHashes, OursMined, FollowInv, NothingOfOurs
<1>4. WatchInv'
  BY <1>0, <1>1, <1>3 DEF WatchInv
<1>5. CallOK(c) /\ h \in Ours /\ c.op \in Ops /\ TwoBlocksAfter(h)
  BY <1>0 DEF CallOK
<1>6. /\ chain \in Seq(Seq(Transactions)) /\ Len(chain) \in Nat
      /\ blockNumberOf(chain, h) \in Nat /\ blockNumberOf(chain, h) + 2 =< Len(chain)
      /\ DOMAIN chain = 1..Len(chain)
  BY <1>0, <1>5, MinedOnce DEF GoodChain, TwoBlocksAfter
<1>7. /\ r # Nothing => \E tx \in TransactionsIn(chain) :
                            /\ r[1].transactionHash = tx.hash
                            /\ \E run \in RunsOf(tx) : run.op = c.op
      /\ r = Nothing => \A n \in DOMAIN chain : n >= fromBlock(chain) =>
                            c.op \notin Executed(ToSet(chain[n]))
  <2>1. ASSUME NEW o, NEW x, x = getUserOperationReceipt(chain, o)
        PROVE  /\ x # Nothing => \E tx \in TransactionsIn(chain) :
                                     /\ x[1].transactionHash = tx.hash
                                     /\ \E run \in RunsOf(tx) : run.op = o
               /\ x = Nothing => \A n \in DOMAIN chain : n >= fromBlock(chain) =>
                                     o \notin Executed(ToSet(chain[n]))
    BY <1>6, <2>1, ReceiptFound
  <2> QED BY <2>1
<1> HIDE DEF r
<1>8. c \in [op : Ops, transactionHash : Ours, started : Nat, read : BOOLEAN, receipt : {c.receipt}]
  BY <1>5 DEF CallOK
<1>9. /\ new \in [op : Ops, transactionHash : Ours, started : Nat, read : BOOLEAN, receipt : {r}]
      /\ new.op = c.op /\ new.transactionHash = h /\ new.read = TRUE /\ new.receipt = r
  BY <1>8
<1> HIDE DEF new, h
<1>10. r = Nothing => NotRunNear(c.op, h)
  <2> SUFFICES ASSUME r = Nothing, NEW n \in 1..(blockNumberOf(chain, h) + 2), n >= fromBlock(chain)
               PROVE  c.op \notin Executed(ToSet(chain[n]))
    BY DEF NotRunNear
  <2>1. n \in DOMAIN chain
    BY <1>6
  <2> QED BY <1>7, <2>1
<1>11. ASSUME r # Nothing
       PROVE  RanIn(c.op, r[1].transactionHash) /\ r[1].transactionHash \notin Ours
  <2>1. PICK tx \in TransactionsIn(chain) : /\ r[1].transactionHash = tx.hash
                                            /\ \E run \in RunsOf(tx) : run.op = c.op
    BY <1>7, <1>11
  <2>2. IsMined(chain, tx.hash)
    BY DEF IsMined
  <2>3. transactionOf(chain, tx.hash) = tx
    BY <1>0, <2>2, MinedOnce
  <2>4. tx.status # "reverted"
    BY <2>1 DEF RunsOf
  <2>5. tx.hash \notin Ours
    BY <1>2, <2>4 DEF NothingOfOurs, OursMined
  <2> QED BY <2>1, <2>2, <2>3, <2>5 DEF RanIn
<1>12. CallOK(new)
  BY <1>5, <1>9, <1>10, <1>11 DEF CallOK
<1>13. \A d \in calls' : CallOK(d)
  BY <1>0, <1>1, <1>12
<1>14. \A d \in calls' : CallOK(d)'
  BY <1>1, <1>13 DEF CallOK, TwoBlocksAfter, NotRunNear, RanIn
<1> QED BY <1>3, <1>4, <1>14

LEMMA AnswerKeeps ==
    ASSUME SInv, NEW c \in calls, Answer(c)
    PROVE  /\ SendInv' /\ FollowInv' /\ WatchInv' /\ \A d \in calls' : CallOK(d)'
           /\ ReportsTrue' /\ RejectedInv'
<1>0. GoodChain(chain) /\ SendInv /\ WatchInv /\ FollowInv /\ \A d \in calls : CallOK(d)
  BY DEF SInv
<1> DEFINE found == c.receipt # Nothing
           h == IF found THEN c.receipt[1].transactionHash ELSE c.transactionHash
           s == Status(IF found THEN "included" ELSE "rejected", h)
           e == Event(IF found THEN "frontran_onchain" ELSE "failed_onchain", c.op, h)
           new == [o \in {c.op} |-> s]
           events == {e}
<1>1. /\ c.read /\ setUserOperationStatus(new) /\ emitEvents(events)
      /\ watches' = [watches EXCEPT ![c.op] = NoWatch]
      /\ calls' = calls \ {c}
      /\ UNCHANGED <<chain, followed, pending, sent>>
  BY DEF Answer
<1>2. NothingOfOurs
  BY <1>0 DEF WatchInv
<1>3. SendInv' /\ FollowInv' /\ NothingOfOurs'
  BY <1>0, <1>1, <1>2 DEF SendInv, SentHashes, OursMined, FollowInv, NothingOfOurs
<1>4. WatchInv'
  <2>1. NoWatch \in [transactionHash : Ours \cup {NoHash}, blockNumber : Nat, seen : Nat]
    BY DEF NoWatch
  <2>2. /\ watches' \in [Ops -> [transactionHash : Ours \cup {NoHash}, blockNumber : Nat, seen : Nat]]
        /\ \A o \in Ops : watches'[o] # NoWatch => watches'[o] = watches[o]
    BY <1>0, <1>1, <2>1 DEF WatchInv
  <2> QED BY <1>0, <1>1, <1>3, <2>2 DEF WatchInv
<1>5. CallOK(c) /\ IsMined(chain, c.transactionHash) /\ c.transactionHash \in Ours
  BY <1>0 DEF CallOK, TwoBlocksAfter
<1>6. CASE found
  <2>1. h = c.receipt[1].transactionHash /\ RanIn(c.op, h) /\ h \notin Ours
    BY <1>1, <1>5, <1>6 DEF CallOK
  <2>2. s.status = "included" /\ s.transactionHash = h
    BY <1>6 DEF Status
  <2>3. /\ e.eventType = "frontran_onchain" /\ e.userOperationHash = c.op
        /\ e.transactionHash = h
    BY <1>6 DEF Event
  <2> HIDE DEF h, s, e, found
  <2>4. StatusTrue(c.op, s)
    BY <2>1, <2>2 DEF StatusTrue
  <2>5. EventTrue(e)
    BY <2>1, <2>3 DEF EventTrue, RanIn
  <2>6. \A o \in DOMAIN new : StatusTrue(o, new[o])
    BY <2>4
  <2>7. \A x \in events : EventTrue(x)
    BY <2>5
  <2> HIDE DEF new, events
  <2>8. ReportsTrue' /\ RejectedInv'
    BY <1>1, <2>6, <2>7, TruthReported
  <2>9. \A d \in calls' : CallOK(d)'
    BY <1>0, <1>1 DEF CallOK, TwoBlocksAfter, NotRunNear, RanIn
  <2> QED BY <1>3, <1>4, <2>8, <2>9
<1>7. CASE ~ found
  <2>1. h = c.transactionHash /\ TwoBlocksAfter(h) /\ NotRunNear(c.op, h)
    BY <1>1, <1>5, <1>7 DEF CallOK
  <2>2. s.status = "rejected" /\ s.transactionHash = h
    BY <1>7 DEF Status
  <2>3. /\ e.eventType = "failed_onchain" /\ e.userOperationHash = c.op
        /\ e.transactionHash = h
    BY <1>7 DEF Event
  <2>4. transactionOf(chain, h).status = "reverted" /\ IsMined(chain, h) /\ h \in Ours
    <3>1. /\ transactionOf(chain, c.transactionHash) \in TransactionsIn(chain)
          /\ transactionOf(chain, c.transactionHash).hash = c.transactionHash
      BY <1>0, <1>5, MinedOnce
    <3> QED BY <1>2, <1>5, <2>1, <3>1 DEF NothingOfOurs, OursMined
  <2> HIDE DEF h, s, e, found
  <2>5. StatusTrue(c.op, s)
    BY <2>1, <2>2 DEF StatusTrue
  <2>6. EventTrue(e)
    BY <2>4, <2>3 DEF EventTrue
  <2>7. \A o \in DOMAIN new : StatusTrue(o, new[o])
    BY <2>5
  <2>8. \A x \in events : EventTrue(x)
    BY <2>6
  <2> HIDE DEF new, events
  <2>9. ReportsTrue' /\ RejectedInv'
    BY <1>1, <2>7, <2>8, TruthReported
  <2>10. \A d \in calls' : CallOK(d)'
    BY <1>0, <1>1 DEF CallOK, TwoBlocksAfter, NotRunNear, RanIn
  <2> QED BY <1>3, <1>4, <2>9, <2>10
<1> QED BY <1>6, <1>7

LEMMA ThrowsKeeps ==
    ASSUME SInv, NEW c \in calls, ReceiptThrows(c)
    PROVE  SendInv' /\ FollowInv' /\ WatchInv' /\ \A d \in calls' : CallOK(d)'
<1>0. SendInv /\ WatchInv /\ FollowInv /\ \A d \in calls : CallOK(d)
  BY DEF SInv
<1>1. /\ calls' = calls \ {c}
      /\ UNCHANGED <<chain, followed, pending, sent, watches, emitted, monitor>>
  BY DEF ReceiptThrows
<1>2. NothingOfOurs
  BY <1>0 DEF WatchInv
<1>3. SendInv' /\ FollowInv' /\ NothingOfOurs'
  BY <1>0, <1>1, <1>2 DEF SendInv, SentHashes, OursMined, FollowInv, NothingOfOurs
<1>4. WatchInv'
  BY <1>0, <1>1, <1>3 DEF WatchInv
<1>5. \A d \in calls' : CallOK(d)'
  BY <1>0, <1>1 DEF CallOK, TwoBlocksAfter, NotRunNear, RanIn
<1> QED BY <1>3, <1>4, <1>5

-----------------------------------------------------------------------------
LEMMA SInit == Init => SInv
<1> SUFFICES ASSUME Init PROVE SInv
  OBVIOUS
<1>1. PICK bundle \in Bundles :
        /\ chain = <<>>
        /\ followed = [NoTransaction EXCEPT !.transactionHash = Hashes[1], !.ops = bundle]
        /\ pending = {[hash |-> Hashes[1], ops |-> bundle]}
        /\ sent = 1
        /\ watches = [o \in Ops |-> NoWatch]
        /\ calls = {}
        /\ userOperationToStatus =
              [o \in Ops |-> IF o \in ToSet(bundle) THEN Status("submitted", Hashes[1]) ELSE Forgotten]
        /\ emitted = {}
  BY DEF Init
<1>2. Sound(bundle)
  BY SettlementAssumption, NoncesAssumption DEF Sound
<1>3. /\ Len(Hashes) \in Nat /\ 1 \in 1..Len(Hashes) /\ Hashes[1] \in Ours
  <2>1. Hashes \in Seq(ToSet(Hashes)) /\ Hashes # <<>>
    BY SettlementAssumption
  <2>2. Len(Hashes) \in Nat /\ Len(Hashes) > 0
    BY <2>1
  <2>3. 1 \in 1..Len(Hashes)
    BY <2>2
  <2> QED BY <2>1, <2>2, <2>3, SequenceElements DEF Ours
<1>4. TransactionsIn(chain) = {} /\ OursMined = {}
  BY <1>1 DEF TransactionsIn, OursMined
<1>5. GoodChain(chain)
  BY <1>1 DEF GoodChain
<1>6. /\ followed.transactionHash = Hashes[1]
      /\ followed.previousTransactionHashes = <<>>
      /\ followed.ops = bundle
  BY <1>1 DEF NoTransaction
<1> DEFINE first == [hash |-> Hashes[1], ops |-> bundle]
<1>7. first \in Sendings /\ first.hash = Hashes[1] /\ first.ops = bundle
  BY <1>2, <1>3 DEF Sendings, Sound, Ours
<1> HIDE DEF first
<1>8. SendInv
  <2>1. Hashes[1] \in SentHashes
    BY <1>1 DEF SentHashes
  <2>2. pending = {first}
    BY <1>1 DEF first
  <2> QED BY <1>1, <1>2, <1>3, <1>4, <1>7, <2>1, <2>2 DEF SendInv
<1>9. FollowInv
  <2>1. <<>> \in Seq(Ours)
    OBVIOUS
  <2>2. pending = {first} /\ Carries(first)
    BY <1>1, <1>2, <1>6, <1>7 DEF first, Carries
  <2> QED BY <1>2, <1>3, <1>4, <1>6, <2>1, <2>2 DEF FollowInv
<1>10. WatchInv
  <2>1. NoWatch \in [transactionHash : Ours \cup {NoHash}, blockNumber : Nat, seen : Nat]
    BY DEF NoWatch
  <2> QED BY <1>1, <2>1 DEF WatchInv
<1>11. \A o \in Ops : userOperationToStatus[o].status \in {"submitted", "not_found"}
  BY <1>1 DEF Status, Forgotten
<1>12. ReportsTrue /\ RejectedInv
  BY <1>1, <1>11, Reports DEF StatusesTrue, RejectedInv
<1> QED BY <1>1, <1>5, <1>8, <1>9, <1>10, <1>12, KInit DEF SInv

\* A status that expires tells nothing.
LEMMA ExpireKeeps ==
    ASSUME SInv, NEW p \in Ops, Expire(p)
    PROVE  ReportsTrue' /\ RejectedInv'
<1>1. /\ StatusesTrue /\ RejectedInv /\ \A e \in emitted : EventTrue(e)
      /\ Ops \subseteq DOMAIN userOperationToStatus
  BY Reports DEF SInv, KInv, TimersMatch
<1>2. /\ userOperationToStatus' = [userOperationToStatus EXCEPT ![p] = Forgotten]
      /\ UNCHANGED <<chain, emitted>>
  BY DEF Expire
<1>3. \A o \in Ops : \/ userOperationToStatus'[o] = userOperationToStatus[o]
                     \/ userOperationToStatus'[o].status = "not_found"
  BY <1>1, <1>2 DEF Forgotten, Status
<1>4. StatusesTrue' /\ RejectedInv'
  BY <1>1, <1>2, <1>3 DEF StatusesTrue, RejectedInv, RanIn, TwoBlocksAfter, NotRunNear
<1>5. \A e \in emitted' : EventTrue(e)'
  BY <1>1, <1>2 DEF EventTrue, RanIn
<1>6. ReportsTrue' <=> StatusesTrue' /\ \A e \in emitted' : EventTrue(e)'
  BY DEF ReportsTrue, StatusesTrue, EventTrue
<1> QED BY <1>4, <1>5, <1>6

LEMMA SStep == SInv /\ [Next]_vars => SInv'
<1> SUFFICES ASSUME SInv, [Next]_vars PROVE SInv'
  OBVIOUS
<1>1. KInv'
  BY KStep DEF SInv
<1>2. SUFFICES /\ GoodChain(chain)' /\ SendInv' /\ FollowInv' /\ WatchInv'
               /\ \A c \in calls' : CallOK(c)'
               /\ ReportsTrue' /\ RejectedInv'
  BY <1>1 DEF SInv
<1>3. ASSUME UNCHANGED chain
      PROVE  ChainKept /\ GoodChain(chain)' /\ \A c \in calls : CallOK(c)'
  BY <1>3, SameChain, RecordsKept DEF SInv
<1>4. ASSUME UNCHANGED <<chain, followed, pending, sent, watches, calls>>
      PROVE  SendInv' /\ FollowInv' /\ WatchInv' /\ \A c \in calls' : CallOK(c)'
  <2>1. SendInv' /\ FollowInv' /\ WatchInv'
    BY <1>4 DEF SInv, SendInv, FollowInv, WatchInv, NothingOfOurs, SentHashes, OursMined, Carries
  <2> QED BY <1>3, <1>4, <2>1
<1>5. CASE Mine
  <2>1. ChainKept /\ SendInv' /\ FollowInv' /\ WatchInv'
    BY <1>5, MineKeeps
  <2>2. UNCHANGED <<calls, userOperationToStatus, emitted>>
    BY <1>5 DEF Mine, monitor
  <2> QED BY <2>1, <2>2, RecordsKept, NothingReported
<1>6. CASE Tick
  <2>1. UNCHANGED <<chain, followed, pending, sent, watches, calls, userOperationToStatus, emitted>>
    BY <1>6 DEF Tick
  <2> QED BY <1>3, <1>4, <2>1, NothingReported
<1>7. ASSUME NEW o \in Ops, Expire(o)
      PROVE  SInv'
  <2>1. UNCHANGED <<chain, followed, pending, sent, watches, calls>>
    BY <1>7 DEF Expire
  <2> QED BY <1>1, <1>3, <1>4, <1>7, <2>1, ExpireKeeps DEF SInv
<1>8. CASE Replace
  <2>1. UNCHANGED <<chain, calls, userOperationToStatus, emitted>>
    BY <1>8 DEF Replace, monitor
  <2> QED BY <1>3, <1>8, <2>1, ReplaceKeeps, NothingReported
<1>9. CASE GiveUp
  <2>1. UNCHANGED <<chain, calls, userOperationToStatus, emitted>>
    BY <1>9 DEF GiveUp, monitor
  <2> QED BY <1>3, <1>9, <2>1, GiveUpKeeps, NothingReported
<1>10. CASE refreshTransactionStatus
  <2>1. PICK tx, p :
          /\ Found(tx, p)
          /\ \/ /\ tx.status # "reverted"
                /\ RefreshIncluded(tx.hash,
                       userOperationDetails(logsOf(tx), entryPointOf[followed.ops[1]]))
             \/ tx.status = "reverted" /\ RefreshAA95
             \/ tx.status = "reverted" /\ RefreshReverted(tx.hash)
    BY <1>10, RefreshFinds
  <2>2. followed # NoTransaction
    BY <1>10 DEF refreshTransactionStatus
  <2>3. UNCHANGED <<chain, calls>>
    BY <2>1 DEF RefreshIncluded, RefreshAA95, RefreshReverted
  <2>4. CASE /\ tx.status # "reverted"
             /\ RefreshIncluded(tx.hash,
                    userOperationDetails(logsOf(tx), entryPointOf[followed.ops[1]]))
    <3> DEFINE details == userOperationDetails(logsOf(tx), entryPointOf[followed.ops[1]])
    <3>1. tx.status # "reverted" /\ RefreshIncluded(tx.hash, details)
      BY <2>4
    <3>2. details = userOperationDetails(logsOf(tx), entryPointOf[followed.ops[1]])
      OBVIOUS
    <3> HIDE DEF details
    <3> QED BY <1>3, <2>1, <2>2, <2>3, <3>1, <3>2, IncludedKeeps
  <2>5. CASE tx.status = "reverted" /\ RefreshAA95
    <3>1. UNCHANGED <<userOperationToStatus, emitted>>
      BY <2>5 DEF RefreshAA95, monitor
    <3> QED BY <1>3, <2>1, <2>2, <2>3, <2>5, <3>1, AA95Keeps, NothingReported
  <2>6. CASE tx.status = "reverted" /\ RefreshReverted(tx.hash)
    <3>1. UNCHANGED <<userOperationToStatus, emitted>>
      BY <2>6 DEF RefreshReverted, monitor
    <3> QED BY <1>3, <2>1, <2>2, <2>3, <2>6, <3>1, RevertedKeeps, NothingReported
  <2> QED BY <2>1, <2>4, <2>5, <2>6
<1>11. ASSUME NEW o \in Ops, onBlockNumber(o)
       PROVE  SInv'
  <2>1. UNCHANGED <<chain, userOperationToStatus, emitted>>
    BY <1>11 DEF onBlockNumber, monitor
  <2> QED BY <1>1, <1>3, <1>11, <2>1, CallKeeps, NothingReported DEF SInv
<1>12. ASSUME NEW c \in calls, ReadReceipt(c)
       PROVE  SInv'
  <2>1. UNCHANGED <<chain, userOperationToStatus, emitted>>
    BY <1>12 DEF ReadReceipt, monitor
  <2> QED BY <1>1, <1>3, <1>12, <2>1, ReadKeeps, NothingReported DEF SInv
<1>13. ASSUME NEW c \in calls, Answer(c)
       PROVE  SInv'
  <2>1. UNCHANGED chain
    BY <1>13 DEF Answer
  <2> QED BY <1>1, <1>3, <1>13, <2>1, AnswerKeeps DEF SInv
<1>14. ASSUME NEW c \in calls, ReceiptThrows(c)
       PROVE  SInv'
  <2>1. UNCHANGED <<chain, userOperationToStatus, emitted>>
    BY <1>14 DEF ReceiptThrows, monitor
  <2> QED BY <1>1, <1>3, <1>14, <2>1, ThrowsKeeps, NothingReported DEF SInv
<1>15. CASE UNCHANGED vars
  <2>1. UNCHANGED <<chain, followed, pending, sent, watches, calls, userOperationToStatus, emitted>>
    BY <1>15 DEF vars, monitor
  <2> QED BY <1>3, <1>4, <2>1, NothingReported
<1>16. \A o \in Ops : Expire(o) \/ onBlockNumber(o) => SInv'
  BY <1>7, <1>11
<1>17. \A c \in calls : ReadReceipt(c) \/ Answer(c) \/ ReceiptThrows(c) => SInv'
  BY <1>12, <1>13, <1>14
<1>18. ASSUME SInv' 
       PROVE  /\ GoodChain(chain)' /\ SendInv' /\ FollowInv' /\ WatchInv'
              /\ \A c \in calls' : CallOK(c)'
              /\ ReportsTrue' /\ RejectedInv'
  BY <1>18 DEF SInv
<1> QED BY <1>5, <1>6, <1>8, <1>9, <1>10, <1>15, <1>16, <1>17, <1>18 DEF Next

\* For any bundles, rivals and timeout: whatever alto tells of an operation,
\* as a status or as an event, is on the chain (executorManager.ts:464-575).
THEOREM Reported == Spec => []ReportsTrue
<1>1. SInv => ReportsTrue
  BY DEF SInv
<1> QED BY SInit, SStep, <1>1, PTL DEF Spec

\* For any bundles, rivals and length of the chain: an operation is called
\* rejected only when no transaction ran it up to two blocks after ours
\* reverted (executorManager.ts:535).
THEOREM Noticed == Spec => []FrontrunRecognised
<1>1. ASSUME SInv
      PROVE  FrontrunRecognised
  <2>1. GoodChain(chain) /\ RejectedInv
    BY <1>1 DEF SInv
  <2>2. ASSUME NEW o \in Ops, userOperationToStatus[o].status = "rejected",
               NEW n \in fromBlock(chain)..(blockNumberOf(chain, userOperationToStatus[o].transactionHash) + 2),
               n \in DOMAIN chain
        PROVE  o \notin Executed(ToSet(chain[n]))
    <3> DEFINE h == userOperationToStatus[o].transactionHash
    <3>1. TwoBlocksAfter(h) /\ NotRunNear(o, h)
      BY <2>1, <2>2 DEF RejectedInv
    <3>2. DOMAIN chain = 1..Len(chain) /\ Len(chain) \in Nat
      BY <2>1 DEF GoodChain
    <3>3. fromBlock(chain) \in Nat
      BY <3>2, ReceiptsAssumption DEF fromBlock
    <3>4. n \in 1..(blockNumberOf(chain, h) + 2) /\ n >= fromBlock(chain)
      BY <2>2, <3>2, <3>3
    <3> QED BY <3>1, <3>4 DEF NotRunNear
  <2> QED BY <2>2 DEF FrontrunRecognised
<1> QED BY SInit, SStep, <1>1, PTL DEF Spec

-----------------------------------------------------------------------------
(* The logs of a transaction, one run after the other.                     *)

Runs == [op : Ops, outcome : Ends]

AllLogs ==
    [address : {entryPointOf[o] : o \in Ops} \cup {"account"},
     name    : {"AccountDeployed", "Validated", "BeforeExecution", "Executed",
                "UserOperationRevertReason", "UserOperationEvent"},
     op      : Ops \cup {NoAddress},
     success : BOOLEAN]

\* The last log of a run, and the first one, if there is another.
EndOf(run) == EventOf(entryPointOf[run.op], run)

MarkOf(run) ==
    IF run.outcome = "success" THEN Log("account", "Executed", run.op, TRUE)
    ELSE Log(entryPointOf[run.op], "UserOperationRevertReason", run.op, FALSE)

\* What is not imitated.
OwnEvent(log) == IsEvent(log) /\ log.address # "account"
IsMark(log) ==
    \/ log.name = "Executed"
    \/ log.name = "UserOperationRevertReason" /\ log.address # "account"

\* From m to e s has the logs of the run.
Piece(s, m, e, run) ==
    /\ m \in 1..Len(s) /\ e \in 1..Len(s) /\ m < e
    /\ s[m] = MarkOf(run) /\ s[e] = EndOf(run)
    /\ \A k \in (m + 1)..(e - 1) : s[k] \in ToSet(imitated[run.op].execution)

\* s has the logs of the runs R, each once and in one piece, and no more than
\* imitations and logs of validations between them.
RunsLogged(s, R) ==
    \A run \in R : \E e \in 1..Len(s) :
        /\ s[e] = EndOf(run)
        /\ run.outcome # "silent" => \E m \in 1..Len(s) : Piece(s, m, e, run)

EventsLogged(s, R) == \A i \in 1..Len(s) : OwnEvent(s[i]) => \E run \in R : s[i] = EndOf(run)

EventsOnce(s) ==
    \A i, j \in 1..Len(s) : OwnEvent(s[i]) /\ OwnEvent(s[j]) /\ s[i].op = s[j].op => i = j

MarksLogged(s, R) ==
    \A i \in 1..Len(s) : IsMark(s[i]) =>
        \E run \in R : run.outcome # "silent" /\ \E e \in 1..Len(s) : Piece(s, i, e, run)

WellLogged(s, R) ==
    /\ s \in Seq(AllLogs) /\ R \in SUBSET Runs
    /\ RunsLogged(s, R) /\ EventsLogged(s, R) /\ EventsOnce(s) /\ MarksLogged(s, R)

\* What the logs of a run are.
LEMMA EndsAre ==
    ASSUME NEW run \in Runs
    PROVE  /\ EndOf(run) \in AllLogs /\ MarkOf(run) \in AllLogs
           /\ IsEvent(EndOf(run)) /\ OwnEvent(EndOf(run)) /\ ~ IsMark(EndOf(run))
           /\ EndOf(run).op = run.op
           /\ IsMark(MarkOf(run)) /\ ~ IsEvent(MarkOf(run)) /\ ~ OwnEvent(MarkOf(run))
           /\ MarkOf(run).op = run.op
           /\ EndOf(run).success = (run.outcome = "success")
           /\ EndOf(run).address = entryPointOf[run.op]
           /\ MarkOf(run).name = "Executed" <=> run.outcome = "success"
<1>1. /\ run.op \in Ops /\ entryPointOf[run.op] \in {entryPointOf[o] : o \in Ops}
      /\ entryPointOf[run.op] # "account"
  BY ImitationsAre DEF Runs
<1>2. EndOf(run) \in AllLogs
  BY <1>1 DEF EndOf, EventOf, Log, AllLogs
<1>3. MarkOf(run) \in AllLogs
  BY <1>1 DEF MarkOf, Log, AllLogs
<1> QED BY <1>1, <1>2, <1>3 DEF EndOf, EventOf, MarkOf, Log, IsEvent, OwnEvent, IsMark

\* What imitations are, and are not.
LEMMA ImitationsLogged ==
    /\ Imitations \subseteq AllLogs
    /\ \A l \in Imitations : ~ OwnEvent(l) /\ ~ IsMark(l) /\ l.address = "account"
    /\ \A l \in AllLogs : /\ l.address = "account" /\ l.op \in Ops
                          /\ l.name \in {"UserOperationRevertReason", "UserOperationEvent"}
                          => l \in Imitations
    /\ \A run \in Runs : ToSet(imitated[run.op].execution) \subseteq Imitations
<1>1. Imitations \subseteq AllLogs
  BY DEF Imitations, Log, AllLogs
<1>2. \A l \in Imitations : ~ OwnEvent(l) /\ ~ IsMark(l) /\ l.address = "account"
  BY ImitationsAre DEF OwnEvent, IsMark
<1>3. ASSUME NEW l \in AllLogs, l.address = "account", l.op \in Ops,
             l.name \in {"UserOperationRevertReason", "UserOperationEvent"}
      PROVE  l \in Imitations
  <2>1. l.success \in BOOLEAN
    BY DEF AllLogs
  <2>2. l = Log("account", l.name, l.op, l.success)
    BY <1>3 DEF AllLogs, Log
  <2> QED BY <1>3, <2>1, <2>2 DEF Imitations
<1>4. ASSUME NEW run \in Runs
      PROVE  ToSet(imitated[run.op].execution) \subseteq Imitations
  <2> DEFINE x == imitated[run.op].execution
  <2>1. run.op \in Ops
    BY DEF Runs
  <2>2. x \in Seq(Imitations)
    BY <2>1, ImitationsAre
  <2> HIDE DEF x
  <2> QED BY <2>2, SequenceElements DEF x
<1> QED BY <1>1, <1>2, <1>3, <1>4

LEMMA NothingLogged ==
    ASSUME NEW s \in Seq(AllLogs), \A l \in ToSet(s) : ~ OwnEvent(l) /\ ~ IsMark(l)
    PROVE  WellLogged(s, {})
<1>1. \A i \in 1..Len(s) : ~ OwnEvent(s[i]) /\ ~ IsMark(s[i])
  BY SequenceElements
<1> QED BY <1>1 DEF WellLogged, RunsLogged, EventsLogged, EventsOnce, MarksLogged

LEMMA RunLogged ==
    ASSUME NEW run \in Runs
    PROVE  WellLogged(ExecutionLogs(entryPointOf[run.op], run), {run})
<1> DEFINE s == ExecutionLogs(entryPointOf[run.op], run)
           mark == MarkOf(run)
           end == EndOf(run)
           ei == imitated[run.op].execution
<1>1. /\ end \in AllLogs /\ mark \in AllLogs /\ OwnEvent(end) /\ ~ IsMark(end)
      /\ IsMark(mark) /\ ~ OwnEvent(mark)
  BY EndsAre
<1>2. /\ run.outcome = "silent" => s = <<>> \o <<end>>
      /\ run.outcome = "success" => s = (<<mark>> \o ei) \o <<end>>
      /\ run.outcome = "reverted" => s = <<mark>> \o <<end>>
      /\ run.outcome \in {"silent", "success", "reverted"}
  BY DEF ExecutionLogs, MarkOf, EndOf, EventOf, Runs, Ends
<1>5. /\ ei \in Seq(AllLogs)
      /\ \A l \in ToSet(ei) : l \in AllLogs /\ ~ OwnEvent(l) /\ ~ IsMark(l)
  <2>1. run.op \in Ops
    BY DEF Runs
  <2>2. ei \in Seq(Imitations)
    BY <2>1, ImitationsAre
  <2>3. ToSet(ei) \subseteq Imitations
    BY ImitationsLogged
  <2> HIDE DEF ei
  <2>4. ei \in Seq(AllLogs)
    BY <2>2, ImitationsLogged
  <2> QED BY <2>3, <2>4, ImitationsLogged
<1> HIDE DEF s, mark, end, ei
<1> DEFINE a == <<mark>>
           b == <<end>>
           e == <<>>
<1>6. /\ a \in Seq(AllLogs) /\ Len(a) = 1 /\ a[1] = mark
      /\ b \in Seq(AllLogs) /\ Len(b) = 1 /\ b[1] = end
      /\ e \in Seq(AllLogs) /\ Len(e) = 0 /\ ToSet(e) = {}
  BY <1>1 DEF ToSet
<1>7. a \o e = a
  BY <1>6
<1>3. CASE run.outcome = "silent"
  <2>1. s \in Seq(AllLogs) /\ Len(s) = 1 /\ s[1] = end
    <3>2. s = e \o b
      BY <1>2, <1>3
    <3> HIDE DEF b, e
    <3>3. s \in Seq(AllLogs) /\ Len(s) = 0 + 1 /\ s[0 + 1] = b[1]
      BY <1>6, <3>2, ConcatProperties
    <3> QED BY <1>6, <3>3
  <2>2. RunsLogged(s, {run}) /\ EventsLogged(s, {run}) /\ EventsOnce(s) /\ MarksLogged(s, {run})
    BY <1>1, <1>3, <2>1 DEF RunsLogged, EventsLogged, EventsOnce, MarksLogged, end
  <2> QED BY <2>1, <2>2 DEF WellLogged, s
<1>4. CASE run.outcome # "silent"
  <2>1. PICK x \in Seq(AllLogs) : /\ ToSet(x) \subseteq ToSet(ei)
                                  /\ s = (a \o x) \o b
    <3>1. CASE run.outcome = "success"
      BY <1>2, <1>5, <3>1
    <3>2. CASE run.outcome = "reverted"
      <4>1. s = (a \o e) \o b
        BY <1>2, <1>7, <3>2
      <4> HIDE DEF a, b, e
      <4> QED BY <1>6, <4>1
    <3> QED BY <1>2, <1>4, <3>1, <3>2
  <2> DEFINE l == Len(x)
  <2> HIDE DEF a, b, e
  <2>2. /\ l \in Nat /\ \A i \in 1..l : x[i] \in ToSet(ei)
    BY <2>1, SequenceElements
  <2>3. /\ a \o x \in Seq(AllLogs) /\ Len(a \o x) = 1 + l /\ (a \o x)[1] = mark
        /\ \A i \in 1..l : (a \o x)[1 + i] = x[i]
    BY <1>6, ConcatProperties
  <2> DEFINE ax == a \o x
  <2>4. /\ s \in Seq(AllLogs) /\ Len(s) = (1 + l) + 1 /\ s[(1 + l) + 1] = end
        /\ \A i \in 1..(1 + l) : s[i] = ax[i]
    <3>1. ax \in Seq(AllLogs) /\ Len(ax) = 1 + l /\ s = ax \o b
      BY <2>1, <2>3
    <3> HIDE DEF ax, l
    <3>4. /\ ax \o b \in Seq(AllLogs) /\ Len(ax \o b) = Len(ax) + Len(b)
          /\ \A i \in 1..Len(ax) : (ax \o b)[i] = ax[i]
          /\ \A i \in 1..Len(b) : (ax \o b)[Len(ax) + i] = b[i]
      <4>1. ax \in Seq(AllLogs) /\ b \in Seq(AllLogs) /\ Len(ax) \in Nat /\ Len(b) = 1
        BY <1>6, <3>1
      <4>2. /\ ax \o b \in Seq(AllLogs) /\ Len(ax \o b) = Len(ax) + Len(b)
            /\ \A i \in 1..(Len(ax) + Len(b)) :
                   (ax \o b)[i] = IF i <= Len(ax) THEN ax[i] ELSE b[i - Len(ax)]
        BY <4>1, ConcatProperties
      <4>3. \A i \in 1..Len(ax) : i \in 1..(Len(ax) + Len(b)) /\ i <= Len(ax)
        BY <4>1
      <4>4. \A i \in 1..Len(b) : /\ Len(ax) + i \in 1..(Len(ax) + Len(b))
                                 /\ ~ (Len(ax) + i <= Len(ax)) /\ (Len(ax) + i) - Len(ax) = i
        BY <4>1
      <4> QED BY <4>2, <4>3, <4>4
    <3>2. /\ s \in Seq(AllLogs) /\ Len(s) = Len(ax) + Len(b)
          /\ \A i \in 1..Len(ax) : s[i] = ax[i]
          /\ \A i \in 1..Len(b) : s[Len(ax) + i] = b[i]
      BY <3>1, <3>4
    <3>3. 1 \in 1..Len(b)
      BY <1>6
    <3> QED BY <1>6, <3>1, <3>2, <3>3
  <2> HIDE DEF l
  <2>5. s[1] = mark
    <3>1. 1 \in 1..(1 + l)
      BY <2>2
    <3> QED BY <2>3, <2>4, <3>1
  <2>6. ASSUME NEW i \in 2..(1 + l)
        PROVE  s[i] \in ToSet(ei)
    <3> DEFINE k == i - 1
    <3>1. i \in 1..(1 + l) /\ k \in 1..l /\ i = 1 + k
      BY <2>2
    <3> HIDE DEF k
    <3> QED BY <2>2, <2>3, <2>4, <3>1
  <2>7. \A i \in 1..Len(s) : i = 1 \/ i = l + 2 \/ i \in 2..(1 + l)
    BY <2>2, <2>4
  <2>8. Len(s) = l + 2 /\ s[l + 2] = end /\ l + 2 \in 1..Len(s) /\ 1 \in 1..Len(s)
    <3>1. (1 + l) + 1 = l + 2
      BY <2>2
    <3> QED BY <2>2, <2>4, <3>1
  <2>9. Piece(s, 1, l + 2, run)
    <3>1. (l + 2) - 1 = 1 + l /\ 1 + 1 = 2 /\ 1 < l + 2
      BY <2>2
    <3> QED BY <2>5, <2>6, <2>8, <3>1 DEF Piece, mark, end, ei
  <2>10. RunsLogged(s, {run})
    BY <2>8, <2>9 DEF RunsLogged, end
  <2>11. \A i \in 1..Len(s) : OwnEvent(s[i]) => i = l + 2
    BY <1>1, <1>5, <2>5, <2>6, <2>7
  <2>12. EventsLogged(s, {run}) /\ EventsOnce(s)
    BY <2>8, <2>11 DEF EventsLogged, EventsOnce, end
  <2>13. \A i \in 1..Len(s) : IsMark(s[i]) => i = 1
    BY <1>1, <1>5, <2>6, <2>7, <2>8
  <2>14. MarksLogged(s, {run})
    BY <1>4, <2>8, <2>9, <2>13 DEF MarksLogged
  <2> QED BY <2>4, <2>10, <2>12, <2>14 DEF WellLogged, s
<1> QED BY <1>3, <1>4

LEMMA PieceJoined ==
    ASSUME NEW s \in Seq(AllLogs), NEW t \in Seq(AllLogs), NEW run, NEW a, NEW b
    PROVE  /\ Piece(s, a, b, run) => Piece(s \o t, a, b, run)
           /\ Piece(t, a, b, run) => Piece(s \o t, Len(s) + a, Len(s) + b, run)
<1> DEFINE u == s \o t
           n == Len(s)
           m == Len(t)
<1>1. /\ u \in Seq(AllLogs) /\ n \in Nat /\ m \in Nat /\ Len(u) = n + m
      /\ \A i \in 1..n : u[i] = s[i]
      /\ \A i \in 1..m : u[n + i] = t[i]
  BY ConcatProperties
<1> HIDE DEF u
<1>2. ASSUME Piece(s, a, b, run) PROVE Piece(u, a, b, run)
  <2>1. /\ a \in 1..n /\ b \in 1..n /\ a < b
        /\ s[a] = MarkOf(run) /\ s[b] = EndOf(run)
        /\ \A k \in (a + 1)..(b - 1) : s[k] \in ToSet(imitated[run.op].execution)
    BY <1>2 DEF Piece
  <2> HIDE DEF n, m
  <2>2. \A k \in (a + 1)..(b - 1) : k \in 1..n
    BY <1>1, <2>1
  <2>3. a \in 1..Len(u) /\ b \in 1..Len(u)
    BY <1>1, <2>1
  <2> QED BY <1>1, <2>1, <2>2, <2>3 DEF Piece
<1>3. ASSUME Piece(t, a, b, run) PROVE Piece(u, n + a, n + b, run)
  <2>1. /\ a \in 1..m /\ b \in 1..m /\ a < b
        /\ t[a] = MarkOf(run) /\ t[b] = EndOf(run)
        /\ \A k \in (a + 1)..(b - 1) : t[k] \in ToSet(imitated[run.op].execution)
    BY <1>3 DEF Piece
  <2> HIDE DEF n, m
  <2>2. n + a \in 1..Len(u) /\ n + b \in 1..Len(u) /\ n + a < n + b
    BY <1>1, <2>1
  <2>3. ASSUME NEW k \in ((n + a) + 1)..((n + b) - 1)
        PROVE  u[k] \in ToSet(imitated[run.op].execution)
    <3> DEFINE j == k - n
    <3>1. j \in (a + 1)..(b - 1) /\ j \in 1..m /\ k = n + j
      BY <1>1, <2>1
    <3> HIDE DEF j
    <3> QED BY <1>1, <2>1, <3>1
  <2> QED BY <1>1, <2>1, <2>2, <2>3 DEF Piece
<1> QED BY <1>2, <1>3 DEF u, n

\* One piece after the other.
LEMMA JoinedLogged ==
    ASSUME NEW s, NEW R, WellLogged(s, R), NEW t, NEW Q, WellLogged(t, Q),
           \A a \in R, b \in Q : a.op # b.op
    PROVE  WellLogged(s \o t, R \cup Q)
<1> DEFINE u == s \o t
           n == Len(s)
           m == Len(t)
<1>1. /\ s \in Seq(AllLogs) /\ t \in Seq(AllLogs) /\ R \cup Q \in SUBSET Runs
      /\ R \in SUBSET Runs /\ Q \in SUBSET Runs
  BY DEF WellLogged
<1>2. /\ u \in Seq(AllLogs) /\ n \in Nat /\ m \in Nat /\ Len(u) = n + m
      /\ \A i \in 1..n : u[i] = s[i]
      /\ \A i \in 1..m : u[n + i] = t[i]
  BY <1>1, ConcatProperties
<1>3. \A i \in 1..Len(u) : i \in 1..n \/ \E j \in 1..m : i = n + j
  <2>1. \A i \in 1..Len(u) : i \in 1..n \/ (i - n \in 1..m /\ i = n + (i - n))
    BY <1>2
  <2> QED BY <2>1
<1>4. /\ \A i \in 1..n : i \in 1..Len(u)
      /\ \A j \in 1..m : n + j \in 1..Len(u)
  BY <1>2
<1>10. \A run, a, b : /\ Piece(s, a, b, run) => Piece(u, a, b, run)
                      /\ Piece(t, a, b, run) => Piece(u, n + a, n + b, run)
  BY <1>1, PieceJoined
<1> HIDE DEF u, n, m
<1>5. RunsLogged(u, R \cup Q)
  <2>1. ASSUME NEW run \in R
        PROVE  \E e \in 1..Len(u) :
                   /\ u[e] = EndOf(run)
                   /\ run.outcome # "silent" => \E k \in 1..Len(u) : Piece(u, k, e, run)
    <3>1. PICK e \in 1..n :
              /\ s[e] = EndOf(run)
              /\ run.outcome # "silent" => \E k \in 1..n : Piece(s, k, e, run)
      BY DEF WellLogged, RunsLogged, n
    <3>2. e \in 1..Len(u) /\ u[e] = EndOf(run)
      BY <1>2, <1>4, <3>1
    <3>3. ASSUME run.outcome # "silent"
          PROVE  \E k \in 1..Len(u) : Piece(u, k, e, run)
      <4>1. PICK k \in 1..n : Piece(s, k, e, run)
        BY <3>1, <3>3
      <4>2. Piece(u, k, e, run)
        BY <1>10, <4>1
      <4>3. k \in 1..Len(u)
        BY <1>4
      <4> QED BY <4>2, <4>3
    <3> QED BY <3>2, <3>3
  <2>2. ASSUME NEW run \in Q
        PROVE  \E e \in 1..Len(u) :
                   /\ u[e] = EndOf(run)
                   /\ run.outcome # "silent" => \E k \in 1..Len(u) : Piece(u, k, e, run)
    <3>1. PICK j \in 1..m :
              /\ t[j] = EndOf(run)
              /\ run.outcome # "silent" => \E k \in 1..m : Piece(t, k, j, run)
      BY DEF WellLogged, RunsLogged, m
    <3>2. n + j \in 1..Len(u) /\ u[n + j] = EndOf(run)
      BY <1>2, <1>4, <3>1
    <3>3. ASSUME run.outcome # "silent"
          PROVE  \E k \in 1..Len(u) : Piece(u, k, n + j, run)
      <4>1. PICK k \in 1..m : Piece(t, k, j, run)
        BY <3>1, <3>3
      <4>2. Piece(u, n + k, n + j, run)
        BY <1>10, <4>1
      <4>3. n + k \in 1..Len(u)
        BY <1>4
      <4> QED BY <4>2, <4>3
    <3> QED BY <3>2, <3>3
  <2> QED BY <2>1, <2>2 DEF RunsLogged
<1>6. /\ \A i \in 1..n : OwnEvent(s[i]) => \E run \in R : s[i] = EndOf(run)
      /\ \A j \in 1..m : OwnEvent(t[j]) => \E run \in Q : t[j] = EndOf(run)
  BY DEF WellLogged, EventsLogged, n, m
<1>7. EventsLogged(u, R \cup Q)
  BY <1>2, <1>3, <1>6 DEF EventsLogged
<1>8. EventsOnce(u)
  <2> SUFFICES ASSUME NEW i \in 1..Len(u), NEW j \in 1..Len(u),
                      OwnEvent(u[i]), OwnEvent(u[j]), u[i].op = u[j].op
               PROVE  i = j
    BY DEF EventsOnce
  <2>1. \A k \in 1..n, l \in 1..m :
            OwnEvent(s[k]) /\ OwnEvent(t[l]) => s[k].op # t[l].op
    <3> SUFFICES ASSUME NEW k \in 1..n, NEW l \in 1..m, OwnEvent(s[k]), OwnEvent(t[l])
                 PROVE  s[k].op # t[l].op
      OBVIOUS
    <3>1. PICK a \in R : s[k] = EndOf(a)
      BY <1>6
    <3>2. PICK b \in Q : t[l] = EndOf(b)
      BY <1>6
    <3>3. s[k].op = a.op /\ t[l].op = b.op
      BY <1>1, <3>1, <3>2, EndsAre
    <3> QED BY <3>3
  <2>2. CASE i \in 1..n /\ j \in 1..n
    BY <1>2, <2>2 DEF WellLogged, EventsOnce, n
  <2>3. ASSUME NEW k \in 1..m, NEW l \in 1..m, i = n + k, j = n + l
        PROVE  i = j
    <3>1. k = l
      BY <1>2, <2>3 DEF WellLogged, EventsOnce, m
    <3> QED BY <2>3, <3>1
  <2>4. ASSUME NEW k \in 1..m, i \in 1..n, j = n + k
        PROVE  i = j
    BY <1>2, <2>1, <2>4
  <2>5. ASSUME NEW k \in 1..m, j \in 1..n, i = n + k
        PROVE  i = j
    BY <1>2, <2>1, <2>5
  <2> QED BY <1>3, <2>2, <2>3, <2>4, <2>5
<1>9. MarksLogged(u, R \cup Q)
  <2> SUFFICES ASSUME NEW i \in 1..Len(u), IsMark(u[i])
               PROVE  \E run \in R \cup Q : /\ run.outcome # "silent"
                                            /\ \E e \in 1..Len(u) : Piece(u, i, e, run)
    BY DEF MarksLogged
  <2>1. CASE i \in 1..n
    <3>1. PICK run \in R : /\ run.outcome # "silent"
                           /\ \E e \in 1..n : Piece(s, i, e, run)
      BY <1>2, <2>1 DEF WellLogged, MarksLogged, n
    <3>2. PICK e \in 1..n : Piece(s, i, e, run)
      BY <3>1
    <3>3. Piece(u, i, e, run)
      BY <1>10, <3>2
    <3>4. e \in 1..Len(u)
      BY <1>4
    <3> QED BY <3>1, <3>3, <3>4
  <2>2. ASSUME NEW j \in 1..m, i = n + j
        PROVE  \E run \in Q : /\ run.outcome # "silent"
                              /\ \E e \in 1..Len(u) : Piece(u, i, e, run)
    <3>1. PICK run \in Q : /\ run.outcome # "silent"
                           /\ \E e \in 1..m : Piece(t, j, e, run)
      BY <1>2, <2>2 DEF WellLogged, MarksLogged, m
    <3>2. PICK e \in 1..m : Piece(t, j, e, run)
      BY <3>1
    <3>3. Piece(u, i, n + e, run)
      BY <1>10, <2>2, <3>2
    <3>4. n + e \in 1..Len(u)
      BY <1>4
    <3> QED BY <3>1, <3>3, <3>4
  <2> QED BY <1>3, <2>1, <2>2
<1> QED BY <1>1, <1>2, <1>5, <1>7, <1>8, <1>9 DEF WellLogged, u

\* Pieces of different runs.
LEMMA FlattenedLogged ==
    ASSUME NEW bs \in Seq(Seq(AllLogs)), NEW Rs,
           \A i \in 1..Len(bs) : WellLogged(bs[i], Rs[i]),
           \A i, j \in 1..Len(bs) : \A a \in Rs[i], b \in Rs[j] : a.op = b.op => i = j
    PROVE  WellLogged(FlattenSeq(bs), UNION {Rs[i] : i \in 1..Len(bs)})
<1> DEFINE n == Len(bs)
           Upto(k) == UNION {Rs[i] : i \in 1..k}
<1>1. n \in Nat
  OBVIOUS
<1>2. CASE bs = <<>>
  <2>1. FlattenSeq(bs) = bs /\ 1..n = {} /\ bs \in Seq(AllLogs) /\ ToSet(bs) = {}
    BY <1>2 DEF FlattenSeq, ToSet
  <2>2. WellLogged(bs, {})
    BY <2>1, NothingLogged
  <2> QED BY <2>1, <2>2
<1>3. CASE bs # <<>>
  <2>1. PICK F : /\ FlattenSeq(bs) = F[n]
                 /\ \A k \in 1..n : F[k] = IF k = 1 THEN bs[k] ELSE F[k - 1] \o bs[k]
    BY <1>3, FlattenedByPieces
  <2>2. n # 0
    BY <1>3
  <2> DEFINE P == {k \in 0..n : k = 0 \/ WellLogged(F[k], Upto(k))}
  <2> HIDE DEF n
  <2>3. 0 \in P
    BY <1>1
  <2>4. ASSUME NEW k \in 1..n, k - 1 \in P
        PROVE  k \in P
    <3> DEFINE l == k - 1
    <3>1. k \in 0..n /\ l \in 0..n /\ k = l + 1 /\ l \in Nat
      BY <1>1
    <3>2. Upto(k) = Upto(l) \cup Rs[k]
      <4>1. 1..k = (1..l) \cup {k}
        BY <3>1
      <4> HIDE DEF l
      <4> QED BY <4>1
    <3>3. WellLogged(bs[k], Rs[k])
      BY DEF n
    <3>4. CASE k = 1
      <4>1. 1..l = {}
        BY <3>1, <3>4
      <4>2. Upto(l) = {}
        <5> HIDE DEF l
        <5> QED BY <4>1
      <4>3. F[k] = bs[k] /\ Upto(k) = Rs[k]
        BY <2>1, <3>2, <3>4, <4>2
      <4> HIDE DEF Upto
      <4> QED BY <3>1, <3>3, <4>3
    <3>5. CASE k # 1
      <4>1. WellLogged(F[l], Upto(l))
        <5> HIDE DEF Upto
        <5> QED BY <2>4, <3>1, <3>5 DEF l
      <4>2. F[k] = F[l] \o bs[k]
        BY <2>1, <3>5 DEF l
      <4>3. \A a \in Upto(l), b \in Rs[k] : a.op # b.op
        <5> SUFFICES ASSUME NEW i \in 1..l, NEW a \in Rs[i], NEW b \in Rs[k]
                     PROVE  a.op # b.op
          OBVIOUS
        <5>1. i \in 1..n /\ k \in 1..n /\ i # k
          BY <1>1, <3>1
        <5> QED BY <5>1 DEF n
      <4> DEFINE s == F[l]
                 R == Upto(l)
                 t == bs[k]
                 Q == Rs[k]
      <4>4. /\ WellLogged(s, R) /\ WellLogged(t, Q) /\ \A a \in R, b \in Q : a.op # b.op
            /\ F[k] = s \o t /\ Upto(k) = R \cup Q
        <5> HIDE DEF Upto
        <5> QED BY <3>2, <3>3, <4>1, <4>2, <4>3
      <4> HIDE DEF s, R, t, Q, Upto
      <4>5. WellLogged(s \o t, R \cup Q)
        BY <4>4, JoinedLogged
      <4> QED BY <3>1, <4>4, <4>5
    <3> QED BY <3>4, <3>5
  <2>5. n \in P
    <3> HIDE DEF P
    <3>1. \A k \in 0..n : k \in P
      BY <1>1, <2>3, <2>4, UpTo
    <3> QED BY <1>1, <3>1
  <2>6. WellLogged(F[n], Upto(n))
    <3> HIDE DEF Upto
    <3> QED BY <2>2, <2>5
  <2> QED BY <2>1, <2>6 DEF n
<1> QED BY <1>2, <1>3

Calls ==
    [entryPoint : {entryPointOf[o] : o \in Ops}, logged : Seq(Imitations), runs : Seq(Runs)]

LEMMA CallLogged ==
    ASSUME NEW call \in Calls,
           \A i, k \in DOMAIN call.runs : call.runs[i].op = call.runs[k].op => i = k,
           \A i \in DOMAIN call.runs : entryPointOf[call.runs[i].op] = call.entryPoint
    PROVE  WellLogged(CallLogs(call), ToSet(call.runs))
<1> DEFINE ep == call.entryPoint
           runs == call.runs
           n == Len(runs)
           vs == [i \in DOMAIN runs |-> ValidationLogs(ep, runs[i].op)]
           es == [i \in DOMAIN runs |-> ExecutionLogs(ep, runs[i])]
           Rs == [i \in DOMAIN runs |-> {runs[i]}]
           border == Log(ep, "BeforeExecution", NoAddress, TRUE)
           before == call.logged
<1>1. CallLogs(call) = ((before \o FlattenSeq(vs)) \o <<border>>) \o FlattenSeq(es)
  BY DEF CallLogs
<1>2. /\ runs \in Seq(Runs) /\ n \in Nat /\ DOMAIN runs = 1..n /\ \A i \in 1..n : runs[i] \in Runs
      /\ ep \in {entryPointOf[o] : o \in Ops}
  <2>1. runs \in Seq(Runs) /\ ep \in {entryPointOf[o] : o \in Ops}
    BY DEF Calls
  <2> HIDE DEF runs
  <2> QED BY <2>1
<1>3. \A i, k \in 1..n : runs[i].op = runs[k].op => i = k
  BY <1>2
<1>4. \A i \in 1..n : entryPointOf[runs[i].op] = ep
  BY <1>2
<1>18. before \in Seq(AllLogs) /\ \A l \in ToSet(before) : ~ OwnEvent(l) /\ ~ IsMark(l)
  <2>1. before \in Seq(Imitations)
    BY DEF Calls
  <2> HIDE DEF before
  <2>2. before \in Seq(AllLogs) /\ ToSet(before) \subseteq Imitations
    BY <2>1, ImitationsLogged, SequenceElements
  <2> QED BY <2>2, ImitationsLogged
<1> HIDE DEF runs, n, ep, before
<1>5. ASSUME NEW i \in 1..n
      PROVE  /\ vs[i] = ValidationLogs(ep, runs[i].op)
             /\ es[i] = ExecutionLogs(ep, runs[i])
             /\ Rs[i] = {runs[i]}
  BY <1>2
<1>6. ASSUME NEW i \in 1..n
      PROVE  /\ es[i] \in Seq(AllLogs) /\ WellLogged(es[i], Rs[i])
             /\ vs[i] \in Seq(AllLogs)
             /\ \A l \in ToSet(vs[i]) : ~ OwnEvent(l) /\ ~ IsMark(l)
  <2> DEFINE run == runs[i]
             deployed == Log(ep, "AccountDeployed", run.op, TRUE)
             validated == Log("account", "Validated", run.op, TRUE)
             vi == imitated[run.op].validation
  <2>1. run \in Runs /\ entryPointOf[run.op] = ep /\ run.op \in Ops
    BY <1>2, <1>4 DEF Runs
  <2>2. es[i] = ExecutionLogs(entryPointOf[run.op], run) /\ Rs[i] = {run}
    BY <1>5, <2>1
  <2>3. /\ deployed \in AllLogs /\ ~ OwnEvent(deployed) /\ ~ IsMark(deployed)
        /\ validated \in AllLogs /\ ~ OwnEvent(validated) /\ ~ IsMark(validated)
    BY <1>2, <2>1 DEF AllLogs, Log, IsEvent, OwnEvent, IsMark
  <2>4. \/ vs[i] = (<<>> \o <<validated>>) \o vi
        \/ vs[i] = (<<deployed>> \o <<validated>>) \o vi
    BY <1>5 DEF ValidationLogs
  <2>9. vi \in Seq(AllLogs) /\ ToSet(vi) \subseteq Imitations
    <3>1. vi \in Seq(Imitations)
      BY <2>1, ImitationsAre
    <3> HIDE DEF vi
    <3> QED BY <3>1, ImitationsLogged, SequenceElements
  <2> HIDE DEF es, vs, Rs, run, deployed, validated, vi
  <2>5. WellLogged(es[i], Rs[i])
    BY <2>1, <2>2, RunLogged
  <2> DEFINE d == <<deployed>>
             v == <<validated>>
             e == <<>>
  <2>6. /\ d \in Seq(AllLogs) /\ ToSet(d) = {deployed} /\ v \in Seq(AllLogs) /\ ToSet(v) = {validated}
        /\ e \in Seq(AllLogs) /\ ToSet(e) = {}
    <3>1. \A x \in AllLogs : <<x>> \in Seq(AllLogs) /\ ToSet(<<x>>) = {x}
      BY DEF ToSet
    <3>2. <<>> \in Seq(AllLogs) /\ ToSet(<<>>) = {}
      BY DEF ToSet
    <3> QED BY <2>3, <3>1, <3>2
  <2>7. vs[i] = (e \o v) \o vi \/ vs[i] = (d \o v) \o vi
    BY <2>4
  <2> HIDE DEF d, v, e
  <2>8. /\ d \o v \in Seq(AllLogs) /\ ToSet(d \o v) = {deployed, validated}
        /\ e \o v \in Seq(AllLogs) /\ ToSet(e \o v) = {validated}
    BY <2>6, ConcatenatedElements
  <2>10. PICK t \in Seq(AllLogs) : vs[i] = t \o vi /\ ToSet(t) \subseteq {deployed, validated}
    BY <2>7, <2>8
  <2>11. t \o vi \in Seq(AllLogs) /\ ToSet(t \o vi) = ToSet(t) \cup ToSet(vi)
    BY <2>9, ConcatenatedElements
  <2> QED BY <2>3, <2>5, <2>9, <2>10, <2>11, ImitationsLogged DEF WellLogged
<1>7. /\ vs \in Seq(Seq(AllLogs)) /\ Len(vs) = n /\ es \in Seq(Seq(AllLogs)) /\ Len(es) = n
  <2>1. vs \in [1..n -> Seq(AllLogs)] /\ es \in [1..n -> Seq(AllLogs)]
    <3>1. vs = [i \in 1..n |-> vs[i]] /\ es = [i \in 1..n |-> es[i]]
      BY <1>2
    <3> HIDE DEF vs, es
    <3> QED BY <1>6, <3>1
  <2> HIDE DEF vs, es
  <2>2. vs \in Seq(Seq(AllLogs)) /\ Len(vs) = n
    BY <1>2, <2>1
  <2>3. es \in Seq(Seq(AllLogs)) /\ Len(es) = n
    BY <1>2, <2>1
  <2> QED BY <2>2, <2>3
<1>8. \A i, j \in 1..n : \A a \in Rs[i], b \in Rs[j] : a.op = b.op => i = j
  <2>1. \A i \in 1..n : Rs[i] = {runs[i]}
    BY <1>5
  <2> HIDE DEF Rs
  <2> QED BY <1>3, <2>1
<1>9. ToSet(runs) = UNION {Rs[i] : i \in 1..n}
  <2>1. ToSet(runs) = {runs[i] : i \in 1..n}
    BY <1>2 DEF ToSet
  <2>2. \A i \in 1..n : Rs[i] = {runs[i]}
    BY <1>5
  <2> HIDE DEF Rs
  <2> QED BY <2>1, <2>2
<1>10. border \in AllLogs /\ ~ OwnEvent(border) /\ ~ IsMark(border)
  BY <1>2 DEF Log, AllLogs, IsEvent, OwnEvent, IsMark
<1> HIDE DEF vs, es, Rs, border
<1> DEFINE v == FlattenSeq(vs)
           b == <<border>>
           e == FlattenSeq(es)
<1>11. v \in Seq(AllLogs) /\ ToSet(v) = UNION {ToSet(vs[i]) : i \in 1..n}
  BY <1>7, FlattenedElements
<1>12. b \in Seq(AllLogs) /\ ToSet(b) = {border}
  BY <1>10 DEF ToSet
<1>13. WellLogged(e, ToSet(runs))
  <2>1. /\ \A i \in 1..Len(es) : WellLogged(es[i], Rs[i])
        /\ \A i, j \in 1..Len(es) : \A x \in Rs[i], y \in Rs[j] : x.op = y.op => i = j
        /\ ToSet(runs) = UNION {Rs[i] : i \in 1..Len(es)}
    BY <1>6, <1>7, <1>8, <1>9
  <2>2. WellLogged(FlattenSeq(es), UNION {Rs[i] : i \in 1..Len(es)})
    BY <1>7, <2>1, FlattenedLogged
  <2> QED BY <2>1, <2>2
<1>14. CallLogs(call) = ((before \o v) \o b) \o e
  BY <1>1
<1> HIDE DEF v, b, e
<1>15. WellLogged(before, {}) /\ WellLogged(v, {}) /\ WellLogged(b, {})
  <2>1. \A l \in ToSet(v) : ~ OwnEvent(l) /\ ~ IsMark(l)
    BY <1>6, <1>11
  <2> QED BY <1>10, <1>11, <1>12, <1>18, <2>1, NothingLogged
<1> DEFINE u == before \o v
           w == u \o b
<1>16. WellLogged(u, {})
  <2>1. WellLogged(u, {} \cup {})
    BY <1>15, JoinedLogged
  <2> QED BY <2>1
<1> HIDE DEF u
<1>19. WellLogged(w, {})
  <2>1. WellLogged(w, {} \cup {})
    BY <1>15, <1>16, JoinedLogged
  <2> QED BY <2>1
<1> HIDE DEF w
<1>17. WellLogged(w \o e, ToSet(runs))
  <2>2. WellLogged(w \o e, {} \cup ToSet(runs))
    BY <1>13, <1>19, JoinedLogged
  <2>3. {} \cup ToSet(runs) = ToSet(runs)
    OBVIOUS
  <2> QED BY <2>2, <2>3
<1> QED BY <1>14, <1>17 DEF runs, u, w

\* A transaction that an entry point may run, once or, from a contract, more
\* often.
WellRun(tx) ==
    /\ tx.calls \in Seq(Calls)
    /\ \A i, j \in DOMAIN tx.calls :
        \A k \in DOMAIN tx.calls[i].runs, l \in DOMAIN tx.calls[j].runs :
            /\ entryPointOf[tx.calls[i].runs[k].op] = tx.calls[i].entryPoint
            /\ SameNonce(tx.calls[i].runs[k].op, tx.calls[j].runs[l].op) => i = j /\ k = l
    /\ tx.functionName \in {"handleOpsV06", "handleOpsV07"} =>
          /\ Len(tx.calls) = 1
          /\ \A run \in ToSet(tx.calls[1].runs) : functionOf(run.op) = tx.functionName

LEMMA TransactionLogged ==
    ASSUME NEW tx, WellRun(tx), tx.status # "reverted"
    PROVE  /\ WellLogged(logsOf(tx), RunsOf(tx))
           /\ \A a, b \in RunsOf(tx) : SameNonce(a.op, b.op) => a = b
<1> DEFINE cs == tx.calls
           n == Len(cs)
           bs == [i \in DOMAIN cs |-> CallLogs(cs[i])]
           Rs == [i \in DOMAIN cs |-> ToSet(cs[i].runs)]
<1>1. /\ n \in Nat /\ DOMAIN cs = 1..n
      /\ \A i \in 1..n : cs[i] \in Calls /\ cs[i].runs \in Seq(Runs)
  <2>1. cs \in Seq(Calls)
    BY DEF WellRun
  <2> HIDE DEF cs
  <2>2. n \in Nat /\ DOMAIN cs = 1..n /\ \A i \in 1..n : cs[i] \in Calls
    BY <2>1
  <2>3. \A call \in Calls : call.runs \in Seq(Runs)
    BY DEF Calls
  <2> QED BY <2>2, <2>3
<1>2. \A i, j \in 1..n : \A k \in DOMAIN cs[i].runs, l \in DOMAIN cs[j].runs :
          /\ entryPointOf[cs[i].runs[k].op] = cs[i].entryPoint
          /\ SameNonce(cs[i].runs[k].op, cs[j].runs[l].op) => i = j /\ k = l
  BY <1>1 DEF WellRun
<1>3. /\ logsOf(tx) = FlattenSeq(bs)
      /\ RunsOf(tx) = UNION {Rs[i] : i \in 1..n}
  BY <1>1 DEF logsOf, RunsOf
<1>4. \A i \in 1..n : bs[i] = CallLogs(cs[i]) /\ Rs[i] = ToSet(cs[i].runs)
  BY <1>1
<1>5. bs = [i \in 1..n |-> bs[i]]
  BY <1>1
<1> HIDE DEF cs, n, bs, Rs
<1>6. ASSUME NEW i \in 1..n
      PROVE  WellLogged(bs[i], Rs[i])
  <2> DEFINE call == cs[i]
  <2>1. /\ call \in Calls
        /\ \A k, l \in DOMAIN call.runs : call.runs[k].op = call.runs[l].op => k = l
        /\ \A k \in DOMAIN call.runs : entryPointOf[call.runs[k].op] = call.entryPoint
    BY <1>1, <1>2 DEF SameNonce
  <2> HIDE DEF call
  <2>2. WellLogged(CallLogs(call), ToSet(call.runs))
    BY <2>1, CallLogged
  <2> QED BY <1>4, <2>2 DEF call
<1>7. ASSUME NEW i \in 1..n, NEW a \in Rs[i]
      PROVE  \E k \in DOMAIN cs[i].runs : a = cs[i].runs[k]
  BY <1>4, <1>7 DEF ToSet
<1>8. ASSUME NEW i \in 1..n, NEW j \in 1..n, NEW a \in Rs[i], NEW b \in Rs[j],
             SameNonce(a.op, b.op)
      PROVE  i = j /\ a = b
  <2>1. PICK k \in DOMAIN cs[i].runs : a = cs[i].runs[k]
    BY <1>7
  <2>2. PICK l \in DOMAIN cs[j].runs : b = cs[j].runs[l]
    BY <1>7
  <2>3. i = j /\ k = l
    BY <1>2, <1>8, <2>1, <2>2
  <2> QED BY <2>1, <2>2, <2>3
<1>9. \A i, j \in 1..n : \A a \in Rs[i], b \in Rs[j] : a.op = b.op => i = j
  BY <1>8 DEF SameNonce
<1>10. bs \in Seq(Seq(AllLogs)) /\ Len(bs) = n
  <2>1. \A i \in 1..n : bs[i] \in Seq(AllLogs)
    BY <1>6 DEF WellLogged
  <2>2. bs \in [1..n -> Seq(AllLogs)]
    BY <1>5, <2>1
  <2> QED BY <1>1, <2>2
<1>11. WellLogged(FlattenSeq(bs), UNION {Rs[i] : i \in 1..Len(bs)})
  BY <1>6, <1>9, <1>10, FlattenedLogged
<1>12. ASSUME NEW a \in RunsOf(tx), NEW b \in RunsOf(tx), SameNonce(a.op, b.op)
       PROVE  a = b
  BY <1>3, <1>8, <1>12
<1> QED BY <1>3, <1>10, <1>11, <1>12

-----------------------------------------------------------------------------
(* parseUserOperationReceipt.                                              *)

Walks == [index : Nat, endIndex : Nat, startIndex : Nat, revertReason : BOOLEAN]
WalkStart == [index |-> 1, endIndex |-> 0, startIndex |-> 0, revertReason |-> FALSE]

WalkStep(w, log, o) ==
    [index      |-> w.index + 1,
     endIndex   |-> IF IsEvent(log) /\ log.op = o THEN w.index ELSE w.endIndex,
     startIndex |-> IF IsEvent(log) /\ log.op # o /\ w.endIndex = 0
                    THEN w.index ELSE w.startIndex,
     revertReason |-> w.revertReason
                         \/ (log.name = "UserOperationRevertReason" /\ log.op = o)]

\* g has what is known up to each log.
Walking(g, logs, o) ==
    /\ g \in [0..Len(logs) -> Walks]
    /\ g[0] = WalkStart
    /\ \A k \in 1..Len(logs) : g[k] = WalkStep(g[k - 1], logs[k], o)

LEMMA WalkSteps ==
    ASSUME NEW logs \in Seq(AllLogs), NEW o
    PROVE  \E g : Walking(g, logs, o) /\ walk(logs, o) = g[Len(logs)]
<1> DEFINE n == Len(logs)
           X == Walks
           base == WalkStart
           Turn(w, log) == WalkStep(w, log, o)
           step == [p \in (1..n) \X X |-> Turn(p[2], logs[p[1]])]
           Body(g) == [T \in SUBSET DOMAIN logs |->
                          IF T = {} THEN base ELSE Turn(g[T \ {Max(T)}], logs[Max(T)])]
           h == CHOOSE g : g = Body(g)
<1>0. walk(logs, o) = h[DOMAIN logs]
  BY DEF walk, FoldLeft, MapThenFoldSet, WalkStep, WalkStart
<1>1. n \in Nat /\ DOMAIN logs = 1..n /\ base \in X
  BY DEF Walks, WalkStart
<1>2. ASSUME NEW w \in X, NEW k \in 1..n
      PROVE  Turn(w, logs[k]) \in X
  BY DEF Walks, WalkStep
<1> HIDE DEF Turn, X, base
<1>3. step \in [(1..n) \X X -> X]
  BY <1>2
<1>4. PICK g \in [SUBSET (1..n) -> X] : Folding(g, 1..n, base, LastOf(n), step)
  <2> HIDE DEF step, n
  <2> QED BY <1>1, <1>3, FoldOnSequenceExists
<1>5. g = Body(g)
  <2>1. \A T \in SUBSET (1..n) : T # {} => Max(T) \in 1..n /\ T \ {Max(T)} \in SUBSET (1..n)
    BY <1>1, LastPosition
  <2>2. \A T \in SUBSET (1..n) :
            g[T] = IF T = {} THEN base ELSE Turn(g[T \ {Max(T)}], logs[Max(T)])
    <3> HIDE DEF n
    <3> QED BY <1>1, <1>4, <2>1 DEF Folding, LastOf
  <2> QED BY <1>1, <1>4, <2>2
<1>6. h = Body(h)
  <2> HIDE DEF Body
  <2> QED BY <1>5
<1>7. h[1..0] = base /\ \A k \in 1..n : h[1..k] = Turn(h[1..(k-1)], logs[k])
  <2>1. \A k \in 1..n : /\ 1..k \in SUBSET (1..n) /\ 1..k # {}
                        /\ Max(1..k) = k /\ (1..k) \ {k} = 1..(k - 1)
    BY <1>1, LastOfFirst
  <2>2. \A T \in SUBSET (1..n) :
            h[T] = IF T = {} THEN base ELSE Turn(h[T \ {Max(T)}], logs[Max(T)])
    <3> HIDE DEF h, n
    <3> QED BY <1>1, <1>6
  <2>3. 1..0 \in SUBSET (1..n) /\ 1..0 = {}
    OBVIOUS
  <2> HIDE DEF h, n
  <2> QED BY <2>1, <2>2, <2>3
<1> DEFINE f == [k \in 0..n |-> h[1..k]]
<1>8. /\ f[0] = base /\ f[n] = h[1..n]
      /\ \A k \in 1..n : f[k] = Turn(f[k - 1], logs[k])
  <2> HIDE DEF h, n
  <2>1. \A k \in 1..n : k \in 0..n /\ k - 1 \in 0..n
    BY <1>1
  <2> QED BY <1>1, <1>7, <2>1
<1>9. f = [k \in 0..n |-> f[k]] /\ walk(logs, o) = f[n]
  BY <1>0, <1>1, <1>8
<1> HIDE DEF f, h, n
<1>10. \A k \in 0..n : f[k] \in X
  <2> DEFINE Q == {k \in 0..n : f[k] \in X}
  <2>1. 0 \in Q
    <3>1. f[0] \in X
      BY <1>1, <1>8
    <3>2. 0 \in 0..n
      BY <1>1 DEF n
    <3> QED BY <3>1, <3>2
  <2>2. ASSUME NEW k \in 1..n, k - 1 \in Q
        PROVE  k \in Q
    <3>1. f[k - 1] \in X
      BY <2>2
    <3>2. f[k] \in X
      BY <1>2, <1>8, <3>1
    <3>3. k \in 0..n
      BY <1>1 DEF n
    <3> QED BY <3>2, <3>3
  <2> HIDE DEF Q
  <2>3. \A k \in 0..n : k \in Q
    BY <1>1, <2>1, <2>2, UpTo
  <2> QED BY <2>3 DEF Q
<1>11. f \in [0..n -> X]
  BY <1>9, <1>10
<1>12. Walking(f, logs, o)
  BY <1>8, <1>11 DEF n, X, base, Turn, Walking
<1> QED BY <1>9, <1>12 DEF n

\* The operation's event is at e, and nowhere else.
EventAt(logs, o, e) ==
    e \in 1..Len(logs) /\ \A i \in 1..Len(logs) : IsEvent(logs[i]) /\ logs[i].op = o <=> i = e

\* endIndex is where the operation's event is, startIndex where the last event
\* before it is.
Walked(found, logs, o, e) ==
    /\ found.endIndex = e
    /\ found.startIndex \in 0..(e - 1)
    /\ found.startIndex # 0 => IsEvent(logs[found.startIndex])
    /\ \A i \in (found.startIndex + 1)..(e - 1) : ~ IsEvent(logs[i])
    /\ found.revertReason =
           (\E i \in 1..Len(logs) : logs[i].name = "UserOperationRevertReason" /\ logs[i].op = o)

LEMMA WalkFinds ==
    ASSUME NEW logs \in Seq(AllLogs), NEW o, NEW e, EventAt(logs, o, e)
    PROVE  Walked(walk(logs, o), logs, o, e)
<1> DEFINE n == Len(logs)
           Reason(i) == logs[i].name = "UserOperationRevertReason" /\ logs[i].op = o
<1>1. n \in Nat /\ e \in 1..n
  BY DEF EventAt
<1>2. PICK g : Walking(g, logs, o) /\ walk(logs, o) = g[n]
  BY WalkSteps
<1>3. /\ g \in [0..n -> Walks] /\ g[0] = WalkStart
      /\ \A k \in 1..n : g[k] = WalkStep(g[k - 1], logs[k], o)
  BY <1>2 DEF Walking
<1>4. \A i \in 1..n : IsEvent(logs[i]) /\ logs[i].op = o <=> i = e
  BY DEF EventAt
<1> DEFINE Known(w, k) ==
              /\ w.index = k + 1
              /\ w.endIndex = IF e =< k THEN e ELSE 0
              /\ w.startIndex \in 0..k /\ w.startIndex < e
              /\ w.startIndex # 0 => IsEvent(logs[w.startIndex])
              /\ \A i \in 1..k : w.startIndex < i /\ i < e => ~ IsEvent(logs[i])
              /\ w.revertReason = (\E i \in 1..k : Reason(i))
           Q == {k \in 0..n : Known(g[k], k)}
<1> HIDE DEF n, Reason
<1>5. 0 \in Q
  <2> DEFINE w == g[0]
  <2>1. /\ w.index = 1 /\ w.endIndex = 0 /\ w.startIndex = 0 /\ w.revertReason = FALSE
    BY <1>3 DEF WalkStart
  <2>2. 0 \in 0..n /\ ~ (e =< 0) /\ 1..0 = {} /\ 0 < e
    BY <1>1
  <2> HIDE DEF w
  <2>3. Known(w, 0)
    <3>1. w.revertReason = (\E i \in 1..0 : Reason(i))
      BY <2>1, <2>2
    <3>2. /\ w.index = 0 + 1 /\ w.endIndex = IF e =< 0 THEN e ELSE 0
          /\ w.startIndex \in 0..0 /\ w.startIndex < e
          /\ w.startIndex # 0 => IsEvent(logs[w.startIndex])
          /\ \A i \in 1..0 : w.startIndex < i /\ i < e => ~ IsEvent(logs[i])
      BY <2>1, <2>2
    <3> QED BY <3>1, <3>2
  <2> QED BY <2>2, <2>3 DEF w
<1>6. ASSUME NEW k \in 1..n, k - 1 \in Q
      PROVE  k \in Q
  <2> DEFINE l == k - 1
             w == g[l]
             v == g[k]
  <2>1. Known(w, l)
    BY <1>6
  <2>2. v = WalkStep(w, logs[k], o)
    BY <1>3
  <2>3. /\ l \in 0..n /\ k \in 0..n /\ k = l + 1 /\ w \in Walks /\ l \in Nat /\ k \in Nat
        /\ \A i \in 1..k : i = k \/ i \in 1..l
        /\ \A i \in 1..l : i \in 1..k
        /\ k \in 1..k
    BY <1>1, <1>3
  <2> HIDE DEF l, w, v
  <2>4. /\ v.index = w.index + 1
        /\ v.endIndex = IF IsEvent(logs[k]) /\ logs[k].op = o THEN w.index ELSE w.endIndex
        /\ v.startIndex = IF IsEvent(logs[k]) /\ logs[k].op # o /\ w.endIndex = 0
                          THEN w.index ELSE w.startIndex
        /\ v.revertReason = (w.revertReason \/ Reason(k))
    BY <2>2 DEF WalkStep, Reason
  <2>5. w.index = k /\ v.index = k + 1
    BY <2>1, <2>3, <2>4
  <2>6. v.endIndex = IF e =< k THEN e ELSE 0
    BY <1>1, <1>4, <2>1, <2>3, <2>4, <2>5
  <2>7. v.revertReason = (\E i \in 1..k : Reason(i))
    BY <2>1, <2>3, <2>4
  <2>8. CASE IsEvent(logs[k]) /\ logs[k].op # o /\ w.endIndex = 0
    <3>1. v.startIndex = k /\ k < e
      BY <1>1, <1>4, <2>1, <2>3, <2>4, <2>5, <2>8
    <3>2. \A i \in 1..k : v.startIndex < i /\ i < e => ~ IsEvent(logs[i])
      BY <2>3, <3>1
    <3>3. v.startIndex \in 0..k /\ v.startIndex < e
          /\ (v.startIndex # 0 => IsEvent(logs[v.startIndex]))
      BY <2>3, <2>8, <3>1
    <3> QED BY <2>3, <2>5, <2>6, <2>7, <3>2, <3>3 DEF v
  <2>9. CASE ~ (IsEvent(logs[k]) /\ logs[k].op # o /\ w.endIndex = 0)
    <3>1. v.startIndex = w.startIndex
      BY <2>4, <2>9
    <3>2. k < e => ~ IsEvent(logs[k])
      BY <1>1, <1>4, <2>1, <2>3, <2>9
    <3>3. \A i \in 1..k : v.startIndex < i /\ i < e => ~ IsEvent(logs[i])
      BY <2>1, <2>3, <3>1, <3>2
    <3>4. v.startIndex \in 0..k /\ v.startIndex < e
          /\ (v.startIndex # 0 => IsEvent(logs[v.startIndex]))
      BY <2>1, <2>3, <3>1
    <3> QED BY <2>3, <2>5, <2>6, <2>7, <3>3, <3>4 DEF v
  <2> QED BY <2>8, <2>9
<1>7. n \in Q
  <2> HIDE DEF Q
  <2>1. \A k \in 0..n : k \in Q
    BY <1>1, <1>5, <1>6, UpTo
  <2> QED BY <1>1, <2>1
<1>8. Known(g[n], n)
  BY <1>7
<1> DEFINE found == walk(logs, o)
<1>9. Known(found, n)
  BY <1>2, <1>8
<1> HIDE DEF found
<1>10. /\ found.endIndex = e /\ found.startIndex \in 0..(e - 1)
       /\ found.startIndex # 0 => IsEvent(logs[found.startIndex])
       /\ found.revertReason = (\E i \in 1..n : Reason(i))
  BY <1>1, <1>9
<1>11. \A i \in (found.startIndex + 1)..(e - 1) : ~ IsEvent(logs[i])
  BY <1>1, <1>9
<1> QED BY <1>10, <1>11 DEF found, n, Reason, Walked

\* What a receipt of o, which a transaction ran, says and shows.
Shows(receipt, o, tx, run) ==
    LET executions == {log \in ToSet(logsOf(tx)) : log.name = "Executed"}
    IN  /\ receipt.success = (run.outcome = "success")
        /\ receipt.reason = (run.outcome = "reverted")
        /\ receipt.entryPoint = entryPointOf[o]
        /\ \A log \in ToSet(receipt.logs) : log.name = "Executed" => log.op = o
        /\ (\A log \in ToSet(imitated[o].execution) : ~ IsEvent(log)) =>
               Filtered(receipt.logs, executions)
                   = Filtered(logsOf(tx), {log \in executions : log.op = o})

\* The receipt of a transaction that ran o, and is well formed.
LEMMA ReceiptOwn ==
    ASSUME NEW tx, WellRun(tx), NEW run \in RunsOf(tx), NEW o, o = run.op, NotImitated(o, tx)
    PROVE  Shows(parseUserOperationReceipt(o, tx), o, tx, run)
<1> DEFINE logs == logsOf(tx)
           n == Len(logs)
           R == RunsOf(tx)
           E == {log \in ToSet(logs) : log.name = "Executed"}
           own == {log \in E : log.op = o}
           events == {log \in ToSet(logs) : IsEvent(log) /\ log.op = o}
           found == walk(logs, o)
           start == found.startIndex
           between == SubSeq(logs, start + 1, found.endIndex - 1)
           receipt == parseUserOperationReceipt(o, tx)
<1>1. tx.status # "reverted"
  BY DEF RunsOf
<1>2. WellLogged(logs, R) /\ \A a, b \in R : SameNonce(a.op, b.op) => a = b
  BY <1>1, TransactionLogged
<1>3. receipt = [userOpHash      |-> o,
                 entryPoint      |-> logs[found.endIndex].address,
                 success         |-> Filtered(logs, events)[1].success,
                 reason          |-> found.revertReason,
                 logs            |-> between,
                 transactionHash |-> tx.hash]
  BY DEF parseUserOperationReceipt
<1>17. \A l \in ToSet(logs) : l \in Imitations => l.op # o
  BY DEF NotImitated
<1> HIDE DEF logs, R, receipt
<1>4. /\ logs \in Seq(AllLogs) /\ R \in SUBSET Runs /\ n \in Nat /\ run \in R /\ run \in Runs
      /\ \A i \in 1..n : logs[i] \in AllLogs /\ logs[i] \in ToSet(logs)
      /\ \A a \in R : a.op = o => a = run
      /\ o \in Ops
  <2>1. logs \in Seq(AllLogs) /\ R \in SUBSET Runs
    BY <1>2 DEF WellLogged
  <2>2. run \in R
    BY DEF R
  <2>3. \A a \in R : a.op = o => a = run
    BY <1>2, <2>2 DEF SameNonce
  <2>4. n \in Nat /\ \A i \in 1..n : logs[i] \in AllLogs /\ logs[i] \in ToSet(logs)
    BY <2>1, SequenceElements
  <2>5. o \in Ops
    BY <2>1, <2>2 DEF Runs
  <2> QED BY <2>1, <2>2, <2>3, <2>4, <2>5
<1>5. PICK e \in 1..n : /\ logs[e] = EndOf(run)
                        /\ run.outcome # "silent" => \E m \in 1..n : Piece(logs, m, e, run)
  BY <1>2, <1>4 DEF WellLogged, RunsLogged
<1>6. /\ IsEvent(EndOf(run)) /\ OwnEvent(EndOf(run)) /\ EndOf(run).op = o
      /\ EndOf(run).success = (run.outcome = "success") /\ EndOf(run).address = entryPointOf[o]
      /\ IsMark(MarkOf(run)) /\ ~ IsEvent(MarkOf(run)) /\ MarkOf(run).op = o
      /\ MarkOf(run).name = "Executed" <=> run.outcome = "success"
  BY <1>4, EndsAre

\* What is said of o is not imitated.
<1>16. ASSUME NEW i \in 1..n, logs[i].op = o
       PROVE  /\ IsEvent(logs[i]) => OwnEvent(logs[i])
              /\ logs[i].name = "UserOperationRevertReason" => IsMark(logs[i])
  <2>1. logs[i] \in AllLogs /\ logs[i] \notin Imitations
    BY <1>4, <1>16, <1>17
  <2>2. logs[i].name \in {"UserOperationRevertReason", "UserOperationEvent"}
            => logs[i].address # "account"
    BY <1>4, <1>16, <2>1, ImitationsLogged
  <2> QED BY <2>2 DEF IsEvent, OwnEvent, IsMark
<1>7. \A i \in 1..n : IsEvent(logs[i]) /\ logs[i].op = o <=> i = e
  BY <1>2, <1>5, <1>6, <1>16 DEF WellLogged, EventsOnce
<1>9. /\ found.endIndex = e
      /\ start \in 0..(e - 1)
      /\ start # 0 => IsEvent(logs[start])
      /\ \A i \in (start + 1)..(e - 1) : ~ IsEvent(logs[i])
      /\ found.revertReason =
             (\E i \in 1..n : logs[i].name = "UserOperationRevertReason" /\ logs[i].op = o)
  <2>1. EventAt(logs, o, e)
    BY <1>5, <1>7 DEF EventAt
  <2>2. Walked(found, logs, o, e)
    BY <1>4, <2>1, WalkFinds
  <2> HIDE DEF found
  <2> QED BY <2>2 DEF Walked
<1> HIDE DEF found, start

\* What begins before the event of o, and no event follows in between, or is said
\* of o, is the run of o.
<1>8. ASSUME NEW i \in 1..n, IsMark(logs[i]), logs[i].op = o \/ i \in (start + 1)..(e - 1)
      PROVE  Piece(logs, i, e, run) /\ run.outcome # "silent"
  <2>1. PICK a \in R : a.outcome # "silent" /\ \E j \in 1..n : Piece(logs, i, j, a)
    BY <1>2, <1>8 DEF WellLogged, MarksLogged
  <2>2. PICK j \in 1..n : Piece(logs, i, j, a)
    BY <2>1
  <2>3. /\ i < j /\ logs[i] = MarkOf(a) /\ logs[j] = EndOf(a)
        /\ \A k \in (i + 1)..(j - 1) : logs[k] \in ToSet(imitated[a.op].execution)
    BY <2>2 DEF Piece
  <2>4. IsEvent(logs[j]) /\ logs[i].op = a.op /\ logs[j].op = a.op /\ a \in Runs
    BY <1>4, <2>3, EndsAre
  <2>5. CASE logs[i].op = o
    <3>1. a = run /\ j = e
      BY <1>4, <1>7, <2>4, <2>5
    <3> QED BY <2>1, <2>2, <3>1
  <2>6. CASE i \in (start + 1)..(e - 1)
    <3>1. start \in Nat /\ e \in Nat /\ i \in Nat /\ j \in Nat /\ start < i /\ i < e
      BY <1>4, <1>5, <1>9, <2>6
    <3>2. ~ (j < e)
      <4>1. j < e => j \in (start + 1)..(e - 1)
        BY <2>3, <3>1
      <4> QED BY <1>9, <2>4, <4>1
    <3>3. ~ (e < j)
      <4>1. e < j => e \in (i + 1)..(j - 1)
        BY <3>1
      <4>2. logs[e] \notin Imitations
        BY <1>5, <1>6, ImitationsLogged
      <4> QED BY <2>3, <2>4, <4>1, <4>2, ImitationsLogged
    <3>4. j = e
      BY <3>1, <3>2, <3>3
    <3>5. a = run
      BY <1>4, <1>7, <2>4, <3>4
    <3> QED BY <2>1, <2>2, <3>4, <3>5
  <2> QED BY <1>8, <2>5, <2>6
<1>18. ASSUME NEW i \in 1..n, NEW j \in 1..n, Piece(logs, i, e, run), Piece(logs, j, e, run)
       PROVE  i = j
  <2>1. ASSUME NEW k \in 1..n, NEW l \in 1..n, Piece(logs, k, e, run), Piece(logs, l, e, run)
        PROVE  ~ (k < l)
    <3>1. /\ l < e /\ logs[l] = MarkOf(run)
          /\ \A q \in (k + 1)..(e - 1) : logs[q] \in ToSet(imitated[run.op].execution)
      BY <2>1 DEF Piece
    <3>2. k < l => l \in (k + 1)..(e - 1)
      BY <1>4, <1>5, <3>1
    <3>3. logs[l] \notin Imitations
      BY <1>6, <3>1, ImitationsLogged
    <3> QED BY <1>4, <3>1, <3>2, <3>3, ImitationsLogged
  <2>2. ~ (i < j) /\ ~ (j < i)
    BY <1>18, <2>1
  <2> QED BY <1>4, <2>2

\* Only the execution of o is in between.
<1>10. /\ \A i \in 1..n : logs[i] \in own =>
              Piece(logs, i, e, run) /\ run.outcome = "success" /\ logs[i].name = "Executed"
       /\ \A i \in (start + 1)..(e - 1) : logs[i] \in E <=> logs[i] \in own
  <2>1. ASSUME NEW i \in 1..n, logs[i] \in own
        PROVE  Piece(logs, i, e, run) /\ run.outcome = "success" /\ logs[i].name = "Executed"
    <3>1. IsMark(logs[i]) /\ logs[i].op = o /\ logs[i].name = "Executed"
      BY <2>1 DEF IsMark
    <3>2. Piece(logs, i, e, run)
      BY <1>8, <3>1
    <3>3. logs[i] = MarkOf(run)
      BY <3>2 DEF Piece
    <3> QED BY <1>6, <3>1, <3>2, <3>3
  <2>2. ASSUME NEW i \in (start + 1)..(e - 1), logs[i] \in E
        PROVE  logs[i] \in own
    <3>1. i \in 1..n
      BY <1>4, <1>5, <1>9
    <3>2. IsMark(logs[i])
      BY <2>2 DEF IsMark
    <3>3. Piece(logs, i, e, run)
      BY <1>8, <3>1, <3>2
    <3>4. logs[i].op = o
      BY <1>6, <3>3 DEF Piece
    <3> QED BY <2>2, <3>4
  <2> QED BY <2>1, <2>2
<1>11. /\ between \in Seq(AllLogs) /\ Len(between) = (e - 1) - start
       /\ \A i \in 1..Len(between) : start + i \in (start + 1)..(e - 1) /\ start + i \in 1..n
                                     /\ between[i] = logs[start + i]
  <2> DEFINE m == start + 1
             l == e - 1
  <2>1. m \in Int /\ l \in Int /\ \A i \in m..l : logs[i] \in AllLogs
    BY <1>4, <1>5, <1>9
  <2>2. between = SubSeq(logs, m, l)
    BY <1>9
  <2>3. /\ between \in Seq(AllLogs)
        /\ Len(between) = IF m =< l THEN l - m + 1 ELSE 0
        /\ \A i \in 1..(l - m + 1) : between[i] = logs[m + i - 1]
    <3> HIDE DEF m, l, between
    <3> QED BY <2>1, <2>2, SubSeqProperties
  <2> HIDE DEF between
  <2>4. /\ start \in Nat /\ e \in Nat /\ e =< n /\ start =< e - 1
        /\ l - m + 1 = (e - 1) - start
        /\ \A i \in Nat : m + i - 1 = start + i
    BY <1>4, <1>9
  <2>5. Len(between) = (e - 1) - start
    BY <2>1, <2>3, <2>4
  <2> HIDE DEF m, l
  <2>6. \A i \in 1..Len(between) : i \in Nat /\ i \in 1..(l - m + 1)
    BY <2>4, <2>5
  <2>7. \A i \in 1..Len(between) : between[i] = logs[start + i]
    BY <2>3, <2>4, <2>6
  <2>8. \A i \in 1..Len(between) : start + i \in (start + 1)..(e - 1) /\ start + i \in 1..n
    BY <1>4, <2>4, <2>5
  <2> QED BY <2>3, <2>5, <2>7, <2>8
<1>19. \A log \in ToSet(between) : log.name = "Executed" => log.op = o
  <2> SUFFICES ASSUME NEW log \in ToSet(between), log.name = "Executed"
               PROVE  log.op = o
    OBVIOUS
  <2> HIDE DEF between
  <2>1. PICK i \in 1..Len(between) : log = between[i]
    BY <1>11, SequenceElements
  <2>2. /\ start + i \in (start + 1)..(e - 1) /\ log = logs[start + i]
        /\ logs[start + i] \in ToSet(logs)
    BY <1>4, <1>11, <2>1
  <2>3. logs[start + i] \in E
    BY <2>2
  <2> QED BY <1>10, <2>2, <2>3
<1> HIDE DEF between, E, own
<1>12. ASSUME \A log \in ToSet(imitated[o].execution) : ~ IsEvent(log)
       PROVE  Filtered(between, E) = Filtered(logs, own)
  <2>1. \A i, j \in 1..n : logs[i] \in own /\ logs[j] \in own => i = j
    BY <1>10, <1>18
  <2>2. /\ (\A i \in 1..n : logs[i] \notin own) => Filtered(logs, own) = <<>>
        /\ \A i \in 1..n : logs[i] \in own => Filtered(logs, own) = <<logs[i]>>
    BY <1>4, <2>1, FilteredOne
  <2>3. \A i \in 1..Len(between) : between[i] \in E <=> logs[start + i] \in own
    BY <1>10, <1>11
  <2>4. \A i, j \in 1..Len(between) : between[i] \in E /\ between[j] \in E => i = j
    <3> SUFFICES ASSUME NEW i \in 1..Len(between), NEW j \in 1..Len(between),
                        between[i] \in E, between[j] \in E
                 PROVE  i = j
      OBVIOUS
    <3>1. start + i \in 1..n /\ start + j \in 1..n /\ start \in Nat /\ i \in Nat /\ j \in Nat
      BY <1>9, <1>11
    <3>2. start + i = start + j
      BY <2>1, <2>3, <3>1
    <3> QED BY <3>1, <3>2
  <2>5. /\ (\A i \in 1..Len(between) : between[i] \notin E) => Filtered(between, E) = <<>>
        /\ \A i \in 1..Len(between) : between[i] \in E => Filtered(between, E) = <<between[i]>>
    BY <1>11, <2>4, FilteredOne
  <2>6. CASE \A i \in 1..n : logs[i] \notin own
    <3>1. \A i \in 1..Len(between) : between[i] \notin E
      BY <1>11, <2>3, <2>6
    <3> QED BY <2>2, <2>5, <2>6, <3>1
  <2>7. ASSUME NEW i \in 1..n, logs[i] \in own
        PROVE  Filtered(between, E) = Filtered(logs, own)
    <3>1. Piece(logs, i, e, run) /\ logs[i].name = "Executed"
      BY <1>10, <2>7
    <3>2. /\ i < e
          /\ \A q \in (i + 1)..(e - 1) : logs[q] \in ToSet(imitated[o].execution)
      BY <3>1 DEF Piece
    <3>5. start # i
      BY <1>9, <2>7, <3>1 DEF IsEvent
    <3>6. ~ (i < start)
      <4>1. i < start => start \in (i + 1)..(e - 1) /\ start # 0
        BY <1>4, <1>5, <1>9
      <4> QED BY <1>9, <1>12, <3>2, <4>1
    <3> DEFINE k == i - start
    <3>3. k \in 1..Len(between) /\ start + k = i
      BY <1>4, <1>5, <1>9, <1>11, <3>2, <3>5, <3>6
    <3> HIDE DEF k
    <3>4. between[k] \in E /\ between[k] = logs[i]
      BY <1>11, <2>3, <2>7, <3>3
    <3> QED BY <2>2, <2>5, <2>7, <3>3, <3>4
  <2> QED BY <2>6, <2>7

\* The event and the reason.
<1>13. Filtered(logs, events)[1] = logs[e]
  <2>1. \A i \in 1..n : logs[i] \in events <=> i = e
    BY <1>4, <1>7
  <2> HIDE DEF events
  <2>2. \A i, j \in 1..n : logs[i] \in events /\ logs[j] \in events => i = j
    BY <2>1
  <2>3. Filtered(logs, events) = <<logs[e]>>
    BY <1>4, <1>5, <2>1, <2>2, FilteredOne
  <2> QED BY <2>3
<1>14. (\E i \in 1..n : logs[i].name = "UserOperationRevertReason" /\ logs[i].op = o)
           = (run.outcome = "reverted")
  <2>1. ASSUME NEW i \in 1..n, logs[i].name = "UserOperationRevertReason", logs[i].op = o
        PROVE  run.outcome = "reverted"
    <3>1. IsMark(logs[i])
      BY <1>16, <2>1
    <3>2. Piece(logs, i, e, run) /\ run.outcome # "silent"
      BY <1>8, <2>1, <3>1
    <3>3. logs[i] = MarkOf(run)
      BY <3>2 DEF Piece
    <3>4. run.outcome # "success"
      BY <1>6, <2>1, <3>3
    <3> QED BY <1>4, <3>2, <3>4 DEF Runs, Ends
  <2>2. ASSUME run.outcome = "reverted"
        PROVE  \E i \in 1..n : logs[i].name = "UserOperationRevertReason" /\ logs[i].op = o
    <3>1. PICK m \in 1..n : Piece(logs, m, e, run)
      BY <1>5, <2>2
    <3>2. logs[m] = MarkOf(run)
      BY <3>1 DEF Piece
    <3>3. MarkOf(run).name = "UserOperationRevertReason" /\ MarkOf(run).op = o
      BY <1>6, <2>2 DEF MarkOf, Log
    <3> QED BY <3>2, <3>3
  <2> QED BY <2>1, <2>2
<1>15. /\ receipt.logs = between /\ receipt.success = EndOf(run).success
       /\ receipt.reason = (run.outcome = "reverted") /\ receipt.entryPoint = EndOf(run).address
  BY <1>3, <1>5, <1>9, <1>13, <1>14
<1> QED BY <1>6, <1>12, <1>15, <1>19 DEF receipt, E, own, logs, Shows

-----------------------------------------------------------------------------
(* What is on the chain.                                                   *)

\* Every operation, and every nonce, was used once.
RunOnce ==
    \A tx, other \in TransactionsIn(chain) :
        \A a \in RunsOf(tx), b \in RunsOf(other) : SameNonce(a.op, b.op) => tx = other

RunsInv == (\A tx \in TransactionsIn(chain) : WellRun(tx)) /\ RunOnce

LEMMA RivalsRun ==
    ASSUME NEW r \in Rivals
    PROVE  WellRun(r)
<1>1. Calls = [entryPoint : {entryPointOf[o] : o \in Ops}, logged : Seq(Imitations),
               runs : Seq([op : Ops, outcome : Ends])]
  BY DEF Calls, Runs
<1> QED BY <1>1, NoncesAssumption DEF WellRun

LEMMA OursRun ==
    ASSUME NEW p \in Sendings, Sound(p.ops), NEW done, NEW tx \in Outcomes(p, done)
    PROVE  /\ WellRun(tx)
           /\ \A a \in RunsOf(tx), d \in done : ~ SameNonce(a.op, d)
<1> DEFINE ops == p.ops
           n == Len(ops)
           ep == entryPointOf[ops[1]]
           runs(outcome) == [i \in DOMAIN ops |-> [op |-> ops[i], outcome |-> outcome[i]]]
           silent == [i \in DOMAIN ops |-> "silent"]
<1>1. /\ ops \in Seq(Ops) /\ n \in Nat /\ n > 0 /\ DOMAIN ops = 1..n
      /\ \A i \in 1..n : ops[i] \in Ops
      /\ \A i, j \in 1..n : ops[i] = ops[j] => i = j
      /\ \A i \in 1..n : ops[i] \in ToSet(ops)
  <2>1. ops \in Seq(Ops) /\ ops # <<>> /\ IsInjective(ops)
    BY DEF Sound
  <2> HIDE DEF ops
  <2>2. n \in Nat /\ n > 0 /\ DOMAIN ops = 1..n /\ \A i \in 1..n : ops[i] \in Ops
    BY <2>1
  <2> QED BY <2>1, <2>2 DEF IsInjective, ToSet
<1>2. PICK outcome \in [DOMAIN ops -> Ends] :
          /\ tx.calls = <<[entryPoint |-> ep, logged |-> <<>>, runs |-> runs(outcome)]>>
          /\ tx.functionName = functionOf(ops[1])
          /\ tx.status # "reverted" => Runnable(ToSet(ops), done)
  <2>1. silent \in [DOMAIN ops -> Ends]
    BY DEF Ends
  <2>2. \/ tx = Failed(p, FALSE) \/ tx = Failed(p, TRUE)
        \/ /\ Runnable(ToSet(ops), done)
           /\ \E outcome \in [DOMAIN ops -> Ends] : tx = OurTransaction(p, outcome)
    BY DEF Outcomes
  <2>3. ASSUME NEW aa95, tx = Failed(p, aa95)
        PROVE  /\ tx.calls = <<[entryPoint |-> ep, logged |-> <<>>, runs |-> runs(silent)]>>
               /\ tx.functionName = functionOf(ops[1]) /\ tx.status = "reverted"
    BY <2>3 DEF Failed, OurTransaction
  <2>4. ASSUME NEW outcome \in [DOMAIN ops -> Ends], tx = OurTransaction(p, outcome)
        PROVE  /\ tx.calls = <<[entryPoint |-> ep, logged |-> <<>>, runs |-> runs(outcome)]>>
               /\ tx.functionName = functionOf(ops[1])
    BY <2>4 DEF OurTransaction
  <2> HIDE DEF silent
  <2> QED BY <2>1, <2>2, <2>3, <2>4
<1> DEFINE rs == runs(outcome)
           call == [entryPoint |-> ep, logged |-> <<>>, runs |-> rs]
<1>3. /\ rs \in Seq(Runs) /\ Len(rs) = n /\ DOMAIN rs = 1..n
      /\ \A i \in 1..n : rs[i].op = ops[i]
  <2>1. \A i \in 1..n : rs[i] \in Runs
    BY <1>1, <1>2 DEF Runs
  <2>4. \A i \in 1..n : rs[i].op = ops[i]
    <3> HIDE DEF n, ops
    <3> QED BY <1>1
  <2>2. rs = [i \in 1..n |-> rs[i]]
    BY <1>1
  <2> HIDE DEF rs
  <2>3. rs \in [1..n -> Runs]
    BY <2>1, <2>2
  <2>5. rs \in Seq(Runs) /\ Len(rs) = n /\ DOMAIN rs = 1..n
    <3> HIDE DEF n
    <3> QED BY <1>1, <2>3
  <2> QED BY <2>4, <2>5
<1>4. ep \in {entryPointOf[o] : o \in Ops}
  <2>1. ops[1] \in Ops
    BY <1>1
  <2> QED BY <2>1
<1>5. /\ \A i \in 1..n : entryPointOf[ops[i]] = ep /\ functionOf(ops[i]) = functionOf(ops[1])
      /\ \A i, j \in 1..n : SameNonce(ops[i], ops[j]) => i = j
  <2>1. \A i \in 1..n : entryPointOf[ops[i]] = ep
    BY <1>1 DEF Sound
  <2>2. \A i \in 1..n : functionOf(ops[i]) = functionOf(ops[1])
    <3>1. 1 \in 1..n
      BY <1>1
    <3> QED BY <1>1, <2>1, <3>1, OperationsAssumption DEF functionOf
  <2>3. \A i, j \in 1..n : SameNonce(ops[i], ops[j]) => i = j
    BY <1>1 DEF Sound
  <2> QED BY <2>1, <2>2, <2>3
<1>6. call \in Calls /\ call.runs = rs /\ call.entryPoint = ep
  <2> HIDE DEF rs, ep
  <2> QED BY <1>3, <1>4 DEF Calls
<1>7. tx.calls = <<call>> /\ tx.functionName = functionOf(ops[1])
      /\ (tx.status # "reverted" => Runnable(ToSet(ops), done))
  BY <1>2
<1> HIDE DEF call, rs, ep, n
<1>8. /\ tx.calls \in Seq(Calls) /\ Len(tx.calls) = 1 /\ DOMAIN tx.calls = {1}
      /\ tx.calls[1] = call
  <2> DEFINE cs == <<call>>
  <2>1. cs \in Seq(Calls) /\ Len(cs) = 1 /\ DOMAIN cs = {1} /\ cs[1] = call
    BY <1>6
  <2> QED BY <1>7, <2>1
<1>9. \A run \in ToSet(rs) : \E i \in 1..n : run = rs[i] /\ run.op = ops[i]
  BY <1>3 DEF ToSet
<1>10. WellRun(tx)
  <2>1. \A k, l \in 1..n : /\ entryPointOf[rs[k].op] = ep
                           /\ SameNonce(rs[k].op, rs[l].op) => k = l
    BY <1>3, <1>5
  <2>2. \A i, j \in DOMAIN tx.calls :
            \A k \in DOMAIN tx.calls[i].runs, l \in DOMAIN tx.calls[j].runs :
                /\ entryPointOf[tx.calls[i].runs[k].op] = tx.calls[i].entryPoint
                /\ SameNonce(tx.calls[i].runs[k].op, tx.calls[j].runs[l].op) => i = j /\ k = l
    <3>1. \A i \in DOMAIN tx.calls : i = 1 /\ tx.calls[i] = call
      BY <1>8
    <3> QED BY <1>3, <1>6, <2>1, <3>1
  <2>3. \A run \in ToSet(tx.calls[1].runs) : functionOf(run.op) = tx.functionName
    BY <1>5, <1>6, <1>7, <1>8, <1>9
  <2> QED BY <1>8, <2>2, <2>3 DEF WellRun
<1>11. ASSUME NEW a \in RunsOf(tx), NEW d \in done
       PROVE  ~ SameNonce(a.op, d)
  <2>1. Runnable(ToSet(ops), done)
    BY <1>7, <1>11 DEF RunsOf
  <2>2. a \in ToSet(rs)
    <3>1. \A i \in DOMAIN tx.calls : tx.calls[i].runs = rs
      BY <1>6, <1>8
    <3> QED BY <1>11, <3>1 DEF RunsOf
  <2>3. a.op \in ToSet(ops)
    BY <1>1, <1>9, <2>2
  <2> QED BY <2>1, <2>3 DEF Runnable
<1> QED BY <1>10, <1>11

LEMMA RunsInit == Init => RunsInv
<1> SUFFICES ASSUME Init PROVE RunsInv
  OBVIOUS
<1>1. chain = <<>>
  BY DEF Init
<1>2. TransactionsIn(chain) = {}
  BY <1>1 DEF TransactionsIn
<1> QED BY <1>2 DEF RunsInv, RunOnce

LEMMA RunsStep ==
    ASSUME SInv, RunsInv, [Next]_vars
    PROVE  RunsInv'
<1>1. CASE UNCHANGED chain
  BY <1>1 DEF RunsInv, RunOnce, TransactionsIn
<1>2. CASE Mine
  <2> DEFINE before == TransactionsIn(chain)
             rivals == {r \in Rivals \ before : Runnable(Executed({r}), Executed(before))}
             ours(txs) == UNION {Outcomes(p, Executed(txs)) : p \in pending}
  <2>1. PICK block \in NextBlocks : chain' = Append(chain, block)
    BY <1>2 DEF Mine
  <2>2. \/ block = <<>>
        \/ \E r \in rivals : block = <<r>>
        \/ \E tx \in ours(before) : block = <<tx>>
        \/ \E r \in rivals : \E tx \in ours(before \cup {r}) : block = <<r, tx>>
    BY DEF NextBlocks
  <2>3. /\ GoodChain(chain) /\ pending \in SUBSET Sendings
        /\ \A p \in pending : Sound(p.ops)
        /\ \A tx \in TransactionsIn(chain), p \in pending : tx.hash # p.hash
    BY DEF SInv, SendInv
  <2>4. TransactionsIn(chain') = before \cup ToSet(block)
    <3>1. Following(block)
      BY <2>3, BlocksAre
    <3> DEFINE next == chain'
    <3>2. next = Append(chain, block)
      BY <2>1
    <3> HIDE DEF next
    <3>3. TransactionsIn(next) = TransactionsIn(chain) \cup ToSet(block)
      BY <2>3, <3>1, <3>2, ChainGrows
    <3> QED BY <3>3 DEF next
  <2>5. ASSUME NEW r \in rivals
        PROVE  /\ WellRun(r)
               /\ \A tx \in before : \A a \in RunsOf(tx), b \in RunsOf(r) :
                      ~ SameNonce(a.op, b.op) /\ ~ SameNonce(b.op, a.op)
    <3>1. WellRun(r)
      BY RivalsRun
    <3>2. ASSUME NEW tx \in before, NEW a \in RunsOf(tx), NEW b \in RunsOf(r)
          PROVE  ~ SameNonce(a.op, b.op) /\ ~ SameNonce(b.op, a.op)
      <4>1. a.op \in Executed(before) /\ b.op \in Executed({r})
        BY <3>2 DEF Executed
      <4> HIDE DEF before
      <4>2. ~ SameNonce(b.op, a.op)
        BY <4>1 DEF Runnable
      <4> QED BY <4>2 DEF SameNonce
    <3> QED BY <3>1, <3>2
  <2>6. ASSUME NEW txs, NEW t \in ours(txs)
        PROVE  /\ WellRun(t)
               /\ \A tx \in txs : \A a \in RunsOf(tx), b \in RunsOf(t) :
                      ~ SameNonce(a.op, b.op) /\ ~ SameNonce(b.op, a.op)
    <3>1. PICK p \in pending : t \in Outcomes(p, Executed(txs))
      BY <2>6
    <3>2. WellRun(t) /\ \A b \in RunsOf(t), d \in Executed(txs) : ~ SameNonce(b.op, d)
      <4> DEFINE done == Executed(txs)
      <4>1. t \in Outcomes(p, done) /\ p \in Sendings /\ Sound(p.ops)
        BY <2>3, <3>1
      <4> HIDE DEF done
      <4>2. WellRun(t) /\ \A b \in RunsOf(t), d \in done : ~ SameNonce(b.op, d)
        BY <4>1, OursRun
      <4> QED BY <4>2 DEF done
    <3>3. ASSUME NEW tx \in txs, NEW a \in RunsOf(tx), NEW b \in RunsOf(t)
          PROVE  ~ SameNonce(a.op, b.op) /\ ~ SameNonce(b.op, a.op)
      <4>1. a.op \in Executed(txs)
        BY <3>3 DEF Executed
      <4>2. ~ SameNonce(b.op, a.op)
        BY <3>2, <4>1
      <4> QED BY <4>2 DEF SameNonce
    <3> QED BY <3>2, <3>3
  <2> DEFINE Apart(tx, t) == \A a \in RunsOf(tx), b \in RunsOf(t) :
                                 ~ SameNonce(a.op, b.op) /\ ~ SameNonce(b.op, a.op)
  <2>7. /\ \A tx \in before : WellRun(tx)
        /\ \A tx, other \in before :
               \A a \in RunsOf(tx), b \in RunsOf(other) : SameNonce(a.op, b.op) => tx = other
    BY DEF RunsInv, RunOnce
  <2>8. /\ \A t \in ToSet(block) : WellRun(t) /\ \A tx \in before : Apart(tx, t)
        /\ \A t, other \in ToSet(block) : t = other \/ Apart(t, other) \/ Apart(other, t)
    <3>1. CASE block = <<>>
      <4>1. ToSet(block) = {}
        BY <3>1 DEF ToSet
      <4> QED BY <4>1
    <3>2. ASSUME NEW r \in rivals, block = <<r>>
          PROVE  <2>8!:
      <4>1. ToSet(block) = {r}
        BY <3>2 DEF ToSet
      <4> QED BY <2>5, <4>1
    <3>3. ASSUME NEW t \in ours(before), block = <<t>>
          PROVE  <2>8!:
      <4>1. ToSet(block) = {t}
        BY <3>3 DEF ToSet
      <4> QED BY <2>6, <4>1
    <3>4. ASSUME NEW r \in rivals, NEW t \in ours(before \cup {r}), block = <<r, t>>
          PROVE  <2>8!:
      <4>1. ToSet(block) = {r, t}
        BY <3>4 DEF ToSet
      <4> DEFINE txs == before \cup {r}
      <4>2. t \in ours(txs) /\ r \in txs /\ \A tx \in before : tx \in txs
        OBVIOUS
      <4> HIDE DEF ours, txs
      <4>3. WellRun(t) /\ \A tx \in txs : Apart(tx, t)
        BY <2>6, <4>2
      <4> HIDE DEF rivals, before
      <4>4. WellRun(r) /\ \A tx \in before : Apart(tx, r)
        BY <2>5
      <4> HIDE DEF Apart
      <4> QED BY <4>1, <4>2, <4>3, <4>4
    <3> QED BY <2>2, <3>1, <3>2, <3>3, <3>4
  <2>9. ASSUME NEW tx \in before \cup ToSet(block), NEW other \in before \cup ToSet(block),
               NEW a \in RunsOf(tx), NEW b \in RunsOf(other), SameNonce(a.op, b.op)
        PROVE  tx = other
    <3>1. ~ Apart(tx, other) /\ ~ Apart(other, tx)
      BY <2>9
    <3> HIDE DEF before, Apart
    <3> QED BY <2>7, <2>8, <2>9, <3>1
  <2>10. \A tx \in before \cup ToSet(block) : WellRun(tx)
    <3> HIDE DEF before, Apart
    <3> QED BY <2>7, <2>8
  <2> HIDE DEF before
  <2> QED BY <2>4, <2>9, <2>10 DEF RunsInv, RunOnce
<1>3. ASSUME UNCHANGED chain PROVE RunsInv'
  BY <1>1, <1>3
<1>4. CASE refreshTransactionStatus
  <2> DEFINE tx == transactionOf(chain, CHOOSE h \in ToSet(txHashesToCheck) : IsMined(chain, h))
             status == getBundleStatus(tx, entryPointOf[followed.ops[1]])
  <2>1. status.status \in {"included", "reverted"}
    BY DEF getBundleStatus
  <2>2. \/ RefreshIncluded(reportedHash(tx), status.userOperationDetails)
        \/ RefreshAA95
        \/ RefreshReverted(reportedHash(tx))
    BY <1>4, <2>1 DEF refreshTransactionStatus
  <2> HIDE DEF tx, status
  <2>3. UNCHANGED chain
    BY <2>2 DEF RefreshIncluded, RefreshAA95, RefreshReverted
  <2> QED BY <1>3, <2>3
<1>5. CASE UNCHANGED vars
  BY <1>3, <1>5 DEF vars
<1>6. CASE Tick \/ Replace \/ GiveUp
  BY <1>3, <1>6 DEF Tick, Replace, GiveUp
<1>7. ASSUME NEW o \in Ops, onBlockNumber(o) \/ Expire(o) PROVE RunsInv'
  BY <1>3, <1>7 DEF onBlockNumber, Expire
<1>8. ASSUME NEW c \in calls, ReadReceipt(c) \/ Answer(c) \/ ReceiptThrows(c) PROVE RunsInv'
  BY <1>3, <1>8 DEF ReadReceipt, Answer, ReceiptThrows
<1> QED BY <1>2, <1>4, <1>5, <1>6, <1>7, <1>8 DEF Next

LEMMA FirstFound ==
    ASSUME NEW T, NEW ch \in Seq(Seq(T)), NEW o, filterResult(ch, o) # <<>>
    PROVE  /\ filterResult(ch, o)[1] \in TransactionsIn(ch)
           /\ \E run \in RunsOf(filterResult(ch, o)[1]) : run.op = o
<1> DEFINE txs == filterResult(ch, o)
<1>1. txs \in Seq(T)
  BY FoundTransactions
<1>2. txs # <<>>
  OBVIOUS
<1> HIDE DEF txs
<1>3. txs[1] \in ToSet(txs)
  BY <1>1, <1>2, SequenceElements
<1> QED BY <1>3, FoundTransactions DEF txs

\* Of the operations that were run, each has one run.
LEMMA ReceiptsAreOwn ==
    ASSUME GoodChain(chain), RunsInv
    PROVE  ReceiptsOwn
<1>1. ASSUME NEW o \in Ops, getUserOperationReceipt(chain, o) # Nothing,
             NotImitated(o, transactionOf(chain, getUserOperationReceipt(chain, o)[1].transactionHash))
      PROVE  LET receipt == getUserOperationReceipt(chain, o)[1]
                 tx  == transactionOf(chain, receipt.transactionHash)
                 run == CHOOSE r \in RunsOf(tx) : r.op = o
                 executions == {log \in ToSet(logsOf(tx)) : log.name = "Executed"}
             IN  /\ receipt.success = (run.outcome = "success")
                 /\ receipt.reason = (run.outcome = "reverted")
                 /\ receipt.entryPoint = entryPointOf[o]
                 /\ \A log \in ToSet(receipt.logs) : log.name = "Executed" => log.op = o
                 /\ (\A log \in ToSet(imitated[o].execution) : ~ IsEvent(log)) =>
                        Filtered(receipt.logs, executions)
                            = Filtered(logsOf(tx), {log \in executions : log.op = o})
  <2> DEFINE txs == filterResult(chain, o)
             first == txs[1]
             receipt == getUserOperationReceipt(chain, o)[1]
             tx == transactionOf(chain, receipt.transactionHash)
             run == CHOOSE r \in RunsOf(tx) : r.op = o
  <2>1. txs # <<>> /\ receipt = parseUserOperationReceipt(o, first)
    BY <1>1 DEF getUserOperationReceipt
  <2>2. receipt.transactionHash = first.hash
    BY <2>1 DEF parseUserOperationReceipt
  <2>3. chain \in Seq(Seq(Transactions))
    BY DEF GoodChain
  <2>4. first \in TransactionsIn(chain) /\ \E r \in RunsOf(first) : r.op = o
    BY <2>1, <2>3, FirstFound
  <2>10. NotImitated(o, tx)
    BY <1>1
  <2> HIDE DEF txs, first, receipt
  <2>5. tx = first
    <3> DEFINE h == receipt.transactionHash
    <3>1. IsMined(chain, h) /\ first.hash = h
      BY <2>2, <2>4 DEF IsMined
    <3> HIDE DEF h
    <3>2. first = transactionOf(chain, h)
      BY <2>4, <3>1, MinedOnce
    <3> QED BY <3>2 DEF h
  <2> HIDE DEF tx
  <2>6. run \in RunsOf(tx) /\ run.op = o
    BY <2>4, <2>5
  <2>7. WellRun(tx)
    BY <2>4, <2>5 DEF RunsInv
  <2>8. receipt = parseUserOperationReceipt(o, tx)
    BY <2>1, <2>5
  <2> HIDE DEF run
  <2>9. Shows(receipt, o, tx, run)
    BY <2>6, <2>7, <2>8, <2>10, ReceiptOwn
  <2> QED BY <2>9 DEF run, tx, receipt, Shows
<1> QED BY <1>1 DEF ReceiptsOwn

\* For any bundles, any transactions of others and any number of operations in
\* them, any length of the chain and any logs that contracts imitate, of other
\* operations than the receipt's: it says whether the operation succeeded, shows of
\* all executions of its transaction none but its own, and that wholly unless its
\* own contracts imitate events (userop.ts:599).
THEOREM Receipted == Spec => []ReceiptsOwn
<1>1. SInv /\ RunsInv => ReceiptsOwn
  BY ReceiptsAreOwn DEF SInv
<1>2. SInv /\ RunsInv /\ [Next]_vars => RunsInv'
  BY RunsStep
<1> QED BY SInit, SStep, RunsInit, <1>1, <1>2, PTL DEF Spec

-----------------------------------------------------------------------------
(* Operations by their hash.                                               *)

DirectCalls == {"handleOpsV06", "handleOpsV07"}
Direct(tx) == tx.functionName \in DirectCalls

\* What has the sender and the nonce of o.
Alike(o) == {p \in Ops : /\ userOperation[p].sender = userOperation[o].sender
                         /\ userOperation[p].nonce = userOperation[o].nonce}

OpsOfCall(call) == [i \in DOMAIN call.runs |-> call.runs[i].op]

\* In a direct call sender and nonce tell an operation from the others.
LEMMA AloneInCall ==
    ASSUME NEW tx, WellRun(tx), Direct(tx), NEW run \in RunsOf(tx), NEW o, o = run.op
    PROVE  /\ o \in Ops /\ functionOf(o) = tx.functionName
           /\ Filtered(OpsOfCall(tx.calls[1]), Alike(o)) = <<o>>
<1> DEFINE call == tx.calls[1]
           rs == call.runs
           n == Len(rs)
           ops == OpsOfCall(call)
<1>1. Len(tx.calls) = 1 /\ \A r \in ToSet(rs) : functionOf(r.op) = tx.functionName
  BY DEF WellRun, Direct, DirectCalls
<1>2. DOMAIN tx.calls = {1} /\ call \in Calls
  <2> DEFINE cs == tx.calls
  <2>1. cs \in Seq(Calls) /\ Len(cs) = 1
    BY <1>1 DEF WellRun
  <2> HIDE DEF cs
  <2>2. DOMAIN cs = 1..1 /\ 1..1 = {1}
    BY <2>1
  <2>3. cs[1] \in Calls
    <3>1. \A i \in 1..Len(cs) : cs[i] \in Calls
      BY <2>1
    <3> QED BY <2>1, <3>1
  <2> QED BY <2>2, <2>3 DEF cs
<1>3. run \in ToSet(rs)
  BY <1>2 DEF RunsOf
<1>4. \A k, l \in DOMAIN rs : /\ entryPointOf[rs[k].op] = call.entryPoint
                              /\ SameNonce(rs[k].op, rs[l].op) => k = l
  BY <1>2 DEF WellRun
<1>5. rs \in Seq(Runs)
  <2> HIDE DEF call
  <2> QED BY <1>2 DEF Calls
<1> HIDE DEF rs
<1>6. n \in Nat /\ DOMAIN rs = 1..n /\ \A i \in 1..n : rs[i] \in Runs
  BY <1>5
<1>7. \A i \in 1..n : rs[i].op \in Ops
  BY <1>6 DEF Runs
<1>8. PICK i \in 1..n : rs[i] = run
  BY <1>3, <1>6 DEF ToSet
<1>9. /\ ops \in Seq(Ops) /\ Len(ops) = n /\ \A k \in 1..n : ops[k] = rs[k].op
  <2>1. ops = [k \in 1..n |-> rs[k].op]
    BY <1>6 DEF rs, OpsOfCall
  <2> HIDE DEF ops, n
  <2> QED BY <1>6, <1>7, <2>1
<1> HIDE DEF ops, call
<1>10. o \in Ops /\ ops[i] = o
  BY <1>7, <1>8, <1>9
<1>11. \A k \in 1..n : ops[k] \in Alike(o) <=> k = i
  <2>1. ASSUME NEW k \in 1..n, ops[k] \in Alike(o)
        PROVE  k = i
    <3>1. SameNonce(rs[k].op, rs[i].op)
      BY <1>4, <1>6, <1>8, <1>9, <1>10, <2>1 DEF SameNonce, Alike
    <3> QED BY <1>4, <1>6, <3>1
  <2>2. ops[i] \in Alike(o)
    BY <1>10 DEF Alike
  <2> QED BY <2>1, <2>2
<1>12. Filtered(ops, Alike(o)) = <<ops[i]>>
  <2>1. \A k, l \in 1..n : ops[k] \in Alike(o) /\ ops[l] \in Alike(o) => k = l
    BY <1>11
  <2> QED BY <1>9, <1>11, <2>1, FilteredOne
<1>13. functionOf(o) = tx.functionName
  BY <1>1, <1>3 DEF rs
<1> QED BY <1>10, <1>12, <1>13 DEF ops, call

\* Unpacking undoes packing, as far as the hash goes, and fails where slice()
\* has nothing to cut.
LEMMA UnpackedAgain ==
    ASSUME NEW op, NEW entryPoint, ~ isVersion06(op),
           op.factoryData \in Seq(ToSet(op.factoryData)),
           op.paymasterData \in Seq(ToSet(op.paymasterData))
    PROVE  /\ getUserOperationHash(toUnpackedUserOperation(toPackedUserOperation(op)), entryPoint)
                  = getUserOperationHash(op, entryPoint)
           /\ toUnpackedThrows(toPackedUserOperation(op)) <=>
                  \/ op.factory # NoAddress /\ op.factoryData = <<>>
                  \/ op.paymaster # NoAddress /\ op.paymasterData = <<>>
<1> DEFINE packed == toPackedUserOperation(op)
           back == toUnpackedUserOperation(packed)
           again == toPackedUserOperation(back)
           code == getInitCode(op)
           data == getPaymasterAndData(op)
<1>1. /\ getInitCode(back) = code
      /\ unPackInitCodeThrows(code) <=> op.factory # NoAddress /\ op.factoryData = <<>>
  <2>1. back.factory = unPackInitCode(code).factory /\ back.factoryData = unPackInitCode(code).factoryData
    BY DEF toUnpackedUserOperation, toPackedUserOperation
  <2> HIDE DEF back
  <2>2. CASE op.factory = NoAddress
    <3>1. code = <<>>
      BY <2>2 DEF getInitCode
    <3>2. back.factory = NoAddress
      BY <2>1, <3>1 DEF unPackInitCode
    <3> QED BY <2>2, <3>1, <3>2 DEF getInitCode, unPackInitCodeThrows
  <2>3. CASE op.factory # NoAddress
    <3> DEFINE f == op.factory
               d == op.factoryData
    <3>1. d \in Seq(ToSet(d))
      OBVIOUS
    <3>2. code = <<f>> \o d
      BY <2>3 DEF getInitCode
    <3> HIDE DEF f, d, code
    <3>3. code # <<>> /\ Head(code) = f /\ Tail(code) = d /\ (Len(code) = 1 <=> d = <<>>)
      BY <3>1, <3>2
    <3>4. back.factory = f /\ back.factoryData = d
      BY <2>1, <3>3 DEF unPackInitCode
    <3>5. getInitCode(back) = code
      BY <2>3, <3>2, <3>4 DEF getInitCode, f
    <3> QED BY <2>3, <3>3, <3>5 DEF d, unPackInitCodeThrows
  <2> QED BY <2>2, <2>3
<1>2. /\ getPaymasterAndData(back) = data
      /\ unpackPaymasterAndDataThrows(data) <=> op.paymaster # NoAddress /\ op.paymasterData = <<>>
  <2> DEFINE pm == unpackPaymasterAndData(data)
  <2>1. /\ back.paymaster = pm.paymaster
        /\ back.paymasterVerificationGasLimit = pm.paymasterVerificationGasLimit
        /\ back.paymasterPostOpGasLimit = pm.paymasterPostOpGasLimit
        /\ back.paymasterData = pm.paymasterData
    BY DEF toUnpackedUserOperation, toPackedUserOperation
  <2> HIDE DEF back
  <2>2. CASE op.paymaster = NoAddress
    <3>1. data = <<>>
      BY <2>2 DEF getPaymasterAndData
    <3>2. back.paymaster = NoAddress
      BY <2>1, <3>1 DEF unpackPaymasterAndData
    <3> QED BY <2>2, <3>1, <3>2 DEF getPaymasterAndData, unpackPaymasterAndDataThrows
  <2>3. CASE op.paymaster # NoAddress
    <3> DEFINE a == op.paymaster
               v == op.paymasterVerificationGasLimit
               p == op.paymasterPostOpGasLimit
               d == op.paymasterData
               h == <<a, v, p>>
    <3>1. d \in Seq(ToSet(d))
      OBVIOUS
    <3>2. data = h \o d
      BY <2>3 DEF getPaymasterAndData
    <3> HIDE DEF a, v, p, d, data
    <3>3. /\ Len(h) = 3 /\ h[1] = a /\ h[2] = v /\ h[3] = p /\ h \in Seq({a, v, p})
      OBVIOUS
    <3> HIDE DEF h
    <3>4. /\ data # <<>> /\ data[1] = a /\ data[2] = v /\ data[3] = p
          /\ SubSeq(data, 4, Len(data)) = d /\ (Len(data) = 3 <=> d = <<>>)
      <4> DEFINE T == {a, v, p} \cup ToSet(d)
      <4>1. h \in Seq(T) /\ d \in Seq(T)
        BY <3>1, <3>3
      <4> HIDE DEF T
      <4>2. /\ data \in Seq(T) /\ Len(data) = 3 + Len(d) /\ Len(d) \in Nat
            /\ \A i \in 1..3 : data[i] = h[i]
            /\ \A i \in 1..Len(d) : data[3 + i] = d[i]
        <5>1. /\ data \in Seq(T) /\ Len(data) = Len(h) + Len(d)
              /\ \A i \in 1..(Len(h) + Len(d)) :
                     data[i] = IF i =< Len(h) THEN h[i] ELSE d[i - Len(h)]
          BY <3>2, <4>1, ConcatProperties
        <5>2. Len(d) \in Nat
          BY <4>1
        <5>3. ASSUME NEW i \in 1..Len(d)
              PROVE  data[3 + i] = d[i]
          <6>1. /\ 3 + i \in 1..(3 + Len(d)) /\ ~ (3 + i =< 3) /\ (3 + i) - 3 = i
            BY <5>2
          <6> QED BY <3>3, <5>1, <6>1
        <5>4. \A i \in 1..3 : i \in 1..(3 + Len(d))
          BY <5>2
        <5> QED BY <3>3, <5>1, <5>2, <5>3, <5>4
      <4> DEFINE l == Len(data)
                 rest == SubSeq(data, 4, l)
      <4>3. /\ rest \in Seq(T)
            /\ Len(rest) = IF 4 =< l THEN l - 4 + 1 ELSE 0
            /\ \A i \in 1..(l - 4 + 1) : rest[i] = data[4 + i - 1]
        <5> HIDE DEF rest
        <5>1. l \in Int /\ \A i \in 4..l : data[i] \in T
          BY <4>2
        <5> HIDE DEF l
        <5> QED BY <5>1, SubSeqProperties DEF rest
      <4> HIDE DEF rest
      <4>4. Len(rest) = Len(d)
        BY <4>2, <4>3
      <4>5. \A i \in 1..Len(d) : rest[i] = d[i]
        BY <4>2, <4>3
      <4>6. rest = d
        BY <4>1, <4>3, <4>4, <4>5
      <4> QED BY <3>3, <4>2, <4>6 DEF rest, l
    <3>5. /\ back.paymaster = a /\ back.paymasterVerificationGasLimit = v
          /\ back.paymasterPostOpGasLimit = p /\ back.paymasterData = d
      BY <2>1, <3>4 DEF unpackPaymasterAndData
    <3>6. getPaymasterAndData(back) = data
      BY <2>3, <3>2, <3>5 DEF getPaymasterAndData, a, h
    <3> QED BY <2>3, <3>4, <3>6 DEF d, unpackPaymasterAndDataThrows
  <2> QED BY <2>2, <2>3
<1>3. /\ back.sender = op.sender /\ back.nonce = op.nonce /\ back.callData = op.callData
      /\ back.verificationGasLimit = op.verificationGasLimit
      /\ back.callGasLimit = op.callGasLimit
      /\ back.preVerificationGas = op.preVerificationGas
      /\ back.maxPriorityFeePerGas = op.maxPriorityFeePerGas
      /\ back.maxFeePerGas = op.maxFeePerGas
  BY DEF toUnpackedUserOperation, toPackedUserOperation, unpackAccountGasLimits, unpackGasLimits,
         getAccountGasLimits, getGasLimits
<1>4. ~ isVersion06(back)
  BY DEF isVersion06, toUnpackedUserOperation
<1> HIDE DEF back
<1>5. /\ again.sender = packed.sender /\ again.nonce = packed.nonce
      /\ again.initCode = packed.initCode /\ again.callData = packed.callData
      /\ again.accountGasLimits = packed.accountGasLimits
      /\ again.preVerificationGas = packed.preVerificationGas
      /\ again.gasFees = packed.gasFees /\ again.paymasterAndData = packed.paymasterAndData
  BY <1>1, <1>2, <1>3 DEF toPackedUserOperation, getAccountGasLimits, getGasLimits
<1>6. toUnpackedThrows(packed) <=> unPackInitCodeThrows(code) \/ unpackPaymasterAndDataThrows(data)
  BY DEF toUnpackedThrows, toPackedUserOperation
<1>7. getUserOperationHash(back, entryPoint) = getUserOperationHash(op, entryPoint)
  <2> HIDE DEF packed, again
  <2>1. getUserOperationHashV07(again, entryPoint) = getUserOperationHashV07(packed, entryPoint)
    BY <1>5 DEF getUserOperationHashV07
  <2> QED BY <1>4, <2>1 DEF getUserOperationHash, packed, again
<1> HIDE DEF code, data
<1> QED BY <1>1, <1>2, <1>6, <1>7 DEF packed, back

\* What the answer is made of: the operation itself, found by its sender and
\* its nonce.
Unpacked(o) == toUnpackedUserOperation(toPackedUserOperation(userOperation[o]))

LEMMA ByHashGives ==
    ASSUME GoodChain(chain), RunsInv, NEW o \in Ops
    PROVE  LET txs == filterResult(chain, o)
           IN  /\ txs # <<>> /\ Direct(txs[1]) => functionOf(o) = txs[1].functionName
               /\ getUserOperationByHash(chain, o) =
                      IF txs = <<>> \/ ~ Direct(txs[1]) THEN Nothing
                      ELSE IF isVersion06(userOperation[o]) THEN <<userOperation[o]>>
                      ELSE IF toUnpackedThrows(toPackedUserOperation(userOperation[o])) THEN Nothing
                      ELSE <<Unpacked(o)>>
<1> DEFINE txs == filterResult(chain, o)
           tx == txs[1]
           found == Filtered(OpsOfCall(tx.calls[1]), Alike(o))
           op == userOperation[found[1]]
           packed == toPackedUserOperation(op)
           answer == getUserOperationByHash(chain, o)
<1>1. answer = IF txs = <<>> \/ ~ Direct(tx) \/ found = <<>> THEN Nothing
               ELSE IF tx.functionName = "handleOpsV06" THEN <<op>>
               ELSE IF toUnpackedThrows(packed) THEN Nothing
               ELSE <<toUnpackedUserOperation(packed)>>
  BY DEF getUserOperationByHash, Direct, DirectCalls, OpsOfCall, Alike
<1>2. ASSUME txs # <<>>, Direct(tx)
      PROVE  functionOf(o) = tx.functionName /\ found = <<o>>
  <2>1. chain \in Seq(Seq(Transactions))
    BY DEF GoodChain
  <2>2. tx \in TransactionsIn(chain) /\ \E run \in RunsOf(tx) : run.op = o
    BY <1>2, <2>1, FirstFound
  <2>3. WellRun(tx)
    BY <2>2 DEF RunsInv
  <2> HIDE DEF tx
  <2> QED BY <1>2, <2>2, <2>3, AloneInCall
<1> HIDE DEF answer, txs
<1>3. CASE txs = <<>> \/ ~ Direct(tx)
  BY <1>1, <1>3 DEF answer, txs
<1>4. CASE txs # <<>> /\ Direct(tx)
  <2>1. functionOf(o) = tx.functionName /\ found = <<o>>
    BY <1>2, <1>4
  <2> HIDE DEF found
  <2>2. found # <<>> /\ op = userOperation[o]
    BY <2>1
  <2>3. tx.functionName = "handleOpsV06" <=> isVersion06(userOperation[o])
    BY <2>1 DEF functionOf
  <2> HIDE DEF tx
  <2>4. answer = IF isVersion06(userOperation[o]) THEN <<userOperation[o]>>
                 ELSE IF toUnpackedThrows(toPackedUserOperation(userOperation[o])) THEN Nothing
                 ELSE <<Unpacked(o)>>
    BY <1>1, <1>4, <2>2, <2>3 DEF Unpacked
  <2> QED BY <1>4, <2>1, <2>4 DEF answer, txs, tx
<1> QED BY <1>3, <1>4

LEMMA ByHashIsTrue ==
    ASSUME GoodChain(chain), RunsInv
    PROVE  ByHashTrue
<1>1. ASSUME NEW o \in Ops, getUserOperationByHash(chain, o) # Nothing
      PROVE  getUserOperationHash(getUserOperationByHash(chain, o)[1], entryPointOf[o]) = hashOf(o)
  <2> DEFINE answer == getUserOperationByHash(chain, o)
             op == userOperation[o]
  <2>1. \/ isVersion06(op) /\ answer = <<op>>
        \/ ~ isVersion06(op) /\ answer = <<Unpacked(o)>>
    BY <1>1, ByHashGives
  <2> HIDE DEF answer
  <2>2. ASSUME ~ isVersion06(op)
        PROVE  getUserOperationHash(Unpacked(o), entryPointOf[o])
                   = getUserOperationHash(op, entryPointOf[o])
    <3>1. op.factoryData \in Seq(ToSet(op.factoryData)) /\ op.paymasterData \in Seq(ToSet(op.paymasterData))
      BY <2>2, OperationsAssumption
    <3> HIDE DEF op
    <3>2. getUserOperationHash(toUnpackedUserOperation(toPackedUserOperation(op)), entryPointOf[o])
              = getUserOperationHash(op, entryPointOf[o])
      BY <2>2, <3>1, UnpackedAgain
    <3> QED BY <3>2 DEF Unpacked, op
  <2> QED BY <2>1, <2>2 DEF hashOf, answer
<1> QED BY <1>1 DEF ByHashTrue

LEMMA ByHashDoesFind ==
    ASSUME GoodChain(chain), RunsInv
    PROVE  ByHashFinds
<1>1. ASSUME NEW o \in Ops, NEW n \in DOMAIN chain, NEW tx \in ToSet(chain[n]),
             n + maxBlockRange >= Len(chain), NEW run \in RunsOf(tx), run.op = o,
             tx.functionName = functionOf(o),
             \/ isVersion06(userOperation[o])
             \/ /\ userOperation[o].factory # NoAddress => userOperation[o].factoryData # <<>>
                /\ userOperation[o].paymaster # NoAddress => userOperation[o].paymasterData # <<>>
      PROVE  getUserOperationByHash(chain, o) # Nothing
  <2> DEFINE txs == filterResult(chain, o)
             first == txs[1]
             op == userOperation[o]
             packed == toPackedUserOperation(op)
  <2>1. chain \in Seq(Seq(Transactions))
    BY DEF GoodChain
  <2>2. n >= fromBlock(chain)
    <3>1. n \in 1..Len(chain) /\ Len(chain) \in Nat
      BY <2>1
    <3> QED BY <1>1, <3>1, ReceiptsAssumption DEF fromBlock
  <2>3. tx \in ToSet(txs)
    BY <1>1, <2>1, <2>2, FoundTransactions
  <2>4. txs # <<>>
    BY <2>3 DEF ToSet
  <2>5. first \in TransactionsIn(chain) /\ \E other \in RunsOf(first) : other.op = o
    BY <2>1, <2>4, FirstFound
  <2> HIDE DEF txs, first
  <2>6. tx = first
    <3>1. tx \in TransactionsIn(chain)
      BY <1>1 DEF TransactionsIn
    <3>2. SameNonce(o, o)
      BY DEF SameNonce
    <3> QED BY <1>1, <2>5, <3>1, <3>2 DEF RunsInv, RunOnce
  <2>7. Direct(first)
    BY <1>1, <2>6 DEF Direct, DirectCalls, functionOf
  <2>8. getUserOperationByHash(chain, o) =
            IF isVersion06(op) THEN <<op>>
            ELSE IF toUnpackedThrows(packed) THEN Nothing ELSE <<Unpacked(o)>>
    BY <2>4, <2>7, ByHashGives DEF txs, first
  <2>9. ASSUME ~ isVersion06(op)
        PROVE  ~ toUnpackedThrows(packed)
    <3>1. op.factoryData \in Seq(ToSet(op.factoryData)) /\ op.paymasterData \in Seq(ToSet(op.paymasterData))
      BY <2>9, OperationsAssumption
    <3>2. /\ op.factory # NoAddress => op.factoryData # <<>>
          /\ op.paymaster # NoAddress => op.paymasterData # <<>>
      BY <1>1, <2>9
    <3> HIDE DEF op
    <3> QED BY <2>9, <3>1, <3>2, UnpackedAgain
  <2> HIDE DEF op, packed
  <2> QED BY <2>8, <2>9 DEF Nothing
<1> QED BY <1>1 DEF ByHashFinds

\* For any operations of either version, any transactions and any length of the
\* chain: eth_getUserOperationByHash answers with what has the hash that was
\* asked for, and for all that it can find (rpcHandler.ts:615).
THEOREM FoundByHash == Spec => []ByHashAnswers
<1>1. SInv /\ RunsInv => ByHashAnswers
  BY ByHashIsTrue, ByHashDoesFind DEF SInv, ByHashAnswers
<1>2. SInv /\ RunsInv /\ [Next]_vars => RunsInv'
  BY RunsStep
<1> QED BY SInit, SStep, RunsInit, <1>1, <1>2, PTL DEF Spec

=============================================================================
