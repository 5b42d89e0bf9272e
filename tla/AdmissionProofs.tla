-------------------------- MODULE AdmissionProofs --------------------------
(***************************************************************************)
(* Admission for any operations, limits and numbers of requests and calls  *)
(* of the nonce queue at the same time.  TInv is what every step needs:    *)
(* the types, and what add() keeps of the outstanding store.  From it      *)
(*   Present       an operation is validated with every nonce before its   *)
(*                 own outstanding: as many different ones as needed;      *)
(*   Limits        the outstanding operations of a sender without stake    *)
(*                 stay within its limit, however requests overlap;        *)
(*   ArrivalsStay  no call drops what was queued after its snapshot;       *)
(*   BansLast      what lifts a ban is an inclusion or a debug endpoint.   *)
(***************************************************************************)
EXTENDS Admission, OutstandingProofs

EntriesType == [EntryPoints -> [Addresses -> ReputationEntry]]

\* What an add() keeps of the outstanding store.
OutstandingInv == IsInjective(outstanding) /\ AddInv(ToSet(outstanding), Ops)

TInv == TypeOK /\ OutstandingInv

-----------------------------------------------------------------------------
(* Reputation.                                                             *)

LEMMA RolesType ==
    ASSUME NEW o \in Ops
    PROVE  /\ \A e : /\ Roles(o, e) \in Nat
                     /\ userOp[o].factory = e => Roles(o, e) >= 1
                     /\ Sender(o) = e => Roles(o, e) >= 1
           /\ EntryPoint(o) \in EntryPoints
           /\ Slot(o) \in Slots
           /\ Sender(o) \in Addresses
           /\ userOp[o].paymaster \in Addresses \cup {NoEntity}
           /\ userOp[o].factory \in Addresses \cup {NoEntity}
           /\ NonceValue(o) \in Nat /\ userOp[o].nonceKey \in Nat
<1>1. \A e : /\ Roles(o, e) \in Nat
             /\ userOp[o].factory = e => Roles(o, e) >= 1
             /\ Sender(o) = e => Roles(o, e) >= 1
  BY DEF Roles
<1>2. /\ userOp[o].sender \in Field("sender") /\ userOp[o].paymaster \in Field("paymaster")
      /\ userOp[o].factory \in Field("factory") /\ userOp[o].entryPoint \in Field("entryPoint")
      /\ userOp[o].nonceValue \in Nat /\ userOp[o].nonceKey \in Nat
  BY OpsAssumption
<1> QED BY <1>1, <1>2, ReputationAssumption
        DEF EntryPoint, EntryPoints, Slot, Slots, Sender, NonceValue

LEMMA DivMonotone ==
    ASSUME NEW a \in Nat, NEW b \in Nat, a =< b, NEW d \in Nat \ {0}
    PROVE  a \div d =< b \div d /\ a \div d \in Nat
OBVIOUS

\* Who is banned stays so as it is seen more and included less.
LEMMA StaysBanned ==
    ASSUME NEW r \in ReputationEntry, NEW q \in ReputationEntry, Status(r) = "banned",
           r.opsSeen =< q.opsSeen, q.opsIncluded =< r.opsIncluded
    PROVE  Status(q) = "banned"
<1> DEFINE a == r.opsSeen \div minInclusionDenominator
           b == q.opsSeen \div minInclusionDenominator
<1>1. /\ r.opsSeen \in Nat /\ q.opsSeen \in Nat
      /\ r.opsIncluded \in Nat /\ q.opsIncluded \in Nat
  BY DEF ReputationEntry
<1>2. a =< b /\ a \in Nat
  BY <1>1, ReputationAssumption, DivMonotone
<1>3. b \in Nat
  BY <1>1, ReputationAssumption, DivMonotone
<1>4. ~ (a =< r.opsIncluded + throttlingSlack) /\ ~ (a =< r.opsIncluded + banSlack)
  BY DEF Status, minExpectedIncluded
<1> HIDE DEF a, b
<1>5. ~ (b =< q.opsIncluded + throttlingSlack) /\ ~ (b =< q.opsIncluded + banSlack)
  BY <1>1, <1>2, <1>3, <1>4, ReputationAssumption
<1> QED BY <1>5 DEF Status, minExpectedIncluded, b

\* es is as much or more seen than what was there, and as much included.
SeenMore(old, es) ==
    \A ep \in EntryPoints, e \in Addresses :
        /\ old[ep][e].opsSeen =< es[ep][e].opsSeen
        /\ es[ep][e].opsIncluded = old[ep][e].opsIncluded

LEMMA SeenType ==
    ASSUME NEW es \in EntriesType, NEW o \in Ops
    PROVE  Seen(es, o) \in EntriesType /\ SeenMore(es, Seen(es, o))
<1> DEFINE ep == EntryPoint(o)
           row == [e \in Addresses |-> [es[ep][e] EXCEPT !.opsSeen = @ + Roles(o, e)]]
<1>0. ~ safeMode => Seen(es, o) = es
  BY DEF Seen, WithEntries
<1>1. ep \in EntryPoints
  BY RolesType
<1>2. safeMode => Seen(es, o) = [es EXCEPT ![ep] = row]
  BY DEF Seen, WithEntries
<1>3. \A e \in Addresses : /\ row[e] \in ReputationEntry
                           /\ row[e].opsIncluded = es[ep][e].opsIncluded
                           /\ es[ep][e].opsSeen =< row[e].opsSeen
  <2> SUFFICES ASSUME NEW e \in Addresses
               PROVE  /\ row[e] \in ReputationEntry
                      /\ row[e].opsIncluded = es[ep][e].opsIncluded
                      /\ es[ep][e].opsSeen =< row[e].opsSeen
    OBVIOUS
  <2>1. es[ep][e] \in ReputationEntry /\ Roles(o, e) \in Nat
    BY <1>1, RolesType DEF EntriesType
  <2> QED BY <2>1 DEF ReputationEntry
<1>4. row \in [Addresses -> ReputationEntry]
  BY <1>3
<1> HIDE DEF row, ep
<1>5. Seen(es, o) \in EntriesType
  BY <1>0, <1>1, <1>2, <1>4 DEF EntriesType
<1>6. ASSUME NEW q \in EntryPoints, NEW e \in Addresses
      PROVE  /\ es[q][e].opsSeen =< Seen(es, o)[q][e].opsSeen
             /\ Seen(es, o)[q][e].opsIncluded = es[q][e].opsIncluded
  <2>1. es[q][e] \in ReputationEntry
    BY DEF EntriesType
  <2>2. Seen(es, o)[q] = IF safeMode /\ q = ep THEN row ELSE es[q]
    BY <1>0, <1>2 DEF EntriesType
  <2> QED BY <1>3, <2>1, <2>2 DEF ReputationEntry
<1> QED BY <1>5, <1>6 DEF SeenMore

LEMMA SeenMoreOnce ==
    ASSUME NEW old \in EntriesType, NEW es \in EntriesType, NEW fs \in EntriesType,
           SeenMore(old, es), SeenMore(es, fs)
    PROVE  SeenMore(old, fs)
<1>1. ASSUME NEW ep \in EntryPoints, NEW e \in Addresses
      PROVE  /\ old[ep][e].opsSeen =< fs[ep][e].opsSeen
             /\ fs[ep][e].opsIncluded = old[ep][e].opsIncluded
  <2>1. /\ old[ep][e] \in ReputationEntry /\ es[ep][e] \in ReputationEntry
        /\ fs[ep][e] \in ReputationEntry
    BY DEF EntriesType
  <2>2. /\ old[ep][e].opsSeen \in Nat /\ es[ep][e].opsSeen \in Nat
        /\ fs[ep][e].opsSeen \in Nat
    BY <2>1 DEF ReputationEntry
  <2>3. /\ old[ep][e].opsSeen =< es[ep][e].opsSeen
        /\ es[ep][e].opsSeen =< fs[ep][e].opsSeen
        /\ es[ep][e].opsIncluded = old[ep][e].opsIncluded
        /\ fs[ep][e].opsIncluded = es[ep][e].opsIncluded
    BY DEF SeenMore
  <2> QED BY <2>2, <2>3
<1> QED BY <1>1 DEF SeenMore

LEMMA SeenNoMore ==
    ASSUME NEW es \in EntriesType
    PROVE  SeenMore(es, es)
<1>1. \A ep \in EntryPoints, e \in Addresses : es[ep][e].opsSeen \in Nat
  BY DEF EntriesType, ReputationEntry
<1> QED BY <1>1 DEF SeenMore

-----------------------------------------------------------------------------
(* The outstanding store.                                                  *)

\* Outstanding stores whose operations are in S, as add() leaves them.
Stores(S) ==
    {out \in Seq(Ops) : IsInjective(out) /\ AddInv(ToSet(out), Ops) /\ ToSet(out) \subseteq S}

LEMMA AddOne ==
    ASSUME NEW S, NEW out \in Stores(S), NEW o \in Ops, o \in S, NEW held
    PROVE  OutstandingAfterAdd(o, out, held) \in Stores(S)
<1> DEFINE rem == Remaining(o, out)
<1>1. /\ out \in Seq(Ops) /\ IsInjective(out) /\ AddInv(ToSet(out), Ops)
      /\ ToSet(out) \subseteq S
  BY DEF Stores
<1>2. /\ rem \in Seq(Ops) /\ IsInjective(rem) /\ ToSet(rem) \subseteq ToSet(out)
  BY <1>1, RemainingOps
<1>3. AddInv(ToSet(OutstandingAfterAdd(o, out, held)), Ops)
  <2>1. ToSet(out) \subseteq Ops /\ Ops \cup {o} = Ops /\ Ops \in SUBSET Ops
    BY <1>1, SequenceElements
  <2>2. AddInv(ToSet(OutstandingAfterAdd(o, out, held)),
               IF Accepted(o, out, held) THEN Ops \cup {o} ELSE Ops)
    BY <1>1, <2>1, AddKeepsAddInv
  <2> QED BY <2>1, <2>2
<1>4. Replaceable(o, out, held) => o \notin ToSet(out)
  BY DEF Replaceable
<1> HIDE DEF rem
<1>5. /\ Append(rem, o) \in Seq(Ops)
      /\ ToSet(Append(rem, o)) = ToSet(rem) \cup {o}
      /\ IsInjective(rem) /\ o \notin ToSet(rem) => IsInjective(Append(rem, o))
  BY <1>2, AppendElements
<1> QED BY <1>1, <1>2, <1>3, <1>4, <1>5 DEF Stores, OutstandingAfterAdd, rem

\* One add() after another.
LEMMA AddAllKeeps ==
    ASSUME TInv, NEW s \in Seq(Ops), AddAll(s)
    PROVE  /\ outstanding' \in Stores(ToSet(outstanding) \cup ToSet(s))
           /\ entries' \in EntriesType
           /\ SeenMore(entries, entries')
<1> DEFINE n == Len(s)
           S == ToSet(outstanding) \cup ToSet(s)
           X == {a \in [out : Stores(S), entries : EntriesType] :
                    SeenMore(entries, a.entries)}
           Turn(acc, o) ==
               [out |-> OutstandingAfterAdd(o, acc.out, busy),
                entries |-> IF NotYetInMempool(o, acc.out) THEN Seen(acc.entries, o)
                            ELSE acc.entries]
           base == [out |-> outstanding, entries |-> entries]
           step == [p \in (1..n) \X X |-> Turn(p[2], s[p[1]])]
           Body(g) == [T \in SUBSET DOMAIN s |->
                          IF T = {} THEN base ELSE Turn(g[T \ {Max(T)}], s[Max(T)])]
           h == CHOOSE g : g = Body(g)
<1>0. outstanding' = h[DOMAIN s].out /\ entries' = h[DOMAIN s].entries
  BY DEF AddAll, FoldLeft, MapThenFoldSet
<1>1. n \in Nat /\ DOMAIN s = 1..n /\ base \in X
  <2>1. outstanding \in Stores(S)
    BY DEF TInv, TypeOK, OutstandingInv, Stores
  <2>2. entries \in EntriesType
    BY DEF TInv, TypeOK, EntriesType
  <2> HIDE DEF S
  <2> QED BY <2>1, <2>2, SeenNoMore
<1>2. ASSUME NEW a \in X, NEW k \in 1..n
      PROVE  Turn(a, s[k]) \in X
  <2>1. s[k] \in Ops /\ s[k] \in S
    BY <1>1, SequenceElements
  <2>2. a.out \in Stores(S) /\ a.entries \in EntriesType /\ SeenMore(entries, a.entries)
    OBVIOUS
  <2> HIDE DEF S
  <2>3. OutstandingAfterAdd(s[k], a.out, busy) \in Stores(S)
    BY <2>1, <2>2, AddOne
  <2>4. Seen(a.entries, s[k]) \in EntriesType /\ SeenMore(a.entries, Seen(a.entries, s[k]))
    BY <2>1, <2>2, SeenType
  <2>5. SeenMore(entries, Seen(a.entries, s[k]))
    <3>1. entries \in EntriesType
      BY DEF TInv, TypeOK, EntriesType
    <3> QED BY <2>2, <2>4, <3>1, SeenMoreOnce
  <2> QED BY <2>2, <2>3, <2>4, <2>5
<1> HIDE DEF Turn
<1>3. step \in [(1..n) \X X -> X]
  <2> HIDE DEF X
  <2> QED BY <1>2
<1>4. PICK g \in [SUBSET (1..n) -> X] : Folding(g, 1..n, base, LastOf(n), step)
  <2> HIDE DEF step, base, n, X
  <2> QED BY <1>1, <1>3, FoldOnSequenceExists
<1>5. g = Body(g)
  <2>1. \A T \in SUBSET (1..n) : T # {} => Max(T) \in 1..n /\ T \ {Max(T)} \in SUBSET (1..n)
    BY <1>1, LastPosition
  <2>2. \A T \in SUBSET (1..n) :
            g[T] = IF T = {} THEN base ELSE Turn(g[T \ {Max(T)}], s[Max(T)])
    <3> HIDE DEF base, X, n
    <3> QED BY <1>4, <2>1 DEF Folding, LastOf
  <2> HIDE DEF base
  <2> QED BY <1>1, <1>4, <2>2
<1>6. h = Body(h)
  <2> HIDE DEF Body
  <2> QED BY <1>5
<1>7. h[1..0] = base /\ \A k \in 1..n : h[1..k] = Turn(h[1..(k-1)], s[k])
  <2>1. \A k \in 1..n : /\ 1..k \in SUBSET (1..n) /\ 1..k # {}
                        /\ Max(1..k) = k /\ (1..k) \ {k} = 1..(k - 1)
    BY <1>1, LastOfFirst
  <2>2. \A T \in SUBSET (1..n) :
            h[T] = IF T = {} THEN base ELSE Turn(h[T \ {Max(T)}], s[Max(T)])
    <3> HIDE DEF base, h, n
    <3> QED BY <1>1, <1>6
  <2>3. 1..0 \in SUBSET (1..n) /\ 1..0 = {}
    OBVIOUS
  <2> HIDE DEF base, h, n
  <2> QED BY <2>1, <2>2, <2>3
<1> HIDE DEF h
<1> DEFINE P == {k \in 0..n : h[1..k] \in X}
<1>8. \A k \in 0..n : k \in P
  <2>1. 0 \in P
    BY <1>1, <1>7
  <2>2. ASSUME NEW k \in 1..n, k - 1 \in P
        PROVE  k \in P
    <3> HIDE DEF X
    <3> QED BY <1>2, <1>7, <2>2
  <2> HIDE DEF P
  <2> QED BY <1>1, <2>1, <2>2, UpTo
<1>9. h[1..n] \in X
  <2> HIDE DEF X
  <2> QED BY <1>1, <1>8
<1> QED BY <1>0, <1>1, <1>9

-----------------------------------------------------------------------------
(* The nonce queue.                                                        *)

LEMMA SelectedElements ==
    ASSUME NEW s \in Seq(Ops), NEW I \in SUBSET (1..Len(s))
    PROVE  Selected(s, I) \in Seq(Ops) /\ ToSet(Selected(s, I)) = {s[i] : i \in I}
<1> DEFINE n == Len(s)
           all == [i \in DOMAIN s |-> i]
           Turn(ops, i) == IF i \in I THEN Append(ops, s[i]) ELSE ops
           step == [p \in (1..n) \X Seq(Ops) |-> Turn(p[2], p[1])]
           Body(g) == [T \in SUBSET DOMAIN all |->
                          IF T = {} THEN <<>> ELSE Turn(g[T \ {Max(T)}], all[Max(T)])]
           h == CHOOSE g : g = Body(g)
<1>0. Selected(s, I) = h[DOMAIN all]
  BY DEF Selected, FoldLeft, MapThenFoldSet
<1>1. n \in Nat /\ DOMAIN all = 1..n /\ <<>> \in Seq(Ops) /\ \A k \in 1..n : all[k] = k
  OBVIOUS
<1>2. ASSUME NEW ops \in Seq(Ops), NEW k \in 1..n
      PROVE  Turn(ops, k) \in Seq(Ops)
  OBVIOUS
<1> HIDE DEF Turn, all
<1>3. step \in [(1..n) \X Seq(Ops) -> Seq(Ops)]
  BY <1>2
<1>4. PICK g \in [SUBSET (1..n) -> Seq(Ops)] : Folding(g, 1..n, <<>>, LastOf(n), step)
  <2> HIDE DEF step, n
  <2> QED BY <1>1, <1>3, FoldOnSequenceExists
<1>5. g = Body(g)
  <2>1. \A T \in SUBSET (1..n) : T # {} => Max(T) \in 1..n /\ T \ {Max(T)} \in SUBSET (1..n)
    BY <1>1, LastPosition
  <2>2. \A T \in SUBSET (1..n) :
            g[T] = IF T = {} THEN <<>> ELSE Turn(g[T \ {Max(T)}], all[Max(T)])
    <3> HIDE DEF n, step
    <3>1. \A T \in SUBSET (1..n) : T # {} =>
              g[T] = step[<<Max(T), g[T \ {Max(T)}]>>] /\ all[Max(T)] = Max(T)
      BY <1>1, <1>4, <2>1 DEF Folding, LastOf
    <3>2. \A k \in 1..n, ops \in Seq(Ops) : step[<<k, ops>>] = Turn(ops, k)
      BY <1>1 DEF step
    <3>3. g[{}] = <<>>
      BY <1>1, <1>4 DEF Folding
    <3>4. ASSUME NEW T \in SUBSET (1..n), T # {}
          PROVE  g[T] = Turn(g[T \ {Max(T)}], all[Max(T)])
      <4>1. Max(T) \in 1..n /\ g[T \ {Max(T)}] \in Seq(Ops)
        BY <1>4, <2>1, <3>4
      <4> QED BY <3>1, <3>2, <3>4, <4>1
    <3> QED BY <3>3, <3>4
  <2> QED BY <1>1, <1>4, <2>2
<1>6. h = Body(h)
  <2> HIDE DEF Body
  <2> QED BY <1>5
<1>7. h[1..0] = <<>> /\ \A k \in 1..n : h[1..k] = Turn(h[1..(k-1)], k)
  <2>1. \A k \in 1..n : /\ 1..k \in SUBSET (1..n) /\ 1..k # {}
                        /\ Max(1..k) = k /\ (1..k) \ {k} = 1..(k - 1)
    BY <1>1, LastOfFirst
  <2>2. \A T \in SUBSET (1..n) :
            h[T] = IF T = {} THEN <<>> ELSE Turn(h[T \ {Max(T)}], all[Max(T)])
    <3> HIDE DEF h, n
    <3> QED BY <1>1, <1>6
  <2>3. 1..0 \in SUBSET (1..n) /\ 1..0 = {}
    OBVIOUS
  <2> HIDE DEF h, n
  <2>4. h[1..0] = <<>>
    BY <2>2, <2>3
  <2>5. ASSUME NEW k \in 1..n
        PROVE  h[1..k] = Turn(h[1..(k-1)], k)
    <3>1. h[1..k] = Turn(h[(1..k) \ {k}], all[k])
      BY <2>1, <2>2
    <3> QED BY <1>1, <2>1, <3>1
  <2> QED BY <2>4, <2>5
<1> HIDE DEF h
<1> DEFINE Before(k) == {s[i] : i \in I \cap (1..k)}
           P == {k \in 0..n : h[1..k] \in Seq(Ops) /\ ToSet(h[1..k]) = Before(k)}
<1>8. 0 \in P
  <2>1. ToSet(<<>>) = {}
    BY DEF ToSet
  <2>2. I \cap (1..0) = {} /\ 0 \in 0..n
    BY <1>1
  <2>3. Before(0) = {}
    BY <2>2
  <2> HIDE DEF Before
  <2> QED BY <1>1, <1>7, <2>1, <2>2, <2>3
<1>9. ASSUME NEW k \in 1..n, k - 1 \in P
      PROVE  k \in P
  <2>1. h[1..(k - 1)] \in Seq(Ops) /\ ToSet(h[1..(k - 1)]) = Before(k - 1)
    BY <1>9
  <2>2. Before(k) = IF k \in I THEN Before(k - 1) \cup {s[k]} ELSE Before(k - 1)
    <3>1. I \cap (1..k) = IF k \in I THEN (I \cap (1..(k - 1))) \cup {k}
                          ELSE I \cap (1..(k - 1))
      BY <1>1
    <3> QED BY <3>1
  <2>3. h[1..k] = IF k \in I THEN Append(h[1..(k - 1)], s[k]) ELSE h[1..(k - 1)]
    BY <1>7 DEF Turn
  <2>4. s[k] \in Ops /\ k \in 0..n
    BY <1>1
  <2> DEFINE t == h[1..(k - 1)]
             b == Before(k - 1)
  <2> HIDE DEF Before, t, b
  <2>5. /\ Append(t, s[k]) \in Seq(Ops)
        /\ ToSet(Append(t, s[k])) = ToSet(t) \cup {s[k]}
    BY <2>1, <2>4, AppendElements DEF t
  <2> QED BY <2>1, <2>2, <2>3, <2>4, <2>5 DEF t, b
<1>10. n \in P
  <2> HIDE DEF P
  <2>1. \A k \in 0..n : k \in P
    BY <1>1, <1>8, <1>9, UpTo
  <2> QED BY <1>1, <2>1
<1>11. Before(n) = {s[i] : i \in I}
  <2>1. I \cap (1..n) = I
    OBVIOUS
  <2> QED BY <2>1
<1> HIDE DEF Before
<1> QED BY <1>0, <1>1, <1>10, <1>11

LEMMA WithoutElements ==
    ASSUME NEW s \in Seq(Ops), NEW S
    PROVE  Without(s, S) \in Seq(Ops) /\ ToSet(Without(s, S)) = ToSet(s) \ S
<1> DEFINE I == {i \in DOMAIN s : s[i] \notin S}
<1>1. I \in SUBSET (1..Len(s)) /\ {s[i] : i \in I} = ToSet(s) \ S
  BY SequenceElements
<1>2. Without(s, S) = Selected(s, I)
  BY DEF Without
<1> HIDE DEF I
<1> QED BY <1>1, <1>2, SelectedElements

\* The queue from position k + 1 on: what is older is at the front.
LEMMA YoungerKept ==
    ASSUME NEW s \in Seq(Ops), NEW k \in 0..Len(s)
    PROVE  LET younger == SubSeq(s, k + 1, Len(s)) IN
           younger \in Seq(Ops) /\ ToSet(younger) \subseteq ToSet(s)
                                /\ IsSuffix(younger, s)
<1> DEFINE n == Len(s)
           younger == SubSeq(s, k + 1, n)
           m == n - k
<1>1. n \in Nat /\ m \in 0..n /\ \A i \in 1..n : s[i] \in Ops
  OBVIOUS
<1>2. younger \in Seq(Ops) /\ Len(younger) = m /\ \A i \in 1..m : younger[i] = s[k + i]
  <2>1. k + 1 \in 1..(n + 1) /\ n \in Nat
    BY <1>1
  <2> QED BY <2>1, SubSeqProperties
<1> HIDE DEF younger
<1>3. ToSet(younger) \subseteq ToSet(s)
  <2>1. \A i \in 1..m : k + i \in 1..n
    BY <1>1
  <2> QED BY <1>2, <2>1, SequenceElements
<1>4. IsSuffix(younger, s)
  <2>1. /\ Reverse(younger) = [i \in 1..m |-> younger[(m - i) + 1]]
        /\ Reverse(s) = [i \in 1..n |-> s[(n - i) + 1]]
    BY <1>2 DEF Reverse
  <2>2. \A i \in 1..m : younger[(m - i) + 1] = s[(n - i) + 1]
    <3> TAKE i \in 1..m
    <3> DEFINE j == (m - i) + 1
    <3>1. j \in 1..m /\ k + j = (n - i) + 1
      BY <1>1
    <3> HIDE DEF j
    <3>2. younger[j] = s[k + j]
      BY <1>2, <3>1
    <3> QED BY <3>1, <3>2 DEF j
  <2>3. Len(Reverse(younger)) = m /\ Len(Reverse(s)) = n
    BY <1>1, <2>1
  <2>4. /\ Reverse(s) \in Seq(Ops)
        /\ \A i \in 1..m : i \in 1..n /\ Reverse(younger)[i] = Reverse(s)[i]
    <3>1. \A i \in 1..n : s[(n - i) + 1] \in Ops
      BY <1>1
    <3> QED BY <1>1, <2>1, <2>2, <3>1
  <2>5. SubSeq(Reverse(s), 1, Len(Reverse(younger))) = Reverse(younger)
    <3>1. SubSeq(Reverse(s), 1, m) = [i \in 1..m |-> Reverse(s)[i]]
      BY <1>1, <2>3, <2>4
    <3> QED BY <2>1, <2>3, <2>4, <3>1
  <2> QED BY <1>1, <2>3, <2>4, <2>5 DEF IsSuffix, IsPrefix
<1> HIDE DEF m
<1> QED BY <1>2, <1>3, <1>4 DEF younger, n

-----------------------------------------------------------------------------
(* Counting roles.                                                         *)

RolesOf(e) == [o \in Ops |-> Roles(o, e)]

\* The roles of e in the operations of S.
RolesIn(S, e) == Total(S, RolesOf(e))

LEMMA RolesNatural ==
    ASSUME NEW S \in SUBSET Ops, NEW e
    PROVE  Natural(S, RolesOf(e)) /\ \A o \in S : RolesOf(e)[o] = Roles(o, e)
BY RolesType DEF Natural, RolesOf

\* What Uncount adds.
RolesSummed(S, e) == MapThenSumSet(LAMBDA o : Roles(o, e), S)

LEMMA RolesSummedUp ==
    ASSUME NEW S \in SUBSET Ops, IsFiniteSet(S), NEW e
    PROVE  RolesSummed(S, e) = RolesIn(S, e) /\ RolesIn(S, e) \in Nat
<1> DEFINE f == RolesOf(e)
           Body(g) == [s \in SUBSET S |->
                          IF s = {} THEN 0 ELSE Roles(AnyOf(s), e) + g[s \ {AnyOf(s)}]]
           h == CHOOSE g : g = Body(g)
<1>1. Natural(S, f) /\ \A o \in S : f[o] = Roles(o, e)
  BY RolesNatural
<1>2. RolesSummed(S, e) = h[S]
  BY DEF RolesSummed, MapThenSumSet, MapThenFoldSet, AnyOf
<1> HIDE DEF f
<1>3. \A g : g = Body(g) <=> Adding(g, S, f)
  <2>1. \A s \in SUBSET S : s # {} => Roles(AnyOf(s), e) = f[AnyOf(s)]
    BY <1>1 DEF AnyOf
  <2> QED BY <2>1 DEF Adding
<1>4. \E g : g = Body(g)
  <2>1. \E g : Adding(g, S, f)
    BY <1>1, AddingExists
  <2> HIDE DEF Body
  <2> QED BY <1>3, <2>1
<1>5. h = Body(h)
  <2> HIDE DEF Body
  <2> QED BY <1>4
<1>6. Adding(h, S, f)
  <2> HIDE DEF Body, h
  <2> QED BY <1>3, <1>5
<1> HIDE DEF h
<1>7. PICK g \in [SUBSET S -> Nat] : Adding(g, S, f) /\ Total(S, f) = g[S]
  BY <1>1, TotalIs
<1>8. g[S] = h[S]
  <2>1. S \in SUBSET S
    OBVIOUS
  <2>2. \A T \in SUBSET S : g[T] = h[T]
    BY <1>6, <1>7, <2>1, AddingSame
  <2> QED BY <2>1, <2>2
<1>9. g[S] \in Nat
  OBVIOUS
<1> QED BY <1>2, <1>7, <1>8, <1>9 DEF RolesIn, f

LEMMA RolesOutstandingIs ==
    ASSUME TInv, NEW e
    PROVE  RolesOutstanding(e) = RolesIn(ToSet(outstanding), e)
<1> DEFINE s == outstanding
           n == Len(s)
           f == [i \in 1..n |-> Roles(s[i], e)]
           Body(g) == [T \in SUBSET DOMAIN s |->
                          IF T = {} THEN 0
                          ELSE g[T \ {Max(T)}] + Roles(s[Max(T)], e)]
           h == CHOOSE g : g = Body(g)
<1>0. RolesOutstanding(e) = h[DOMAIN s]
  BY DEF RolesOutstanding, FoldLeft, MapThenFoldSet
<1>1. /\ s \in Seq(Ops) /\ n \in Nat /\ DOMAIN s = 1..n /\ f \in Terms(n)
      /\ \A i, j \in 1..n : s[i] = s[j] => i = j
      /\ ToSet(s) = {s[i] : i \in 1..n} /\ ToSet(s) \in SUBSET Ops
  <2>1. s \in Seq(Ops) /\ IsInjective(s)
    BY DEF TInv, TypeOK, OutstandingInv
  <2> QED BY <2>1, RolesType, SequenceElements DEF Terms
<1>2. \A g : g = Body(g) <=> Summing(g, n, f)
  <2>1. \A T \in SUBSET (1..n) : T # {} => f[Max(T)] = Roles(s[Max(T)], e)
    BY <1>1, LastPosition
  <2> HIDE DEF n
  <2> QED BY <1>1, <2>1 DEF Summing
<1>3. \E g : g = Body(g)
  <2> HIDE DEF Body, n, f
  <2> QED BY <1>1, <1>2, SumExists
<1>4. h = Body(h)
  <2> HIDE DEF Body
  <2> QED BY <1>3
<1>5. Summing(h, n, f)
  <2> HIDE DEF Body, h
  <2> QED BY <1>2, <1>4
<1> HIDE DEF h
<1>6. \A i \in 1..n : f[i] = Roles(s[i], e) /\ f[i] \in Nat
  BY <1>1 DEF Terms
<1> HIDE DEF f, n
<1>7. h[1..n] = Total(1..n, f)
  <2> DEFINE P == {k \in 0..n : h[1..k] = Total(1..k, f)}
  <2>1. h[1..0] = 0 /\ \A k \in 1..n : h[1..k] = h[1..(k - 1)] + f[k]
    BY <1>1, <1>5, SumSteps
  <2>2. 0 \in P
    <3>1. 1..0 = {}
      OBVIOUS
    <3>2. Total(1..0, f) = 0
      BY <3>1, TotalOfNothing
    <3> QED BY <1>1, <2>1, <3>2
  <2>3. ASSUME NEW k \in 1..n, k - 1 \in P
        PROVE  k \in P
    <3> DEFINE l == k - 1
    <3>1. l \in Nat /\ k \in Nat /\ k = l + 1 /\ k \in 0..n
      BY <1>1
    <3>2. Natural(1..k, f)
      BY <1>1, <1>6 DEF Natural
    <3>3. h[1..k] = h[1..l] + f[k] /\ h[1..l] = Total(1..l, f)
      BY <2>1, <2>3
    <3> HIDE DEF l
    <3>4. Total(1..k, f) = Total(1..l, f) + f[k]
      BY <3>1, <3>2, TotalUpTo
    <3> QED BY <3>1, <3>3, <3>4
  <2> HIDE DEF P
  <2>4. \A k \in 0..n : k \in P
    BY <1>1, <2>2, <2>3, UpTo
  <2> QED BY <1>1, <2>4 DEF P
<1>8. Total(ToSet(s), RolesOf(e)) = Total(1..n, f)
  <2>1. IsFiniteSet(1..n) /\ Natural(1..n, f)
    <3>1. IsFiniteSet(1..n)
      BY <1>1, FS_Interval
    <3> QED BY <1>6, <3>1 DEF Natural
  <2>2. \A i \in 1..n : s[i] \in ToSet(s) /\ RolesOf(e)[s[i]] = f[i]
    BY <1>1, <1>6 DEF RolesOf
  <2>3. \A y \in ToSet(s) : \E i \in 1..n : s[i] = y
    BY <1>1
  <2> QED BY <1>1, <2>1, <2>2, <2>3, TotalMoved
<1> QED BY <1>0, <1>1, <1>7, <1>8 DEF RolesIn

\* An outstanding store has finitely many operations.
LEMMA StoreFinite ==
    ASSUME NEW S, NEW out \in Stores(S)
    PROVE  /\ out \in Seq(Ops) /\ IsInjective(out) /\ AddInv(ToSet(out), Ops)
           /\ ToSet(out) \in SUBSET S /\ ToSet(out) \in SUBSET Ops
           /\ IsFiniteSet(ToSet(out))
<1>1. out \in Seq(Ops) /\ IsInjective(out)
  BY DEF Stores
<1>2. ToSet(out) \subseteq Ops /\ ToSet(out) = {out[i] : i \in 1..Len(out)}
  BY <1>1, SequenceElements
<1>3. IsFiniteSet(ToSet(out))
  BY <1>1, <1>2, PositionsCount
<1> QED BY <1>2, <1>3 DEF Stores

LEMMA OutstandingStore ==
    ASSUME TInv
    PROVE  outstanding \in Stores(ToSet(outstanding))
BY DEF TInv, TypeOK, OutstandingInv, Stores

\* Every role of e that an uncounted step adds is uncounted.
UncountedSince(old, out, count, e) ==
    RolesIn(ToSet(out), e) + uncounted[e] =< RolesIn(ToSet(old), e) + count[e]

LEMMA UncountAdds ==
    ASSUME TInv, NEW S, outstanding' \in Stores(S), Uncount
    PROVE  /\ uncounted' \in [Addresses -> Nat]
           /\ \A e \in Addresses : UncountedSince(outstanding, outstanding', uncounted', e)
<1> DEFINE out == outstanding'
           A == ToSet(out) \ ToSet(outstanding)
           B == ToSet(out) \cap ToSet(outstanding)
<1>1. /\ ToSet(out) \in SUBSET Ops /\ IsFiniteSet(ToSet(out))
      /\ ToSet(outstanding) \in SUBSET Ops /\ IsFiniteSet(ToSet(outstanding))
  BY StoreFinite, OutstandingStore
<1>2. uncounted' = [e \in Addresses |-> uncounted[e] + RolesSummed(A, e)]
  BY DEF Uncount, RolesSummed
<1> DEFINE next == uncounted'
<1>3. next = [e \in Addresses |-> uncounted[e] + RolesSummed(A, e)]
  BY <1>2
<1>4. A \in SUBSET Ops /\ IsFiniteSet(A) /\ A = ToSet(out) \ B
      /\ B \in SUBSET ToSet(out) /\ B \in SUBSET ToSet(outstanding)
  BY <1>1, FS_Subset
<1> HIDE DEF out, A, next
<1>5. ASSUME NEW e \in Addresses
      PROVE  /\ next[e] = uncounted[e] + RolesIn(A, e)
             /\ RolesIn(A, e) \in Nat /\ uncounted[e] \in Nat
             /\ RolesIn(ToSet(out), e) = RolesIn(B, e) + RolesIn(A, e)
             /\ RolesIn(B, e) =< RolesIn(ToSet(outstanding), e)
             /\ RolesIn(B, e) \in Nat /\ RolesIn(ToSet(outstanding), e) \in Nat
  <2>1. next[e] = uncounted[e] + RolesSummed(A, e)
    BY <1>3
  <2>2. RolesSummed(A, e) = RolesIn(A, e) /\ RolesIn(A, e) \in Nat
    BY <1>4, RolesSummedUp
  <2>3. uncounted[e] \in Nat
    BY DEF TInv, TypeOK
  <2> HIDE DEF B
  <2>4. Natural(ToSet(out), RolesOf(e)) /\ Natural(ToSet(outstanding), RolesOf(e))
    BY <1>1, RolesNatural
  <2>5. /\ RolesIn(ToSet(out), e) = RolesIn(B, e) + RolesIn(A, e)
        /\ RolesIn(B, e) \in Nat
    BY <1>1, <1>4, <2>4, TotalSplit DEF RolesIn
  <2>6. RolesIn(B, e) =< RolesIn(ToSet(outstanding), e) /\ RolesIn(ToSet(outstanding), e) \in Nat
    <3> DEFINE C == ToSet(outstanding) \ B
    <3>1. /\ RolesIn(ToSet(outstanding), e) = RolesIn(B, e) + RolesIn(C, e)
          /\ RolesIn(B, e) \in Nat /\ RolesIn(C, e) \in Nat
          /\ RolesIn(ToSet(outstanding), e) \in Nat
      BY <1>1, <1>4, <2>4, TotalSplit DEF RolesIn
    <3> HIDE DEF C
    <3> QED BY <3>1
  <2> QED BY <2>1, <2>2, <2>3, <2>5, <2>6
<1> HIDE DEF B
<1>6. next \in [Addresses -> Nat]
  <2>1. \A e \in Addresses : uncounted[e] + RolesSummed(A, e) \in Nat
    BY <1>4, <1>5, RolesSummedUp
  <2> QED BY <1>3, <2>1
<1>7. \A e \in Addresses : UncountedSince(outstanding, out, next, e)
  <2> TAKE e \in Addresses
  <2>1. RolesIn(ToSet(out), e) + uncounted[e] =< RolesIn(ToSet(outstanding), e) + next[e]
    BY <1>5
  <2> QED BY <2>1 DEF UncountedSince
<1> QED BY <1>6, <1>7 DEF next, out

-----------------------------------------------------------------------------
(* The types.                                                              *)

LEMMA RequestChanges ==
    ASSUME TypeOK, NEW c \in Clients, NEW r \in RequestType,
           request' = [request EXCEPT ![c] = r]
    PROVE  /\ request' \in [Clients -> RequestType]
           /\ \A d \in Clients : request'[d] = IF d = c THEN r ELSE request[d]
BY DEF TypeOK

LEMMA RequestOps ==
    ASSUME TypeOK, NEW c \in Clients
    PROVE  /\ Idle \in RequestType
           /\ request[c].pc # "idle" => request[c].op \in Ops
           /\ request[c].pc \in {"reading", "rereading"} => request[c].low \in Nat
           /\ \A o \in Ops : /\ [pc |-> "checked", op |-> o] \in RequestType
                             /\ \A l \in Nat :
                                  /\ [pc |-> "reading", op |-> o, low |-> l] \in RequestType
                                  /\ [pc |-> "rereading", op |-> o, low |-> l] \in RequestType
<1>1. request[c] \in RequestType
  BY DEF TypeOK
<1> QED BY <1>1 DEF RequestType, Idle

\* A step that adds operations, if any, counts what it adds.
AddsUncounted ==
    /\ outstanding' \in Stores(Ops)
    /\ entries' \in EntriesType
    /\ SeenMore(entries, entries')
    /\ uncounted' \in [Addresses -> Nat]
    /\ \A e \in Addresses : UncountedSince(outstanding, outstanding', uncounted', e)

LEMMA UncountedAdds ==
    ASSUME TInv, NEW s \in Seq(Ops), AddAll(s), Uncount
    PROVE  AddsUncounted
<1>1. /\ outstanding' \in Stores(ToSet(outstanding) \cup ToSet(s))
      /\ entries' \in EntriesType /\ SeenMore(entries, entries')
  BY AddAllKeeps
<1>2. outstanding' \in Stores(Ops)
  <2>1. ToSet(outstanding') \in SUBSET Ops
    BY <1>1, StoreFinite
  <2> QED BY <1>1, <2>1 DEF Stores
<1> QED BY <1>1, <1>2, UncountAdds DEF AddsUncounted

LEMMA NothingAdded ==
    ASSUME TInv, UNCHANGED <<outstanding, uncounted, entries>>
    PROVE  AddsUncounted
<1>1. outstanding \in Stores(Ops)
  <2>1. ToSet(outstanding) \in SUBSET Ops
    BY OutstandingStore, StoreFinite
  <2> QED BY <2>1, OutstandingStore DEF Stores
<1>2. entries \in EntriesType /\ SeenMore(entries, entries)
  BY SeenNoMore DEF TInv, TypeOK, EntriesType
<1>3. ASSUME NEW e \in Addresses
      PROVE  RolesIn(ToSet(outstanding), e) + uncounted[e]
                 =< RolesIn(ToSet(outstanding), e) + uncounted[e]
  <2>1. RolesIn(ToSet(outstanding), e) \in Nat
    BY <1>1, StoreFinite, RolesSummedUp
  <2>2. uncounted[e] \in Nat
    BY DEF TInv, TypeOK
  <2> QED BY <2>1, <2>2
<1>4. uncounted \in [Addresses -> Nat]
  BY DEF TInv, TypeOK
<1> QED BY <1>1, <1>2, <1>3, <1>4 DEF AddsUncounted, UncountedSince

LEMMA JudgeKeeps ==
    ASSUME TInv, NEW c \in Clients, request[c].pc \in {"reading", "rereading"},
           NEW v \in Nat, NEW I \in SUBSET (1..Len(outstanding)), Judge(c, v, I)
    PROVE  /\ AddsUncounted
           /\ UNCHANGED entityCount
           /\ queue' \in Seq(Ops) /\ ToSet(queue) \subseteq ToSet(queue')
           /\ \E r \in RequestType :
                /\ request' = [request EXCEPT ![c] = r]
                /\ \/ r = Idle
                   \/ /\ NonceValue(request[c].op) = v + Cardinality(I)
                      /\ r = [pc |-> "validating", op |-> request[c].op, current |-> v,
                              ahead |-> {outstanding[i] : i \in I}]
<1> DEFINE o == request[c].op
           due == NonceValue(o) = v + Cardinality(I)
           r == [pc |-> "validating", op |-> o, current |-> v,
                 ahead |-> {outstanding[i] : i \in I}]
<1>1. /\ o \in Ops /\ Idle \in RequestType /\ queue \in Seq(Ops)
      /\ outstanding \in Seq(Ops)
  BY RequestOps DEF TInv, TypeOK
<1>2. Append(queue, o) \in Seq(Ops) /\ ToSet(Append(queue, o)) = ToSet(queue) \cup {o}
  BY <1>1, AppendElements
<1>3. CASE due /\ ~ dangerousSkipUserOperationValidation
  <2>1. /\ request' = [request EXCEPT ![c] = r]
        /\ UNCHANGED <<outstanding, queue, uncounted, reputationVars>>
    BY <1>3 DEF Judge
  <2>2. r \in RequestType
    <3>1. {outstanding[i] : i \in I} \in SUBSET Ops
      BY <1>1
    <3> HIDE DEF o
    <3> QED BY <1>1, <3>1 DEF RequestType
  <2>3. AddsUncounted
    BY <2>1, NothingAdded DEF reputationVars
  <2>4. queue' = queue /\ entityCount' = entityCount
    BY <2>1 DEF reputationVars
  <2> QED BY <1>1, <1>3, <2>1, <2>2, <2>3, <2>4
<1>4. CASE ~ (due /\ ~ dangerousSkipUserOperationValidation)
  <2>1. /\ request' = [request EXCEPT ![c] = Idle]
        /\ queue' = queue \/ queue' = Append(queue, o)
    BY <1>4 DEF Judge
  <2>2. \/ AddAll(<<o>>) /\ Uncount /\ UNCHANGED entityCount
        \/ UNCHANGED <<outstanding, uncounted, reputationVars>>
    BY <1>4 DEF Judge
  <2>3. <<o>> \in Seq(Ops)
    BY <1>1
  <2> HIDE DEF o
  <2>4. AddsUncounted /\ UNCHANGED entityCount
    BY <2>2, <2>3, UncountedAdds, NothingAdded DEF reputationVars
  <2>5. queue' \in Seq(Ops) /\ ToSet(queue) \subseteq ToSet(queue')
    BY <1>1, <1>2, <2>1
  <2> QED BY <1>1, <2>1, <2>4, <2>5
<1> QED BY <1>3, <1>4

\* r is what a request about o becomes when its nonce is due: as many positions
\* with nonces from v on lie before it as there are nonces from v to its own.
Validated(o, r) ==
    \E v \in Nat, from \in Nat :
        /\ from >= v
        /\ \E I \in SUBSET getQueuedUserOperations(o, from) :
            /\ NonceValue(o) = v + Cardinality(I)
            /\ r = [pc |-> "validating", op |-> o, current |-> v,
                    ahead |-> {outstanding[i] : i \in I}]

LEMMA NonceReadKeeps ==
    ASSUME TInv, NEW c \in Clients, NonceRead(c) \/ NonceReadAgain(c)
    PROVE  /\ AddsUncounted
           /\ UNCHANGED entityCount
           /\ queue' \in Seq(Ops) /\ ToSet(queue) \subseteq ToSet(queue')
           /\ request[c].pc \in {"reading", "rereading"}
           /\ \E r \in RequestType :
                /\ request' = [request EXCEPT ![c] = r]
                /\ r.pc # "checked"
                /\ r.pc = "validating" => Validated(request[c].op, r)
<1> DEFINE o == request[c].op
           low == request[c].low
           At(from) == getQueuedUserOperations(o, from)
<1>1. /\ request[c].pc \in {"reading", "rereading"} /\ o \in Ops /\ low \in Nat
      /\ Idle \in RequestType /\ queue \in Seq(Ops)
      /\ outstanding \in Seq(Ops)
      /\ nonce \in [Slots -> Nat] /\ Slot(o) \in Slots
  <2>1. request[c].pc \in {"reading", "rereading"}
    BY DEF NonceRead, NonceReadAgain
  <2>2. o \in Ops /\ low \in Nat
    BY <2>1, RequestOps DEF TInv
  <2> QED BY <2>1, <2>2, RequestOps, RolesType DEF TInv, TypeOK
<1>2. /\ Idle.pc = "idle" /\ nonce[Slot(o)] \in Nat
      /\ \A from : At(from) \in SUBSET (1..Len(outstanding))
  BY <1>1 DEF Idle, getQueuedUserOperations
<1> HIDE DEF At, o, low
<1>3. ASSUME NEW v \in Nat, NEW from \in Nat, from >= v, NEW I \in SUBSET At(from),
             Judge(c, v, I)
      PROVE  /\ AddsUncounted
             /\ UNCHANGED entityCount
             /\ queue' \in Seq(Ops) /\ ToSet(queue) \subseteq ToSet(queue')
             /\ \E r \in RequestType :
                  /\ request' = [request EXCEPT ![c] = r]
                  /\ r.pc # "checked"
                  /\ r.pc = "validating" => Validated(o, r)
  <2>1. I \in SUBSET (1..Len(outstanding))
    BY <1>2
  <2>2. /\ AddsUncounted /\ UNCHANGED entityCount
        /\ queue' \in Seq(Ops) /\ ToSet(queue) \subseteq ToSet(queue')
        /\ \E r \in RequestType :
             /\ request' = [request EXCEPT ![c] = r]
             /\ \/ r = Idle
                \/ /\ NonceValue(o) = v + Cardinality(I)
                   /\ r = [pc |-> "validating", op |-> o, current |-> v,
                           ahead |-> {outstanding[i] : i \in I}]
    BY <1>1, <1>3, <2>1, JudgeKeeps DEF o
  <2>3. PICK r \in RequestType :
             /\ request' = [request EXCEPT ![c] = r]
             /\ \/ r = Idle
                \/ /\ NonceValue(o) = v + Cardinality(I)
                   /\ r = [pc |-> "validating", op |-> o, current |-> v,
                           ahead |-> {outstanding[i] : i \in I}]
    BY <2>2
  <2>4. r.pc # "checked" /\ (r.pc = "validating" => r # Idle)
    BY <1>2, <2>3
  <2> QED BY <1>3, <2>2, <2>3, <2>4 DEF Validated, At
<1>4. CASE NonceRead(c)
  <2>1. PICK v \in low..nonce[Slot(o)] :
            \/ /\ \E r \in {Idle, [pc |-> "rereading", op |-> o, low |-> nonce[Slot(o)]]} :
                      request' = [request EXCEPT ![c] = r]
               /\ UNCHANGED <<outstanding, queue, uncounted, reputationVars>>
            \/ \E I \in {At(v), {}} : Judge(c, v, I)
    BY <1>4 DEF NonceRead, At, o, low
  <2>2. v \in Nat /\ v >= v
    BY <1>1, <1>2, <2>1
  <2>3. CASE /\ \E r \in {Idle, [pc |-> "rereading", op |-> o, low |-> nonce[Slot(o)]]} :
                    request' = [request EXCEPT ![c] = r]
             /\ UNCHANGED <<outstanding, queue, uncounted, reputationVars>>
    <3>1. PICK r \in {Idle, [pc |-> "rereading", op |-> o, low |-> nonce[Slot(o)]]} :
                request' = [request EXCEPT ![c] = r]
      BY <2>3
    <3>2. r \in RequestType /\ r.pc \notin {"checked", "validating"}
      <4> DEFINE q == [pc |-> "rereading", op |-> o, low |-> nonce[Slot(o)]]
      <4>1. q \in RequestType
        BY <1>1, <1>2, RequestOps DEF TInv
      <4>2. q.pc = "rereading"
        OBVIOUS
      <4> HIDE DEF q
      <4>3. r = Idle \/ r = q
        BY <3>1 DEF q
      <4> QED BY <1>1, <1>2, <4>1, <4>2, <4>3
    <3>3. AddsUncounted /\ UNCHANGED <<entityCount, queue>>
      BY <2>3, NothingAdded DEF reputationVars
    <3> QED BY <1>1, <3>1, <3>2, <3>3
  <2>4. CASE \E I \in {At(v), {}} : Judge(c, v, I)
    <3>1. PICK I \in {At(v), {}} : Judge(c, v, I)
      BY <2>4
    <3>2. I \in SUBSET At(v)
      BY <3>1
    <3>3. /\ AddsUncounted
          /\ UNCHANGED entityCount
          /\ queue' \in Seq(Ops) /\ ToSet(queue) \subseteq ToSet(queue')
          /\ \E r \in RequestType :
               /\ request' = [request EXCEPT ![c] = r]
               /\ r.pc # "checked"
               /\ r.pc = "validating" => Validated(o, r)
      BY <1>3, <2>2, <3>1, <3>2
    <3> QED BY <1>1, <3>3 DEF o
  <2> QED BY <2>1, <2>3, <2>4
<1>5. CASE NonceReadAgain(c)
  <2>1. PICK w \in low..nonce[Slot(o)] : Judge(c, 0, At(w))
    BY <1>5 DEF NonceReadAgain, At, o, low
  <2>2. w \in Nat /\ w >= 0 /\ 0 \in Nat /\ At(w) \in SUBSET At(w)
    BY <1>1, <1>2, <2>1
  <2>3. /\ AddsUncounted
        /\ UNCHANGED entityCount
        /\ queue' \in Seq(Ops) /\ ToSet(queue) \subseteq ToSet(queue')
        /\ \E r \in RequestType :
             /\ request' = [request EXCEPT ![c] = r]
             /\ r.pc # "checked"
             /\ r.pc = "validating" => Validated(o, r)
    BY <1>3, <2>1, <2>2
  <2> QED BY <1>1, <2>3 DEF o
<1> QED BY <1>4, <1>5

LEMMA IncludedKeeps ==
    ASSUME entries \in EntriesType, NEW o \in Ops, NEW accountDeployed,
           updateUserOperationIncludedStatus(o, accountDeployed)
    PROVE  /\ entries' \in EntriesType
           /\ \A ep \in EntryPoints, e \in Addresses :
                  /\ entries'[ep][e].opsSeen = entries[ep][e].opsSeen
                  /\ entries[ep][e].opsIncluded =< entries'[ep][e].opsIncluded
<1> DEFINE ep == EntryPoint(o)
           more(e) == Roles(o, e)
                        - (IF userOp[o].factory = e /\ ~ accountDeployed THEN 1 ELSE 0)
           row == [e \in Addresses |->
                      [entries[ep][e] EXCEPT !.opsIncluded = @ + Roles(o, e)
                        - (IF userOp[o].factory = e /\ ~ accountDeployed THEN 1 ELSE 0)]]
           es == entries'
<1>1. ep \in EntryPoints
  BY RolesType
<1>2. es = IF safeMode THEN [entries EXCEPT ![ep] = row] ELSE entries
  BY DEF updateUserOperationIncludedStatus, WithEntries
<1>3. \A e \in Addresses : /\ row[e] \in ReputationEntry
                           /\ row[e].opsSeen = entries[ep][e].opsSeen
                           /\ entries[ep][e].opsIncluded =< row[e].opsIncluded
  <2> SUFFICES ASSUME NEW e \in Addresses
               PROVE  /\ row[e] \in ReputationEntry
                      /\ row[e].opsSeen = entries[ep][e].opsSeen
                      /\ entries[ep][e].opsIncluded =< row[e].opsIncluded
    OBVIOUS
  <2> DEFINE r == entries[ep][e]
             d == IF userOp[o].factory = e /\ ~ accountDeployed THEN 1 ELSE 0
             n == r.opsIncluded + Roles(o, e) - d
  <2>1. r \in ReputationEntry
    BY <1>1 DEF EntriesType
  <2>2. r.opsIncluded \in Nat /\ n \in Nat /\ r.opsIncluded =< n
    <3>1. r.opsIncluded \in Nat
      BY <2>1 DEF ReputationEntry
    <3>2. Roles(o, e) \in Nat /\ d \in {0, 1} /\ d =< Roles(o, e)
      BY RolesType
    <3> HIDE DEF r, d
    <3> QED BY <3>1, <3>2
  <2>3. row[e] = [r EXCEPT !.opsIncluded = n]
    OBVIOUS
  <2> HIDE DEF r, n, row
  <2>4. /\ row[e] \in ReputationEntry /\ row[e].opsSeen = r.opsSeen
        /\ row[e].opsIncluded = n
    BY <2>1, <2>2, <2>3 DEF ReputationEntry
  <2> QED BY <2>2, <2>4 DEF r
<1>4. row \in [Addresses -> ReputationEntry]
  BY <1>3
<1> HIDE DEF row, ep, es
<1>5. es \in EntriesType
  BY <1>1, <1>2, <1>4 DEF EntriesType
<1>6. ASSUME NEW q \in EntryPoints, NEW e \in Addresses
      PROVE  /\ es[q][e].opsSeen = entries[q][e].opsSeen
             /\ entries[q][e].opsIncluded =< es[q][e].opsIncluded
  <2>1. entries[q][e].opsIncluded \in Nat
    BY DEF EntriesType, ReputationEntry
  <2>2. es[q] = IF safeMode /\ q = ep THEN row ELSE entries[q]
    BY <1>2 DEF EntriesType
  <2> QED BY <1>3, <2>1, <2>2
<1> QED BY <1>5, <1>6 DEF es

LEMMA CrashedKeeps ==
    ASSUME entries \in EntriesType, NEW o \in Ops, NEW reason, crashedHandleOps(o, reason)
    PROVE  /\ entries' \in EntriesType
           /\ \A ep \in EntryPoints, e \in Addresses :
                  \/ entries'[ep][e] = entries[ep][e]
                  \/ entries'[ep][e] = [opsSeen |-> crashedOpsSeen, opsIncluded |-> 0]
<1> DEFINE ep == EntryPoint(o)
           row == [e \in Addresses |->
                      IF e = Accused(o, reason) THEN updateCrashedHandleOps(entries[ep][e])
                      ELSE entries[ep][e]]
           es == entries'
<1>1. ep \in EntryPoints
  BY RolesType
<1>2. es = IF safeMode THEN [entries EXCEPT ![ep] = row] ELSE entries
  BY DEF crashedHandleOps, WithEntries
<1>3. \A e \in Addresses : /\ row[e] \in ReputationEntry
                           /\ \/ row[e] = entries[ep][e]
                              \/ row[e] = [opsSeen |-> crashedOpsSeen, opsIncluded |-> 0]
  <2>1. \A e \in Addresses : entries[ep][e] \in ReputationEntry
    BY <1>1 DEF EntriesType
  <2>2. [opsSeen |-> crashedOpsSeen, opsIncluded |-> 0] \in ReputationEntry
    BY ReputationAssumption DEF ReputationEntry
  <2> QED BY <2>1, <2>2 DEF updateCrashedHandleOps
<1>4. row \in [Addresses -> ReputationEntry]
  BY <1>3
<1> HIDE DEF row, ep, es
<1>5. es \in EntriesType
  BY <1>1, <1>2, <1>4 DEF EntriesType
<1>6. ASSUME NEW q \in EntryPoints, NEW e \in Addresses
      PROVE  \/ es[q][e] = entries[q][e]
             \/ es[q][e] = [opsSeen |-> crashedOpsSeen, opsIncluded |-> 0]
  <2>1. es[q] = IF safeMode /\ q = ep THEN row ELSE entries[q]
    BY <1>2 DEF EntriesType
  <2> QED BY <1>3, <2>1
<1> QED BY <1>5, <1>6 DEF es

\* What a request that passed its checks adds.
LEMMA AddCheckedKeeps ==
    ASSUME TInv, NEW c \in Clients, AddChecked(c)
    PROVE  /\ request[c].pc = "checked" /\ request[c].op \in Ops
           /\ request' = [request EXCEPT ![c] = Idle]
           /\ outstanding' \in Stores(ToSet(outstanding) \cup {request[c].op})
           /\ entries' \in EntriesType /\ SeenMore(entries, entries')
           /\ UNCHANGED <<queue, uncounted, entityCount, nonce, busy, process, screening>>
<1> DEFINE o == request[c].op
           s == IF MultipleRoleViolation(o) THEN <<>> ELSE <<o>>
<1>1. /\ request[c].pc = "checked" /\ request' = [request EXCEPT ![c] = Idle]
      /\ UNCHANGED <<queue, uncounted, entityCount, nonce, busy, process, screening>>
      /\ AddAll(s)
  BY DEF AddChecked
<1>2. o \in Ops
  BY <1>1, RequestOps DEF TInv
<1>3. s \in Seq(Ops) /\ ToSet(s) \subseteq {o}
  BY <1>2 DEF ToSet
<1> HIDE DEF s, o
<1>4. /\ outstanding' \in Stores(ToSet(outstanding) \cup ToSet(s))
      /\ entries' \in EntriesType /\ SeenMore(entries, entries')
  BY <1>1, <1>3, AddAllKeeps
<1>5. outstanding' \in Stores(ToSet(outstanding) \cup {o})
  BY <1>3, <1>4 DEF Stores
<1> QED BY <1>1, <1>2, <1>4, <1>5 DEF o

\* What a call of the nonce queue's process() releases.
LEMMA FetchedKeeps ==
    ASSUME TInv, NEW p \in Processes, Fetched(p)
    PROVE  /\ process[p].pc = "fetching" /\ process[p].snapshot \in Seq(Ops)
           /\ process' = [process EXCEPT ![p] = Idle]
           /\ AddsUncounted
           /\ queue' \in Seq(Ops)
           /\ ToSet(queue) \ ToSet(queue') \subseteq ToSet(process[p].snapshot)
           /\ UNCHANGED <<nonce, busy, request, screening, entityCount>>
<1> DEFINE s == process[p].snapshot
<1>1. /\ process[p].pc = "fetching" /\ process' = [process EXCEPT ![p] = Idle]
      /\ UNCHANGED <<nonce, busy, request, screening, entityCount>>
      /\ queue \in Seq(Ops) /\ process[p] \in ProcessType
  BY DEF Fetched, TInv, TypeOK
<1>2. s \in Seq(Ops)
  BY <1>1 DEF ProcessType, Idle
<1>3. PICK ready \in SUBSET DOMAIN s : Release(p, Selected(s, ready))
  BY DEF Fetched
<1>4. /\ Selected(s, ready) \in Seq(Ops)
      /\ ToSet(Selected(s, ready)) \subseteq ToSet(s)
  <2>1. ready \in SUBSET (1..Len(s))
    BY <1>2
  <2> HIDE DEF s
  <2>2. Selected(s, ready) \in Seq(Ops) /\ ToSet(Selected(s, ready)) = {s[i] : i \in ready}
    BY <1>2, <2>1, SelectedElements
  <2> QED BY <1>2, <2>1, <2>2, SequenceElements
<1> DEFINE available == Selected(s, ready)
<1>5. queue' = Without(queue, ToSet(available)) /\ AddAll(available) /\ Uncount
  BY <1>3 DEF Release, QueueWithout
<1> HIDE DEF available, s
<1>6. queue' \in Seq(Ops) /\ ToSet(queue') = ToSet(queue) \ ToSet(available)
  BY <1>1, <1>5, WithoutElements
<1>7. AddsUncounted
  BY <1>4, <1>5, UncountedAdds DEF available
<1> QED BY <1>1, <1>2, <1>4, <1>6, <1>7 DEF available, s

LEMMA RemovedKeeps ==
    ASSUME TInv, NEW o
    PROVE  /\ RemoveFirst(outstanding, o) \in Stores(ToSet(outstanding))
           /\ ToSet(RemoveFirst(outstanding, o)) = ToSet(outstanding) \ {o}
<1> DEFINE out == RemoveFirst(outstanding, o)
<1>1. /\ outstanding \in Seq(Ops) /\ IsInjective(outstanding)
      /\ AddInv(ToSet(outstanding), Ops) /\ IsFiniteSet(ToSet(outstanding))
  BY OutstandingStore, StoreFinite
<1>2. /\ out \in Seq(Ops) /\ IsInjective(out)
      /\ ToSet(out) = ToSet(outstanding) \ {o}
  BY <1>1, RemoveFirstProperties
<1>3. AddInv(ToSet(out), Ops)
  <2>1. ToSet(out) \in SUBSET ToSet(outstanding)
    BY <1>2
  <2> HIDE DEF out
  <2>2. Ops \in SUBSET Ops
    OBVIOUS
  <2> QED BY <1>1, <2>1, <2>2, FewerOps
<1> QED BY <1>2, <1>3 DEF Stores

\* decreaseUserOperationCount takes off what it can.
LEMMA DecreasedCount ==
    ASSUME entityCount \in [Addresses -> Nat], NEW o \in Ops, decreaseUserOperationCount(o)
    PROVE  /\ entityCount' \in [Addresses -> Nat]
           /\ \A e \in Addresses : entityCount[e] =< entityCount'[e] + Roles(o, e)
<1>1. \A e \in Addresses :
          /\ entityCount[e] \in Nat /\ Roles(o, e) \in Nat
          /\ entityCount'[e] = IF ~ safeMode THEN entityCount[e]
                               ELSE IF entityCount[e] > Roles(o, e)
                               THEN entityCount[e] - Roles(o, e) ELSE 0
  BY RolesType DEF decreaseUserOperationCount
<1>2. \A e \in Addresses :
          (IF entityCount[e] > Roles(o, e) THEN entityCount[e] - Roles(o, e) ELSE 0) \in Nat
  BY <1>1
<1>3. entityCount' \in [Addresses -> Nat]
  BY <1>2 DEF decreaseUserOperationCount
<1>4. ASSUME NEW e \in Addresses
      PROVE  entityCount[e] =< entityCount'[e] + Roles(o, e)
  <2>1. CASE entityCount[e] > Roles(o, e)
    BY <1>1, <2>1
  <2>2. CASE ~ entityCount[e] > Roles(o, e)
    BY <1>1, <2>2
  <2> QED BY <2>1, <2>2
<1> QED BY <1>3, <1>4

LEMMA TakenKeeps ==
    ASSUME TInv, NEW o \in Ops, Taken(o)
    PROVE  /\ outstanding' \in Stores(ToSet(outstanding))
           /\ ToSet(outstanding') = ToSet(outstanding) \ {o}
           /\ entityCount' \in [Addresses -> Nat]
           /\ uncounted' \in [Addresses -> Nat]
           /\ \A e \in Addresses :
                /\ entityCount[e] =< entityCount'[e] + Roles(o, e)
                /\ uncounted'[e] = uncounted[e] + (IF o \in ToSet(outstanding) THEN 0
                                                   ELSE Roles(o, e))
<1>1. /\ entityCount \in [Addresses -> Nat] /\ decreaseUserOperationCount(o)
      /\ outstanding' = RemoveFirst(outstanding, o)
      /\ uncounted' = [e \in Addresses |->
             uncounted[e] + (IF o \in ToSet(outstanding) THEN 0 ELSE Roles(o, e))]
  BY DEF Taken, TInv, TypeOK
<1>2. \A e \in Addresses : uncounted[e] \in Nat /\ Roles(o, e) \in Nat
  BY RolesType DEF TInv, TypeOK
<1>3. \A e \in Addresses :
          uncounted[e] + (IF o \in ToSet(outstanding) THEN 0 ELSE Roles(o, e)) \in Nat
  BY <1>2
<1> QED BY <1>1, <1>3, DecreasedCount, RemovedKeeps

LEMMA ResubmittedKeeps ==
    ASSUME TInv, NEW o \in Ops, Resubmitted(o)
    PROVE  AddsUncounted
<1> DEFINE rest == busy \ {o}
<1>1. /\ outstanding' = OutstandingAfterAdd(o, outstanding, rest)
      /\ entries' \in {entries, Seen(entries, o)}
      /\ Uncount
  BY DEF Resubmitted
<1> HIDE DEF rest
<1>2. outstanding \in Stores(Ops)
  <2>1. ToSet(outstanding) \in SUBSET Ops
    BY OutstandingStore, StoreFinite
  <2> QED BY <2>1, OutstandingStore DEF Stores
<1>3. outstanding' \in Stores(Ops)
  BY <1>1, <1>2, AddOne
<1>4. entries \in EntriesType /\ SeenMore(entries, entries)
  BY SeenNoMore DEF TInv, TypeOK, EntriesType
<1>5. Seen(entries, o) \in EntriesType /\ SeenMore(entries, Seen(entries, o))
  BY <1>4, SeenType
<1>6. /\ uncounted' \in [Addresses -> Nat]
      /\ \A e \in Addresses : UncountedSince(outstanding, outstanding', uncounted', e)
  BY <1>1, <1>3, UncountAdds
<1> QED BY <1>1, <1>3, <1>4, <1>5, <1>6 DEF AddsUncounted

LEMMA TickKeeps ==
    ASSUME TInv, NEW p \in Processes, Tick(p)
    PROVE  /\ queue' \in Seq(Ops) /\ IsSuffix(queue', queue)
           /\ process' \in [Processes -> ProcessType]
<1>1. PICK k \in 0..Len(queue) :
        /\ queue' = SubSeq(queue, k + 1, Len(queue))
        /\ process' = [process EXCEPT ![p] =
               IF queue' = <<>> THEN Idle
               ELSE [pc |-> "fetching", snapshot |-> queue', low |-> nonce]]
  BY DEF Tick
<1> DEFINE q == queue'
<1>2. queue \in Seq(Ops) /\ nonce \in [Slots -> Nat] /\ process \in [Processes -> ProcessType]
  BY DEF TInv, TypeOK
<1>3. q \in Seq(Ops) /\ IsSuffix(q, queue)
  BY <1>1, <1>2, YoungerKept
<1>4. process' = [process EXCEPT ![p] =
               IF q = <<>> THEN Idle
               ELSE [pc |-> "fetching", snapshot |-> q, low |-> nonce]]
  BY <1>1
<1> HIDE DEF q
<1>5. process' \in [Processes -> ProcessType]
  <2>1. [pc |-> "fetching", snapshot |-> q, low |-> nonce] \in ProcessType /\ Idle \in ProcessType
    BY <1>2, <1>3 DEF ProcessType
  <2> QED BY <1>2, <1>4, <2>1
<1> QED BY <1>3, <1>5 DEF q

-----------------------------------------------------------------------------
(* Type correctness, and what add() keeps.                                 *)

LEMMA NothingLeft ==
    IsInjective(<<>>) /\ AddInv(ToSet(<<>>), Ops) /\ ToSet(<<>>) = {}
<1>1. <<>> \in Seq(Ops) /\ IsInjective(<<>>) /\ ToSet(<<>>) = {}
  BY DEF IsInjective, ToSet
<1>2. \A o \in Ops : OfSender({}, o) = {} /\ OfKey({}, o) = {}
  BY DEF OfSender, OfKey
<1>3. Cardinality({}) = 0
  BY FS_EmptySet
<1>4. AddInv({}, Ops)
  BY <1>2, <1>3, AddAssumption DEF AddInv, NoRivals, Limited
<1> QED BY <1>1, <1>4

LEMMA InitTypes == Init => TInv
<1> SUFFICES ASSUME Init PROVE TInv
  OBVIOUS
<1>1. <<>> \in Seq(Ops)
  OBVIOUS
<1>2. entries \in EntriesType
  BY DEF Init, NoEntries, EntriesType, ReputationEntry
<1>3. Idle \in RequestType /\ Idle \in ProcessType
  BY DEF RequestType, ProcessType
<1> QED BY <1>1, <1>2, <1>3, NothingLeft DEF Init, TInv, TypeOK, OutstandingInv, EntriesType

LEMMA StoreKept ==
    ASSUME NEW S, outstanding' \in Stores(S)
    PROVE  outstanding' \in Seq(Ops) /\ OutstandingInv'
BY DEF Stores, OutstandingInv

\* The steps of a request.
LEMMA RequestTypes ==
    ASSUME TInv, NEW c \in Clients, Request(c)
    PROVE  TInv'
<1> USE DEF TInv
<1>1. ASSUME NEW o \in Ops, Receive(c, o)
      PROVE  TInv'
  <2> DEFINE r == [pc |-> "reading", op |-> o, low |-> nonce[Slot(o)]]
  <2>1. request' = [request EXCEPT ![c] = r] /\ UNCHANGED <<nonce, outstanding, busy,
            queue, process, screening, uncounted, reputationVars>>
    BY <1>1 DEF Receive
  <2>2. nonce[Slot(o)] \in Nat
    BY RolesType DEF TypeOK
  <2>3. r \in RequestType
    BY <2>2, RequestOps
  <2> HIDE DEF r
  <2>4. request' \in [Clients -> RequestType]
    BY <2>1, <2>3, RequestChanges
  <2> QED BY <2>1, <2>4 DEF TypeOK, OutstandingInv, reputationVars
<1>2. CASE Throws(c)
  <2>1. request' = [request EXCEPT ![c] = Idle]
    BY <1>2 DEF Throws
  <2>2. request' \in [Clients -> RequestType]
    BY <2>1, RequestOps, RequestChanges
  <2> QED BY <1>2, <2>2 DEF Throws, TypeOK, OutstandingInv, reputationVars
<1>3. CASE NonceRead(c) \/ NonceReadAgain(c)
  <2>1. AddsUncounted /\ UNCHANGED entityCount /\ queue' \in Seq(Ops)
    BY <1>3, NonceReadKeeps
  <2>2. PICK r \in RequestType : request' = [request EXCEPT ![c] = r]
    BY <1>3, NonceReadKeeps
  <2>3. request' \in [Clients -> RequestType]
    BY <2>2, RequestChanges
  <2>4. UNCHANGED <<nonce, busy, process, screening>>
    BY <1>3 DEF NonceRead, NonceReadAgain
  <2>5. outstanding' \in Seq(Ops) /\ OutstandingInv'
    BY <2>1, StoreKept DEF AddsUncounted
  <2> QED BY <2>1, <2>3, <2>4, <2>5 DEF TypeOK, AddsUncounted, EntriesType
<1>4. CASE checkReputation(c)
  <2> DEFINE o == request[c].op
             r == IF Reputable(o, entityCount') THEN [pc |-> "checked", op |-> o] ELSE Idle
  <2>1. /\ request[c].pc = "validating" /\ increaseUserOperationCount(o)
        /\ request' = [request EXCEPT ![c] = r]
        /\ UNCHANGED <<nonce, outstanding, busy, queue, process, screening, uncounted,
                       entries>>
    BY <1>4 DEF checkReputation
  <2>2. o \in Ops /\ r \in RequestType
    BY <2>1, RequestOps
  <2> HIDE DEF r, o
  <2>3. request' \in [Clients -> RequestType]
    BY <2>1, <2>2, RequestChanges
  <2>4. entityCount' \in [Addresses -> Nat]
    <3>1. \A e \in Addresses : entityCount[e] + Roles(o, e) \in Nat
      BY <2>2, RolesType DEF TypeOK
    <3>2. entityCount \in [Addresses -> Nat]
      BY DEF TypeOK
    <3>3. CASE safeMode
      BY <2>1, <3>1, <3>3 DEF increaseUserOperationCount
    <3>4. CASE ~ safeMode
      BY <2>1, <3>2, <3>4 DEF increaseUserOperationCount
    <3> QED BY <3>3, <3>4
  <2> QED BY <2>1, <2>3, <2>4 DEF TypeOK, OutstandingInv
<1>5. CASE AddChecked(c)
  <2>1. /\ request' = [request EXCEPT ![c] = Idle]
        /\ outstanding' \in Stores(ToSet(outstanding) \cup {request[c].op})
        /\ entries' \in EntriesType
        /\ UNCHANGED <<queue, uncounted, entityCount, nonce, busy, process, screening>>
    BY <1>5, AddCheckedKeeps
  <2>2. request' \in [Clients -> RequestType]
    BY <2>1, RequestOps, RequestChanges
  <2>3. outstanding' \in Seq(Ops) /\ OutstandingInv'
    BY <2>1, StoreKept
  <2> QED BY <2>1, <2>2, <2>3 DEF TypeOK, EntriesType
<1> QED BY <1>1, <1>2, <1>3, <1>4, <1>5 DEF Request

\* What the rest of the bundler does with an operation.
LEMMA BundlerTypes ==
    ASSUME TInv, NEW o \in Ops, Bundler(o)
    PROVE  TInv'
<1>0. TypeOK /\ OutstandingInv /\ entries \in EntriesType
  BY DEF TInv, TypeOK, EntriesType
<1>1. screening' \in {screening, screening \ {o}} => screening' \in SUBSET Ops
  BY <1>0 DEF TypeOK
<1>2. busy \cup {o} \in SUBSET Ops /\ busy \ {o} \in SUBSET Ops
  BY <1>0 DEF TypeOK
<1>3. CASE Taken(o)
  <2>1. /\ outstanding' \in Stores(ToSet(outstanding))
        /\ entityCount' \in [Addresses -> Nat] /\ uncounted' \in [Addresses -> Nat]
    BY <1>3, TakenKeeps
  <2>2. outstanding' \in Seq(Ops) /\ OutstandingInv'
    BY <2>1, StoreKept
  <2> QED BY <1>0, <1>1, <1>2, <1>3, <2>1, <2>2 DEF Taken, Leaves, TInv, TypeOK
<1>4. CASE Screened(o)
  <2>1. outstanding' \in Stores(ToSet(outstanding))
    BY <1>4, RemovedKeeps DEF Screened
  <2>2. outstanding' \in Seq(Ops) /\ OutstandingInv'
    BY <2>1, StoreKept
  <2> QED BY <1>0, <1>1, <1>4, <2>2 DEF Screened, Leaves, TInv, TypeOK, reputationVars
<1>5. CASE Executed(o)
  <2>1. nonce' = [nonce EXCEPT ![Slot(o)] = nonce[Slot(o)] + 1]
    BY <1>5 DEF Executed
  <2>2. nonce' \in [Slots -> Nat]
    BY <1>0, <2>1, RolesType DEF TypeOK
  <2> QED BY <1>0, <1>5, <2>2 DEF Executed, TInv, TypeOK, OutstandingInv, reputationVars
<1>6. CASE Included(o)
  <2>1. entries' \in EntriesType
    BY <1>0, <1>6, IncludedKeeps DEF Included
  <2> QED BY <1>0, <1>2, <1>6, <2>1 DEF Included, TInv, TypeOK, OutstandingInv, EntriesType
<1>7. CASE Crashed(o)
  <2>1. entries' \in EntriesType
    BY <1>0, <1>7, CrashedKeeps DEF Crashed
  <2> QED BY <1>0, <1>7, <2>1 DEF Crashed, TInv, TypeOK, OutstandingInv, EntriesType
<1>8. CASE Rejected(o)
  BY <1>0, <1>2, <1>8 DEF Rejected, TInv, TypeOK, OutstandingInv, reputationVars
<1>9. CASE Resubmitted(o)
  <2>1. AddsUncounted
    BY <1>9, ResubmittedKeeps
  <2>2. outstanding' \in Seq(Ops) /\ OutstandingInv'
    BY <2>1, StoreKept DEF AddsUncounted
  <2>3. UNCHANGED <<nonce, queue, request, process, screening, entityCount>>
        /\ busy' \in SUBSET Ops
    BY <1>2, <1>9 DEF Resubmitted
  <2> QED BY <1>0, <2>1, <2>2, <2>3 DEF AddsUncounted, TInv, TypeOK, EntriesType
<1> QED BY <1>3, <1>4, <1>5, <1>6, <1>7, <1>8, <1>9 DEF Bundler

LEMMA SetReputationKeeps ==
    ASSUME entries \in EntriesType, NEW ep \in EntryPoints, NEW e \in Addresses,
           NEW r \in SetReputations, setReputation(ep, e, r)
    PROVE  entries' \in EntriesType
<1>1. r \in ReputationEntry
  BY AdmissionAssumption
<1>2. [entries[ep] EXCEPT ![e] = r] \in [Addresses -> ReputationEntry]
  BY <1>1 DEF EntriesType
<1> QED BY <1>2 DEF setReputation, EntriesType

LEMMA DebugTypes ==
    ASSUME TInv, Debug
    PROVE  TInv'
<1>0. TypeOK /\ OutstandingInv /\ entries \in EntriesType
  BY DEF TInv, TypeOK, EntriesType
<1>1. NoEntries \in EntriesType
  BY DEF NoEntries, EntriesType, ReputationEntry
<1>2. [e \in Addresses |-> 0] \in [Addresses -> Nat] /\ <<>> \in Seq(Ops)
  OBVIOUS
<1>3. CASE debug_bundler_clearState
  BY <1>0, <1>1, <1>2, <1>3, NothingLeft
     DEF debug_bundler_clearState, clearEntityCount, TInv, TypeOK, OutstandingInv, EntriesType
<1>4. CASE debug_bundler_clearMempool
  BY <1>0, <1>2, <1>4, NothingLeft
     DEF debug_bundler_clearMempool, clearEntityCount, TInv, TypeOK, OutstandingInv
<1>5. CASE debug_bundler_setReputation
  <2>1. entries' \in EntriesType
    BY <1>0, <1>5, SetReputationKeeps DEF debug_bundler_setReputation
  <2> QED BY <1>0, <1>5, <2>1
          DEF debug_bundler_setReputation, TInv, TypeOK, OutstandingInv, EntriesType
<1> QED BY <1>3, <1>4, <1>5 DEF Debug

LEMMA NextTypes == TInv /\ [Next]_vars => TInv'
<1> SUFFICES ASSUME TInv, [Next]_vars PROVE TInv'
  OBVIOUS
<1>0. TypeOK /\ OutstandingInv
  BY DEF TInv
<1>1. ASSUME NEW p \in Processes, Tick(p)
      PROVE  TInv'
  <2>1. queue' \in Seq(Ops) /\ process' \in [Processes -> ProcessType]
    BY <1>1, TickKeeps
  <2> QED BY <1>0, <1>1, <2>1 DEF Tick, TInv, TypeOK, OutstandingInv, reputationVars
<1>2. ASSUME NEW p \in Processes, Fetched(p)
      PROVE  TInv'
  <2>1. /\ process' = [process EXCEPT ![p] = Idle] /\ AddsUncounted /\ queue' \in Seq(Ops)
        /\ UNCHANGED <<nonce, busy, request, screening, entityCount>>
    BY <1>2, FetchedKeeps
  <2>2. outstanding' \in Seq(Ops) /\ OutstandingInv'
    BY <2>1, StoreKept DEF AddsUncounted
  <2>3. process' \in [Processes -> ProcessType]
    BY <1>0, <2>1 DEF TypeOK, ProcessType
  <2> QED BY <1>0, <2>1, <2>2, <2>3 DEF AddsUncounted, TInv, TypeOK, EntriesType
<1>3. CASE Started
  <2>1. ToSet(outstanding) \subseteq Ops
    BY <1>0, SequenceElements DEF TypeOK
  <2>2. screening' \in SUBSET Ops
    BY <1>0, <1>3, <2>1 DEF Started, TypeOK
  <2> QED BY <1>0, <1>3, <2>2 DEF Started, TInv, TypeOK, OutstandingInv, reputationVars
<1>4. ASSUME NEW s \in Slots, UsedElsewhere(s)
      PROVE  TInv'
  <2>1. nonce' = [nonce EXCEPT ![s] = nonce[s] + 1]
    BY <1>4 DEF UsedElsewhere
  <2>2. nonce' \in [Slots -> Nat]
    BY <1>0, <2>1 DEF TypeOK
  <2> QED BY <1>0, <1>4, <2>2 DEF UsedElsewhere, TInv, TypeOK, OutstandingInv, reputationVars
<1>5. CASE UNCHANGED vars
  BY <1>0, <1>5 DEF vars, TInv, TypeOK, OutstandingInv, reputationVars
<1> QED BY <1>1, <1>2, <1>3, <1>4, <1>5, RequestTypes, BundlerTypes, DebugTypes DEF Next

LEMMA Types == Spec => []TInv
BY InitTypes, NextTypes, PTL DEF Spec

\* The variables keep their types: an address's count is never negative, nor
\* is what was included, also by a factory that did not deploy the account.
THEOREM TypeCorrect == Spec => []TypeOK
<1>1. TInv => TypeOK
  BY DEF TInv
<1> QED BY <1>1, Types, PTL

-----------------------------------------------------------------------------
(* The operations before a new one.                                        *)

\* As many different nonces as there are from v to before o's are all of them.
LEMMA NothingMissing ==
    ASSUME TInv, NEW o \in Ops, NEW r, Validated(o, r), ~ Disputed(Sender(o), Ops)
    PROVE  /\ r.op = o
           /\ {NonceValue(q) : q \in r.ahead} = r.current..(NonceValue(r.op) - 1)
<1>1. PICK v \in Nat, from \in Nat :
        /\ from >= v
        /\ \E I \in SUBSET getQueuedUserOperations(o, from) :
            /\ NonceValue(o) = v + Cardinality(I)
            /\ r = [pc |-> "validating", op |-> o, current |-> v,
                    ahead |-> {outstanding[i] : i \in I}]
  BY DEF Validated
<1>2. PICK I \in SUBSET getQueuedUserOperations(o, from) :
        /\ NonceValue(o) = v + Cardinality(I)
        /\ r = [pc |-> "validating", op |-> o, current |-> v,
                ahead |-> {outstanding[i] : i \in I}]
  BY <1>1
<1> DEFINE n == NonceValue(o)
           T == {NonceValue(outstanding[i]) : i \in I}
           all == v..(n - 1)
           f == [i \in I |-> NonceValue(outstanding[i])]
<1>3. /\ outstanding \in Seq(Ops) /\ n \in Nat
      /\ \A i, j \in 1..Len(outstanding) : outstanding[i] = outstanding[j] => i = j
      /\ \A p, q \in ToSet(outstanding) :
             Conflicts(p, q) /\ Sender(p) = Sender(o) => p = q
  <2>1. /\ outstanding \in Seq(Ops) /\ IsInjective(outstanding)
        /\ NoRivals(ToSet(outstanding), Ops)
    BY DEF TInv, TypeOK, OutstandingInv, AddInv
  <2> QED BY <2>1, RolesType, SequenceElements DEF NoRivals
<1>4. \A i \in I : /\ i \in 1..Len(outstanding) /\ outstanding[i] \in Ops
                   /\ outstanding[i] \in ToSet(outstanding)
                   /\ Slot(outstanding[i]) = Slot(o)
                   /\ NonceValue(outstanding[i]) \in all
  <2> TAKE i \in I
  <2>1. /\ i \in 1..Len(outstanding) /\ Slot(outstanding[i]) = Slot(o)
        /\ NonceValue(outstanding[i]) >= from /\ NonceValue(outstanding[i]) < n
    BY <1>3 DEF getQueuedUserOperations
  <2>2. outstanding[i] \in Ops /\ outstanding[i] \in ToSet(outstanding)
    BY <1>3, <2>1, SequenceElements
  <2>3. NonceValue(outstanding[i]) \in Nat
    BY <2>2, RolesType
  <2> QED BY <1>1, <1>3, <2>1, <2>2, <2>3
<1>5. \A i, j \in I : NonceValue(outstanding[i]) = NonceValue(outstanding[j]) => i = j
  <2> TAKE i, j \in I
  <2> HAVE NonceValue(outstanding[i]) = NonceValue(outstanding[j])
  <2>1. /\ Conflicts(outstanding[i], outstanding[j])
        /\ Sender(outstanding[i]) = Sender(o)
    BY <1>4 DEF Conflicts, SameNonce, Slot, NonceValue
  <2> QED BY <1>3, <1>4, <2>1
<1>6. IsFiniteSet(I)
  <2>1. IsFiniteSet(1..Len(outstanding))
    BY <1>3, FS_Interval
  <2>2. I \in SUBSET (1..Len(outstanding))
    BY <1>4
  <2> QED BY <2>1, <2>2, FS_Subset
<1>7. IsFiniteSet(T) /\ Cardinality(T) = Cardinality(I)
  <2>1. f \in Surjection(I, T)
    BY DEF Surjection
  <2>2. f \in Injection(I, T)
    BY <1>5 DEF Injection, IsInjective
  <2> HIDE DEF T, f
  <2> QED BY <1>6, <2>1, <2>2, FS_Surjection
<1>8. IsFiniteSet(all) /\ Cardinality(all) = n - v
  <2>1. Cardinality(I) \in Nat
    BY <1>6, FS_CardinalityType
  <2>2. v =< n
    BY <1>2, <2>1
  <2>3. v \in Int /\ n - 1 \in Int
    BY <1>3
  <2>4. /\ IsFiniteSet(v..(n - 1))
        /\ Cardinality(v..(n - 1)) = IF v > n - 1 THEN 0 ELSE (n - 1) - v + 1
    BY <2>3, FS_Interval
  <2> HIDE DEF n
  <2> QED BY <1>3, <2>2, <2>4
<1>9. T = all
  <2>1. T \in SUBSET all
    BY <1>4
  <2>2. Cardinality(T) = Cardinality(all)
    <3>1. Cardinality(I) \in Nat
      BY <1>6, FS_CardinalityType
    <3> HIDE DEF T, all
    <3> QED BY <1>2, <1>3, <1>7, <1>8, <3>1 DEF n
  <2> HIDE DEF T, all
  <2> QED BY <1>8, <2>1, <2>2, FS_Subset
<1>10. r.op = o /\ r.current = v /\ r.ahead = {outstanding[i] : i \in I}
  BY <1>2
<1>11. {NonceValue(q) : q \in r.ahead} = T
  BY <1>10
<1> QED BY <1>9, <1>10, <1>11

\* A request that is being validated was judged with none missing, and what it
\* remembers of that does not change.
LEMMA NextPresent ==
    TInv /\ PredecessorsPresent /\ [Next]_vars => PredecessorsPresent'
<1> SUFFICES ASSUME TInv, PredecessorsPresent, [Next]_vars PROVE PredecessorsPresent'
  OBVIOUS
<1>0. TypeOK
  BY DEF TInv
<1>1. ASSUME NEW c \in Clients, NEW r \in RequestType,
             request' = [request EXCEPT ![c] = r],
             r.pc = "validating" /\ ~ Disputed(Sender(r.op), Ops) =>
                 {NonceValue(q) : q \in r.ahead} = r.current..(NonceValue(r.op) - 1)
      PROVE  PredecessorsPresent'
  <2>1. \A d \in Clients : request'[d] = IF d = c THEN r ELSE request[d]
    BY <1>0, <1>1, RequestChanges
  <2> QED BY <1>1, <2>1 DEF PredecessorsPresent
<1>2. ASSUME UNCHANGED request PROVE PredecessorsPresent'
  BY <1>2 DEF PredecessorsPresent
<1>3. ASSUME NEW c \in Clients, Request(c)
      PROVE  PredecessorsPresent'
  <2>1. ASSUME NEW o \in Ops, Receive(c, o)
        PROVE  PredecessorsPresent'
    <3> DEFINE r == [pc |-> "reading", op |-> o, low |-> nonce[Slot(o)]]
    <3>1. request' = [request EXCEPT ![c] = r]
      BY <2>1 DEF Receive
    <3>2. nonce[Slot(o)] \in Nat
      BY <1>0, RolesType DEF TypeOK
    <3>3. r \in RequestType /\ r.pc # "validating"
      BY <1>0, <3>2, RequestOps
    <3> HIDE DEF r
    <3> QED BY <1>1, <3>1, <3>3
  <2>2. CASE Throws(c) \/ AddChecked(c)
    <3>1. request' = [request EXCEPT ![c] = Idle]
      BY <2>2 DEF Throws, AddChecked
    <3>2. Idle \in RequestType /\ Idle.pc # "validating"
      BY <1>0, RequestOps DEF Idle
    <3> QED BY <1>1, <3>1, <3>2
  <2>3. CASE NonceRead(c) \/ NonceReadAgain(c)
    <3>1. PICK r \in RequestType :
              /\ request' = [request EXCEPT ![c] = r]
              /\ r.pc = "validating" => Validated(request[c].op, r)
      BY <2>3, NonceReadKeeps
    <3>2. request[c].op \in Ops
      <4>1. request[c].pc # "idle"
        BY <2>3 DEF NonceRead, NonceReadAgain
      <4> QED BY <1>0, <4>1, RequestOps
    <3>3. r.pc = "validating" /\ ~ Disputed(Sender(r.op), Ops) =>
              {NonceValue(q) : q \in r.ahead} = r.current..(NonceValue(r.op) - 1)
      <4>1. Validated(request[c].op, r) => r.op = request[c].op
        BY DEF Validated
      <4> QED BY <3>1, <3>2, <4>1, NothingMissing
    <3> QED BY <1>1, <3>1, <3>3
  <2>4. CASE checkReputation(c)
    <3> DEFINE o == request[c].op
               r == IF Reputable(o, entityCount') THEN [pc |-> "checked", op |-> o]
                    ELSE Idle
    <3>1. request[c].pc = "validating" /\ request' = [request EXCEPT ![c] = r]
      BY <2>4 DEF checkReputation
    <3>2. r \in RequestType /\ r.pc # "validating"
      BY <1>0, <3>1, RequestOps DEF Idle
    <3> HIDE DEF r
    <3> QED BY <1>1, <3>1, <3>2
  <2> QED BY <1>3, <2>1, <2>2, <2>3, <2>4 DEF Request
<1>4. ASSUME NEW p \in Processes, Tick(p) \/ Fetched(p)
      PROVE  PredecessorsPresent'
  BY <1>2, <1>4 DEF Tick, Fetched
<1>5. ASSUME NEW o \in Ops, Bundler(o)
      PROVE  PredecessorsPresent'
  BY <1>2, <1>5 DEF Bundler, Taken, Screened, Executed, Included, Crashed, Rejected,
                    Resubmitted
<1>6. CASE Debug
  BY <1>2, <1>6 DEF Debug, debug_bundler_clearState, debug_bundler_clearMempool,
                    debug_bundler_setReputation
<1>7. CASE Started \/ \E s \in Slots : UsedElsewhere(s)
  BY <1>2, <1>7 DEF Started, UsedElsewhere
<1>8. CASE UNCHANGED vars
  BY <1>2, <1>8 DEF vars
<1> QED BY <1>3, <1>4, <1>5, <1>6, <1>7, <1>8 DEF Next

\* addToMempoolIfValid needs no more than the number of the operations before:
\* every nonce before that of an operation it validates is there, unless two of
\* its sender with one nonce disagree about deploying the account.
THEOREM Present == Spec => []PredecessorsPresent
<1>1. Init => PredecessorsPresent
  BY DEF Init, PredecessorsPresent, Idle
<1>2. TInv /\ PredecessorsPresent /\ [Next]_vars => PredecessorsPresent'
  BY NextPresent
<1> QED BY <1>1, <1>2, Types, PTL DEF Spec

-----------------------------------------------------------------------------
(* The limit of a sender.                                                  *)

RolesHeld(r, e) == IF r.pc = "checked" THEN Roles(r.op, e) ELSE 0

HeldBy(requests, e) == [c \in Clients |-> RolesHeld(requests[c], e)]

\* The roles of e in the operations that are counted: those outstanding, and
\* those of requests between their checks and add().
InHand(requests, e) == Total(Clients, HeldBy(requests, e))

Held(out, requests, e) == RolesIn(ToSet(out), e) + InHand(requests, e)

\* All of them were counted, or are uncounted.
CountInv == safeMode =>
    \A e \in Addresses : Held(outstanding, request, e) =< entityCount[e] + uncounted[e]

LimitInv == safeMode =>
    \A s \in Field("sender") \ staked :
        Held(outstanding, request, s) =< maxMempoolUserOperationsPerSender + uncounted[s]

\* An unstaked sender is neither a paymaster nor a factory, that may have more.
SendersOnly ==
    (Field("sender") \ staked) \cap (Field("paymaster") \cup Field("factory")) = {}

LEMMA RolesInMore ==
    ASSUME NEW T \in SUBSET Ops, IsFiniteSet(T), NEW e
    PROVE  /\ RolesIn(T, e) \in Nat
           /\ \A S \in SUBSET T : RolesIn(S, e) \in Nat /\ RolesIn(S, e) =< RolesIn(T, e)
           /\ \A o \in T : RolesIn(T, e) = Roles(o, e) + RolesIn(T \ {o}, e)
<1>1. Natural(T, RolesOf(e))
  BY RolesNatural
<1>2. ASSUME NEW S \in SUBSET T
      PROVE  RolesIn(S, e) \in Nat /\ RolesIn(S, e) =< RolesIn(T, e)
  <2> DEFINE a == Total(T, RolesOf(e))
             b == Total(S, RolesOf(e))
             d == Total(T \ S, RolesOf(e))
  <2>1. a = b + d /\ a \in Nat /\ b \in Nat /\ d \in Nat
    BY <1>1, TotalSplit
  <2> HIDE DEF a, b, d
  <2>2. b =< a /\ b \in Nat
    BY <2>1
  <2> QED BY <2>2 DEF RolesIn, a, b
<1>3. ASSUME NEW o \in T
      PROVE  RolesIn(T, e) = Roles(o, e) + RolesIn(T \ {o}, e)
  <2>1. RolesOf(e)[o] = Roles(o, e)
    BY RolesNatural
  <2> QED BY <1>1, <2>1, TotalRemoved DEF RolesIn
<1>4. RolesIn(T, e) \in Nat
  BY RolesSummedUp
<1> QED BY <1>2, <1>3, <1>4

LEMMA OneOpMore ==
    ASSUME NEW T \in SUBSET Ops, IsFiniteSet(T), NEW o \in Ops,
           NEW S \in SUBSET (T \cup {o}), NEW e
    PROVE  RolesIn(S, e) =< RolesIn(T, e) + Roles(o, e)
<1> DEFINE U == T \cup {o}
<1>1. U \in SUBSET Ops /\ IsFiniteSet(U) /\ o \in U
  BY FS_AddElement
<1>2. U \ {o} \in SUBSET T
  OBVIOUS
<1> HIDE DEF U
<1>3. /\ RolesIn(S, e) \in Nat /\ RolesIn(S, e) =< RolesIn(U, e) /\ RolesIn(U, e) \in Nat
      /\ RolesIn(U, e) = Roles(o, e) + RolesIn(U \ {o}, e)
  BY <1>1, RolesInMore DEF U
<1>4. RolesIn(U \ {o}, e) \in Nat /\ RolesIn(U \ {o}, e) =< RolesIn(T, e) /\ RolesIn(T, e) \in Nat
  BY <1>2, RolesInMore
<1>5. Roles(o, e) \in Nat
  BY RolesType
<1> QED BY <1>3, <1>4, <1>5

LEMMA HeldNatural ==
    ASSUME NEW requests \in [Clients -> RequestType], NEW e
    PROVE  Natural(Clients, HeldBy(requests, e))
<1> SUFFICES ASSUME NEW c \in Clients PROVE RolesHeld(requests[c], e) \in Nat
  BY DEF Natural, HeldBy
<1>1. requests[c] \in RequestType
  OBVIOUS
<1>2. requests[c].pc = "checked" => requests[c].op \in Ops
  BY <1>1 DEF RequestType, Idle
<1> QED BY <1>2, RolesType DEF RolesHeld

LEMMA InHandType ==
    ASSUME IsFiniteSet(Clients), NEW requests \in [Clients -> RequestType], NEW e
    PROVE  /\ InHand(requests, e) \in Nat
           /\ (\A c \in Clients : requests[c].pc # "checked") => InHand(requests, e) = 0
<1>1. InHand(requests, e) \in Nat
  BY HeldNatural, TotalType DEF InHand
<1>2. ASSUME \A c \in Clients : requests[c].pc # "checked"
      PROVE  InHand(requests, e) = 0
  <2>1. \A c \in Clients : HeldBy(requests, e)[c] = 0
    BY <1>2 DEF HeldBy, RolesHeld
  <2> QED BY <2>1, TotalOfZeros DEF InHand
<1> QED BY <1>1, <1>2

LEMMA InHandChanges ==
    ASSUME IsFiniteSet(Clients), TypeOK, NEW c \in Clients, NEW r \in RequestType,
           request' = [request EXCEPT ![c] = r], NEW e
    PROVE  /\ InHand(request', e) + RolesHeld(request[c], e)
                = InHand(request, e) + RolesHeld(r, e)
           /\ InHand(request', e) \in Nat /\ InHand(request, e) \in Nat
           /\ RolesHeld(request[c], e) \in Nat /\ RolesHeld(r, e) \in Nat
<1> DEFINE requests == request'
           f == HeldBy(request, e)
           g == HeldBy(requests, e)
<1>1. /\ requests \in [Clients -> RequestType] /\ request \in [Clients -> RequestType]
      /\ \A d \in Clients : requests[d] = IF d = c THEN r ELSE request[d]
  BY RequestChanges DEF TypeOK
<1>2. Natural(Clients, f) /\ Natural(Clients, g)
  <2> HIDE DEF requests
  <2> QED BY <1>1, HeldNatural
<1>3. /\ f[c] = RolesHeld(request[c], e) /\ g[c] = RolesHeld(r, e)
      /\ \A d \in Clients \ {c} : g[d] = f[d]
  BY <1>1 DEF HeldBy
<1> HIDE DEF f, g
<1>4. /\ Total(Clients, g) + f[c] = Total(Clients, f) + g[c]
      /\ Total(Clients, g) \in Nat /\ Total(Clients, f) \in Nat
      /\ f[c] \in Nat /\ g[c] \in Nat
  BY <1>2, <1>3, TotalChanged
<1> QED BY <1>3, <1>4 DEF InHand, f, g

\* What is held grows no more than what is uncounted.
NoMoreHeld ==
    \A e \in Addresses :
        Held(outstanding', request', e) + uncounted[e]
            =< Held(outstanding, request, e) + uncounted'[e]

\* All numbers that the two invariants are about.
LEMMA HeldTypes ==
    ASSUME IsFiniteSet(Clients), TInv, NEW e \in Addresses
    PROVE  /\ RolesIn(ToSet(outstanding), e) \in Nat
           /\ InHand(request, e) \in Nat
           /\ entityCount[e] \in Nat /\ uncounted[e] \in Nat
           /\ ToSet(outstanding) \in SUBSET Ops /\ IsFiniteSet(ToSet(outstanding))
<1>1. /\ request \in [Clients -> RequestType]
      /\ entityCount[e] \in Nat /\ uncounted[e] \in Nat
  BY DEF TInv, TypeOK
<1>2. InHand(request, e) \in Nat
  BY <1>1, InHandType
<1>3. ToSet(outstanding) \in SUBSET Ops /\ IsFiniteSet(ToSet(outstanding))
  BY OutstandingStore, StoreFinite
<1>4. RolesIn(ToSet(outstanding), e) \in Nat
  BY <1>3, RolesInMore
<1> QED BY <1>1, <1>2, <1>3, <1>4

LEMMA HeldTypesNext ==
    ASSUME IsFiniteSet(Clients), TInv', NEW e \in Addresses
    PROVE  /\ RolesIn(ToSet(outstanding'), e) \in Nat
           /\ InHand(request', e) \in Nat
           /\ entityCount'[e] \in Nat /\ uncounted'[e] \in Nat
<1> DEFINE requests == request'
           out == outstanding'
<1>1. /\ requests \in [Clients -> RequestType]
      /\ entityCount'[e] \in Nat /\ uncounted'[e] \in Nat
      /\ out \in Seq(Ops) /\ IsInjective(out) /\ AddInv(ToSet(out), Ops)
  BY DEF TInv, TypeOK, OutstandingInv
<1> HIDE DEF requests, out
<1>2. InHand(requests, e) \in Nat
  BY <1>1, InHandType
<1>3. ToSet(out) \in SUBSET Ops /\ IsFiniteSet(ToSet(out))
  <2>1. out \in Stores(ToSet(out))
    BY <1>1 DEF Stores
  <2> QED BY <2>1, StoreFinite
<1>4. RolesIn(ToSet(out), e) \in Nat
  BY <1>3, RolesInMore
<1> QED BY <1>1, <1>2, <1>4 DEF requests, out

LEMMA SenderAddress ==
    ASSUME NEW s \in Field("sender") \ staked
    PROVE  s \in Addresses /\ s \notin staked /\ maxMempoolUserOperationsPerSender \in Nat
BY ReputationAssumption

LEMMA CountsKept ==
    ASSUME IsFiniteSet(Clients), TInv, TInv', CountInv, LimitInv, NoMoreHeld, safeMode
    PROVE  /\ LimitInv'
           /\ UNCHANGED entityCount => CountInv'
<1>1. ASSUME NEW e \in Addresses
      PROVE  /\ Held(outstanding, request, e) \in Nat
             /\ Held(outstanding', request', e) \in Nat
             /\ Held(outstanding', request', e) + uncounted[e]
                    =< Held(outstanding, request, e) + uncounted'[e]
             /\ entityCount[e] \in Nat /\ uncounted[e] \in Nat /\ uncounted'[e] \in Nat
  <2>1. /\ Held(outstanding, request, e) \in Nat
        /\ entityCount[e] \in Nat /\ uncounted[e] \in Nat
    BY HeldTypes DEF Held
  <2>2. Held(outstanding', request', e) \in Nat /\ uncounted'[e] \in Nat
    BY HeldTypesNext DEF Held
  <2> QED BY <2>1, <2>2 DEF NoMoreHeld
<1>2. LimitInv'
  <2> SUFFICES ASSUME NEW s \in Field("sender") \ staked
               PROVE  Held(outstanding', request', s)
                          =< maxMempoolUserOperationsPerSender + uncounted'[s]
    BY DEF LimitInv
  <2>1. s \in Addresses /\ maxMempoolUserOperationsPerSender \in Nat
    BY SenderAddress
  <2>2. Held(outstanding, request, s) =< maxMempoolUserOperationsPerSender + uncounted[s]
    BY DEF LimitInv
  <2> QED BY <1>1, <2>1, <2>2
<1>3. ASSUME UNCHANGED entityCount
      PROVE  CountInv'
  <2> SUFFICES ASSUME NEW e \in Addresses
               PROVE  Held(outstanding', request', e) =< entityCount[e] + uncounted'[e]
    BY <1>3 DEF CountInv
  <2>1. Held(outstanding, request, e) =< entityCount[e] + uncounted[e]
    BY DEF CountInv
  <2> QED BY <1>1, <2>1
<1> QED BY <1>2, <1>3

\* No operation goes in, and none is in hand that was not.
LEMMA NoneHeld ==
    ASSUME IsFiniteSet(Clients), TInv,
           ToSet(outstanding') \in SUBSET ToSet(outstanding),
           \A e \in Addresses : InHand(request', e) = InHand(request, e),
           \A e \in Addresses : uncounted'[e] \in Nat /\ uncounted'[e] >= uncounted[e]
    PROVE  NoMoreHeld
<1> SUFFICES ASSUME NEW e \in Addresses
             PROVE  Held(outstanding', request', e) + uncounted[e]
                        =< Held(outstanding, request, e) + uncounted'[e]
  BY DEF NoMoreHeld
<1>1. /\ RolesIn(ToSet(outstanding), e) \in Nat /\ InHand(request, e) \in Nat
      /\ uncounted[e] \in Nat /\ IsFiniteSet(ToSet(outstanding))
      /\ ToSet(outstanding) \in SUBSET Ops
  BY HeldTypes
<1>2. /\ RolesIn(ToSet(outstanding'), e) \in Nat
      /\ RolesIn(ToSet(outstanding'), e) =< RolesIn(ToSet(outstanding), e)
  BY <1>1, RolesInMore
<1>3. InHand(request', e) = InHand(request, e) /\ uncounted'[e] \in Nat
      /\ uncounted'[e] >= uncounted[e]
  OBVIOUS
<1> QED BY <1>1, <1>2, <1>3 DEF Held

\* What is added is uncounted.
LEMMA UncountedHeld ==
    ASSUME IsFiniteSet(Clients), TInv, TInv', AddsUncounted,
           \A e \in Addresses : InHand(request', e) = InHand(request, e)
    PROVE  NoMoreHeld
<1> SUFFICES ASSUME NEW e \in Addresses
             PROVE  Held(outstanding', request', e) + uncounted[e]
                        =< Held(outstanding, request, e) + uncounted'[e]
  BY DEF NoMoreHeld
<1>1. /\ RolesIn(ToSet(outstanding), e) \in Nat /\ InHand(request, e) \in Nat
      /\ uncounted[e] \in Nat
  BY HeldTypes
<1>2. /\ RolesIn(ToSet(outstanding'), e) \in Nat /\ uncounted'[e] \in Nat
  BY HeldTypesNext
<1>3. RolesIn(ToSet(outstanding'), e) + uncounted[e]
          =< RolesIn(ToSet(outstanding), e) + uncounted'[e]
  BY DEF AddsUncounted, UncountedSince
<1>4. InHand(request', e) = InHand(request, e)
  OBVIOUS
<1> QED BY <1>1, <1>2, <1>3, <1>4 DEF Held

\* A request that neither was checked nor is now has nothing in hand.
LEMMA NothingInHand ==
    ASSUME IsFiniteSet(Clients), TypeOK, NEW c \in Clients, NEW r \in RequestType,
           request' = [request EXCEPT ![c] = r],
           r.pc # "checked", request[c].pc # "checked"
    PROVE  \A e \in Addresses : InHand(request', e) = InHand(request, e)
<1> SUFFICES ASSUME NEW e \in Addresses PROVE InHand(request', e) = InHand(request, e)
  OBVIOUS
<1>1. RolesHeld(request[c], e) = 0 /\ RolesHeld(r, e) = 0
  BY DEF RolesHeld
<1>2. /\ InHand(request', e) + RolesHeld(request[c], e)
             = InHand(request, e) + RolesHeld(r, e)
      /\ InHand(request', e) \in Nat /\ InHand(request, e) \in Nat
  BY InHandChanges
<1> QED BY <1>1, <1>2

\* checkReputation counts the operation before it compares: a sender that it
\* lets through has no more in its count than it may.
LEMMA CheckedCounts ==
    ASSUME IsFiniteSet(Clients), SendersOnly, TInv, TInv', CountInv, LimitInv, safeMode,
           NEW c \in Clients, checkReputation(c)
    PROVE  CountInv' /\ LimitInv'
<1> DEFINE o == request[c].op
           passed == Reputable(o, entityCount')
           r == IF passed THEN [pc |-> "checked", op |-> o] ELSE Idle
<1>1. /\ request[c].pc = "validating"
      /\ entityCount' = [e \in Addresses |-> entityCount[e] + Roles(o, e)]
      /\ request' = [request EXCEPT ![c] = r]
      /\ UNCHANGED <<outstanding, uncounted>>
  BY DEF checkReputation, increaseUserOperationCount
<1>2. TypeOK /\ o \in Ops /\ r \in RequestType
  BY <1>1, RequestOps DEF TInv
<1>3. \A e : RolesHeld(request[c], e) = 0
  BY <1>1 DEF RolesHeld
<1>4. \A e : RolesHeld(r, e) = IF passed THEN Roles(o, e) ELSE 0
  BY DEF RolesHeld, Idle
<1> HIDE DEF r, passed, o
<1>5. ASSUME NEW e \in Addresses
      PROVE  /\ entityCount'[e] = entityCount[e] + Roles(o, e)
             /\ Held(outstanding', request', e)
                    = Held(outstanding, request, e) + IF passed THEN Roles(o, e) ELSE 0
             /\ Held(outstanding, request, e) \in Nat /\ Roles(o, e) \in Nat
             /\ entityCount[e] \in Nat /\ uncounted[e] \in Nat
             /\ Held(outstanding, request, e) =< entityCount[e] + uncounted[e]
  <2>1. /\ InHand(request', e) + RolesHeld(request[c], e)
             = InHand(request, e) + RolesHeld(r, e)
        /\ InHand(request', e) \in Nat /\ InHand(request, e) \in Nat
    BY <1>1, <1>2, InHandChanges
  <2>2. Roles(o, e) \in Nat
    BY <1>2, RolesType
  <2>3. InHand(request', e) = InHand(request, e) + IF passed THEN Roles(o, e) ELSE 0
    BY <1>3, <1>4, <2>1, <2>2
  <2>4. /\ RolesIn(ToSet(outstanding), e) \in Nat
        /\ entityCount[e] \in Nat /\ uncounted[e] \in Nat
    BY HeldTypes
  <2>5. outstanding' = outstanding
    BY <1>1
  <2>6. /\ Held(outstanding', request', e)
                    = Held(outstanding, request, e) + IF passed THEN Roles(o, e) ELSE 0
        /\ Held(outstanding, request, e) \in Nat
    BY <2>1, <2>2, <2>3, <2>4, <2>5 DEF Held
  <2>7. Held(outstanding, request, e) =< entityCount[e] + uncounted[e]
    BY DEF CountInv
  <2> QED BY <1>1, <2>2, <2>4, <2>6, <2>7
<1>6. \A e \in Addresses : Held(outstanding', request', e) =< entityCount'[e] + uncounted'[e]
  <2> TAKE e \in Addresses
  <2>1. uncounted'[e] = uncounted[e]
    BY <1>1
  <2>2. CASE passed
    BY <1>5, <2>1, <2>2
  <2>3. CASE ~ passed
    BY <1>5, <2>1, <2>3
  <2> QED BY <2>2, <2>3
<1>7. ASSUME NEW s \in Field("sender") \ staked
      PROVE  Held(outstanding', request', s) =< maxMempoolUserOperationsPerSender + uncounted'[s]
  <2>1. /\ s \in Addresses /\ s \notin staked /\ maxMempoolUserOperationsPerSender \in Nat
        /\ uncounted'[s] = uncounted[s]
    BY <1>1, SenderAddress
  <2>2. Held(outstanding, request, s) =< maxMempoolUserOperationsPerSender + uncounted[s]
    BY DEF LimitInv
  <2>3. CASE passed /\ Sender(o) = s
    <3>1. ~ Refused(EntryPoint(o), Sender(o), maxMempoolUserOperationsPerSender,
                    entityCount'[Sender(o)])
      BY <2>3 DEF passed, Reputable
    <3>2. ~ (entityCount'[s] > maxMempoolUserOperationsPerSender)
      BY <2>1, <2>3, <3>1 DEF Refused
    <3>3. entityCount'[s] \in Nat
      BY <1>5, <2>1
    <3> QED BY <1>5, <1>6, <2>1, <3>2, <3>3
  <2>4. CASE ~ passed \/ Sender(o) # s
    <3>1. passed => Roles(o, s) = 0
      <4>1. userOp[o].paymaster \in Field("paymaster") /\ userOp[o].factory \in Field("factory")
        BY <1>2, OpsAssumption
      <4>2. userOp[o].paymaster # s /\ userOp[o].factory # s
        BY <4>1 DEF SendersOnly
      <4> QED BY <2>4, <4>2 DEF Roles
    <3> QED BY <1>5, <2>1, <2>2, <3>1
  <2> QED BY <2>3, <2>4
<1> QED BY <1>6, <1>7 DEF CountInv, LimitInv

LEMMA NextCounts ==
    ASSUME IsFiniteSet(Clients), SendersOnly
    PROVE  TInv /\ CountInv /\ LimitInv /\ [Next]_vars => CountInv' /\ LimitInv'
<1> SUFFICES ASSUME TInv, CountInv, LimitInv, [Next]_vars, safeMode
             PROVE  CountInv' /\ LimitInv'
  BY DEF CountInv, LimitInv
<1>0. TypeOK /\ TInv'
  BY NextTypes DEF TInv
<1>1. ASSUME NoMoreHeld, UNCHANGED entityCount
      PROVE  CountInv' /\ LimitInv'
  BY <1>0, <1>1, CountsKept
<1>2. ASSUME UNCHANGED <<outstanding, request, uncounted, entityCount>>
      PROVE  CountInv' /\ LimitInv'
  BY <1>2 DEF CountInv, LimitInv
<1>3. ASSUME NEW c \in Clients, Request(c)
      PROVE  CountInv' /\ LimitInv'
  <2>1. ASSUME NEW r \in RequestType, request' = [request EXCEPT ![c] = r],
               r.pc # "checked", request[c].pc # "checked",
               UNCHANGED <<outstanding, uncounted, entityCount>>
        PROVE  CountInv' /\ LimitInv'
    <3>1. \A e \in Addresses : InHand(request', e) = InHand(request, e)
      BY <1>0, <2>1, NothingInHand
    <3>2. \A e \in Addresses : uncounted'[e] \in Nat /\ uncounted'[e] >= uncounted[e]
      BY <1>0, <2>1 DEF TypeOK
    <3>3. ToSet(outstanding') \in SUBSET ToSet(outstanding)
      BY <2>1
    <3> QED BY <1>1, <2>1, <3>1, <3>2, <3>3, NoneHeld
  <2>2. ASSUME NEW o \in Ops, Receive(c, o)
        PROVE  CountInv' /\ LimitInv'
    <3> DEFINE r == [pc |-> "reading", op |-> o, low |-> nonce[Slot(o)]]
    <3>1. request' = [request EXCEPT ![c] = r] /\ request[c].pc = "idle"
          /\ UNCHANGED <<outstanding, uncounted, entityCount>>
      BY <2>2 DEF Receive, Idle, reputationVars
    <3>2. nonce[Slot(o)] \in Nat
      BY <1>0, RolesType DEF TypeOK
    <3>3. r \in RequestType /\ r.pc # "checked"
      BY <1>0, <3>2, RequestOps
    <3> HIDE DEF r
    <3> QED BY <2>1, <3>1, <3>3
  <2>3. CASE Throws(c)
    <3>1. request' = [request EXCEPT ![c] = Idle] /\ request[c].pc # "checked"
          /\ UNCHANGED <<outstanding, uncounted, entityCount>>
      BY <2>3 DEF Throws, reputationVars
    <3>2. Idle \in RequestType /\ Idle.pc # "checked"
      BY <1>0, RequestOps DEF Idle
    <3> QED BY <2>1, <3>1, <3>2
  <2>4. CASE NonceRead(c) \/ NonceReadAgain(c)
    <3>1. /\ AddsUncounted /\ UNCHANGED entityCount
          /\ request[c].pc \in {"reading", "rereading"}
      BY <2>4, NonceReadKeeps
    <3>2. PICK r \in RequestType :
              request' = [request EXCEPT ![c] = r] /\ r.pc # "checked"
      BY <2>4, NonceReadKeeps
    <3>3. \A e \in Addresses : InHand(request', e) = InHand(request, e)
      BY <1>0, <3>1, <3>2, NothingInHand
    <3> QED BY <1>0, <1>1, <3>1, <3>3, UncountedHeld
  <2>5. CASE checkReputation(c)
    BY <1>0, <2>5, CheckedCounts
  <2>6. CASE AddChecked(c)
    <3> DEFINE o == request[c].op
    <3>1. /\ request[c].pc = "checked" /\ o \in Ops
          /\ request' = [request EXCEPT ![c] = Idle]
          /\ outstanding' \in Stores(ToSet(outstanding) \cup {o})
          /\ UNCHANGED <<uncounted, entityCount>>
      BY <2>6, AddCheckedKeeps
    <3>2. \A e : RolesHeld(request[c], e) = Roles(o, e) /\ RolesHeld(Idle, e) = 0
      BY <3>1 DEF RolesHeld, Idle
    <3> HIDE DEF o
    <3>3. Idle \in RequestType
      BY <1>0, RequestOps
    <3>4. ASSUME NEW e \in Addresses
          PROVE  Held(outstanding', request', e) + uncounted[e]
                     =< Held(outstanding, request, e) + uncounted'[e]
      <4>1. /\ InHand(request', e) + Roles(o, e) = InHand(request, e) + 0
            /\ InHand(request', e) \in Nat /\ InHand(request, e) \in Nat
        BY <1>0, <3>1, <3>2, <3>3, InHandChanges
      <4>2. /\ RolesIn(ToSet(outstanding), e) \in Nat /\ uncounted[e] \in Nat
            /\ ToSet(outstanding) \in SUBSET Ops /\ IsFiniteSet(ToSet(outstanding))
        BY HeldTypes
      <4>3. ToSet(outstanding') \in SUBSET (ToSet(outstanding) \cup {o})
        BY <3>1 DEF Stores
      <4>4. /\ RolesIn(ToSet(outstanding'), e) =< RolesIn(ToSet(outstanding), e) + Roles(o, e)
            /\ RolesIn(ToSet(outstanding'), e) \in Nat
        BY <1>0, <3>1, <4>2, <4>3, OneOpMore, HeldTypesNext
      <4>5. uncounted'[e] = uncounted[e] /\ Roles(o, e) \in Nat
        BY <3>1, RolesType
      <4> QED BY <4>1, <4>2, <4>4, <4>5 DEF Held
    <3>5. NoMoreHeld
      BY <3>4 DEF NoMoreHeld
    <3> QED BY <1>1, <3>1, <3>5
  <2> QED BY <1>3, <2>2, <2>3, <2>4, <2>5, <2>6 DEF Request
<1>4. ASSUME NEW p \in Processes, Tick(p)
      PROVE  CountInv' /\ LimitInv'
  BY <1>2, <1>4 DEF Tick, reputationVars
<1>5. ASSUME NEW p \in Processes, Fetched(p)
      PROVE  CountInv' /\ LimitInv'
  <2>1. AddsUncounted /\ UNCHANGED <<request, entityCount>>
    BY <1>5, FetchedKeeps
  <2>2. \A e \in Addresses : InHand(request', e) = InHand(request, e)
    BY <2>1
  <2> QED BY <1>0, <1>1, <2>1, <2>2, UncountedHeld
<1>6. CASE Started \/ \E s \in Slots : UsedElsewhere(s)
  BY <1>2, <1>6 DEF Started, UsedElsewhere, reputationVars
<1>7. ASSUME NEW o \in Ops, Bundler(o)
      PROVE  CountInv' /\ LimitInv'
  <2>1. CASE Taken(o)
    <3>1. /\ ToSet(outstanding') = ToSet(outstanding) \ {o} /\ request' = request
          /\ \A e \in Addresses :
               /\ entityCount[e] =< entityCount'[e] + Roles(o, e)
               /\ uncounted'[e] = uncounted[e] + (IF o \in ToSet(outstanding) THEN 0
                                                  ELSE Roles(o, e))
      BY <2>1, TakenKeeps DEF Taken
    <3>2. ASSUME NEW e \in Addresses
          PROVE  /\ Held(outstanding', request', e) =< entityCount'[e] + uncounted'[e]
                 /\ Roles(o, e) \in Nat
      <4>1. /\ RolesIn(ToSet(outstanding), e) \in Nat /\ InHand(request, e) \in Nat
            /\ entityCount[e] \in Nat /\ uncounted[e] \in Nat
            /\ ToSet(outstanding) \in SUBSET Ops /\ IsFiniteSet(ToSet(outstanding))
        BY HeldTypes
      <4>2. RolesIn(ToSet(outstanding'), e) \in Nat /\ entityCount'[e] \in Nat
        BY <1>0, HeldTypesNext
      <4>3. Roles(o, e) \in Nat
        BY RolesType
      <4>4. RolesIn(ToSet(outstanding), e) + InHand(request, e) =< entityCount[e] + uncounted[e]
        BY DEF CountInv, Held
      <4>5. entityCount[e] =< entityCount'[e] + Roles(o, e)
        BY <3>1
      <4>6. CASE o \in ToSet(outstanding)
        <5>1. RolesIn(ToSet(outstanding), e) = Roles(o, e) + RolesIn(ToSet(outstanding'), e)
          BY <3>1, <4>1, <4>6, RolesInMore
        <5>2. uncounted'[e] = uncounted[e]
          BY <3>1, <4>1, <4>6
        <5> QED BY <3>1, <4>1, <4>2, <4>3, <4>4, <4>5, <5>1, <5>2 DEF Held
      <4>7. CASE o \notin ToSet(outstanding)
        <5>1. ToSet(outstanding') = ToSet(outstanding)
          BY <3>1, <4>7
        <5>2. uncounted'[e] = uncounted[e] + Roles(o, e)
          BY <3>1, <4>7
        <5> QED BY <3>1, <4>1, <4>2, <4>3, <4>4, <4>5, <5>1, <5>2 DEF Held
      <4> QED BY <4>3, <4>6, <4>7
    <3>3. CountInv'
      BY <3>2 DEF CountInv
    <3>4. \A e \in Addresses : uncounted'[e] \in Nat /\ uncounted'[e] >= uncounted[e]
      <4> TAKE e \in Addresses
      <4>1. uncounted[e] \in Nat /\ Roles(o, e) \in Nat
        BY <3>2, HeldTypes
      <4> QED BY <3>1, <4>1
    <3>5. /\ \A e \in Addresses : InHand(request', e) = InHand(request, e)
          /\ ToSet(outstanding') \in SUBSET ToSet(outstanding)
      BY <3>1
    <3>6. NoMoreHeld
      BY <3>4, <3>5, NoneHeld
    <3> QED BY <1>0, <3>3, <3>6, CountsKept
  <2>2. CASE Screened(o)
    <3>1. /\ ToSet(outstanding') \in SUBSET ToSet(outstanding)
          /\ UNCHANGED <<request, uncounted, entityCount>>
      BY <2>2, RemovedKeeps DEF Screened, reputationVars
    <3>2. /\ \A e \in Addresses : InHand(request', e) = InHand(request, e)
          /\ \A e \in Addresses : uncounted'[e] \in Nat /\ uncounted'[e] >= uncounted[e]
      BY <1>0, <3>1 DEF TypeOK
    <3> QED BY <1>1, <3>1, <3>2, NoneHeld
  <2>3. CASE Executed(o) \/ Included(o) \/ Crashed(o) \/ Rejected(o)
    BY <1>2, <2>3 DEF Executed, Included, Crashed, Rejected, reputationVars
  <2>4. CASE Resubmitted(o)
    <3>1. AddsUncounted /\ UNCHANGED <<request, entityCount>>
      BY <2>4, ResubmittedKeeps DEF Resubmitted
    <3>2. \A e \in Addresses : InHand(request', e) = InHand(request, e)
      BY <3>1
    <3> QED BY <1>0, <1>1, <3>1, <3>2, UncountedHeld
  <2> QED BY <1>7, <2>1, <2>2, <2>3, <2>4 DEF Bundler
<1>8. CASE debug_bundler_clearState \/ debug_bundler_clearMempool
  <2>1. /\ \A c \in Clients : request[c].pc # "checked"
        /\ outstanding' = <<>> /\ entityCount' = [e \in Addresses |-> 0]
        /\ UNCHANGED <<request, uncounted>>
    BY <1>8 DEF debug_bundler_clearState, debug_bundler_clearMempool, Quiet, clearEntityCount
  <2>2. ASSUME NEW e \in Addresses
        PROVE  /\ Held(outstanding', request', e) = 0
               /\ entityCount'[e] = 0 /\ uncounted'[e] \in Nat
    <3>1. InHand(request, e) = 0
      BY <1>0, <2>1, InHandType DEF TypeOK
    <3>2. RolesIn(ToSet(outstanding'), e) = 0
      BY <2>1, NothingLeft, TotalOfNothing DEF RolesIn
    <3>3. uncounted[e] \in Nat
      BY <1>0 DEF TypeOK
    <3> QED BY <2>1, <3>1, <3>2, <3>3 DEF Held
  <2>3. CountInv'
    BY <2>2 DEF CountInv
  <2>4. LimitInv'
    BY <2>2, SenderAddress DEF LimitInv
  <2> QED BY <2>3, <2>4
<1>9. CASE debug_bundler_setReputation
  BY <1>2, <1>9 DEF debug_bundler_setReputation
<1>10. CASE UNCHANGED vars
  BY <1>2, <1>10 DEF vars, reputationVars
<1> QED BY <1>3, <1>4, <1>5, <1>6, <1>7, <1>8, <1>9, <1>10 DEF Next, Debug

\* In the safe mode, however many requests are handled at the same time, however bundles are made
\* and the counts are cleared: a sender without stake, that is neither paymaster
\* nor factory, has no more operations in the mempool than it may, besides those
\* that were added without being counted.
THEOREM Limits ==
    ASSUME IsFiniteSet(Clients), SendersOnly
    PROVE  Spec => []UnstakedSendersLimited
<1>1. Init => CountInv /\ LimitInv
  <2> SUFFICES ASSUME Init PROVE CountInv /\ LimitInv
    OBVIOUS
  <2>1. ASSUME NEW e \in Addresses
        PROVE  /\ Held(outstanding, request, e) = 0
               /\ entityCount[e] = 0 /\ uncounted[e] = 0
    <3>1. TypeOK /\ \A c \in Clients : request[c].pc # "checked"
      BY InitTypes DEF TInv, Init, Idle
    <3>2. InHand(request, e) = 0
      BY <3>1, InHandType DEF TypeOK
    <3>3. RolesIn(ToSet(outstanding), e) = 0
      BY NothingLeft, TotalOfNothing DEF Init, RolesIn
    <3> QED BY <3>2, <3>3 DEF Held, Init
  <2> QED BY <2>1, SenderAddress DEF CountInv, LimitInv
<1>2. TInv /\ CountInv /\ LimitInv /\ [Next]_vars => CountInv' /\ LimitInv'
  BY NextCounts
<1>3. TInv /\ LimitInv => UnstakedSendersLimited
  <2> SUFFICES ASSUME TInv, LimitInv, safeMode, NEW s \in Field("sender") \ staked
               PROVE  RolesOutstanding(s) =< maxMempoolUserOperationsPerSender + uncounted[s]
    BY DEF UnstakedSendersLimited
  <2>1. Held(outstanding, request, s) =< maxMempoolUserOperationsPerSender + uncounted[s]
    BY DEF LimitInv
  <2>2. s \in Addresses /\ maxMempoolUserOperationsPerSender \in Nat
    BY SenderAddress
  <2>3. /\ RolesIn(ToSet(outstanding), s) \in Nat /\ InHand(request, s) \in Nat
        /\ uncounted[s] \in Nat
    BY <2>2, HeldTypes
  <2>4. RolesOutstanding(s) = RolesIn(ToSet(outstanding), s)
    BY RolesOutstandingIs
  <2> QED BY <2>1, <2>2, <2>3, <2>4 DEF Held
<1> QED BY <1>1, <1>2, <1>3, Types, PTL DEF Spec

-----------------------------------------------------------------------------
(* What a step may do.                                                     *)

ArrivalsKept ==
    \A o \in ToSet(queue) \ ToSet(queue') :
        \/ IsSuffix(queue', queue)
        \/ \E p \in Processes : /\ process[p].pc = "fetching"
                                /\ process'[p] = Idle
                                /\ o \in ToSet(process[p].snapshot)

LEMMA StepsKeepArrivals == TInv /\ [Next]_vars => ArrivalsKept
<1> SUFFICES ASSUME TInv, [Next]_vars PROVE ArrivalsKept
  OBVIOUS
<1>1. ASSUME ToSet(queue) \subseteq ToSet(queue') PROVE ArrivalsKept
  BY <1>1 DEF ArrivalsKept
<1>2. ASSUME UNCHANGED queue PROVE ArrivalsKept
  BY <1>1, <1>2
<1>3. ASSUME NEW c \in Clients, Request(c)
      PROVE  ArrivalsKept
  <2>1. CASE NonceRead(c) \/ NonceReadAgain(c)
    BY <1>1, <2>1, NonceReadKeeps
  <2>2. CASE ~ (NonceRead(c) \/ NonceReadAgain(c))
    BY <1>2, <1>3, <2>2 DEF Request, Receive, Throws, checkReputation, AddChecked
  <2> QED BY <2>1, <2>2
<1>4. ASSUME NEW p \in Processes, Tick(p)
      PROVE  ArrivalsKept
  BY <1>4, TickKeeps DEF ArrivalsKept
<1>5. ASSUME NEW p \in Processes, Fetched(p)
      PROVE  ArrivalsKept
  <2>1. /\ process[p].pc = "fetching" /\ process' = [process EXCEPT ![p] = Idle]
        /\ ToSet(queue) \ ToSet(queue') \subseteq ToSet(process[p].snapshot)
        /\ process \in [Processes -> ProcessType]
    BY <1>5, FetchedKeeps DEF TInv, TypeOK
  <2>2. process'[p] = Idle
    BY <2>1
  <2> QED BY <2>1, <2>2 DEF ArrivalsKept
<1>6. ASSUME NEW o \in Ops, Bundler(o)
      PROVE  ArrivalsKept
  BY <1>2, <1>6 DEF Bundler, Taken, Screened, Executed, Included, Crashed, Rejected,
                    Resubmitted
<1>7. CASE Debug
  BY <1>2, <1>7 DEF Debug, debug_bundler_clearState, debug_bundler_clearMempool,
                    debug_bundler_setReputation
<1>8. CASE Started \/ \E s \in Slots : UsedElsewhere(s)
  BY <1>2, <1>8 DEF Started, UsedElsewhere
<1>9. CASE UNCHANGED vars
  BY <1>2, <1>9 DEF vars
<1> QED BY <1>3, <1>4, <1>5, <1>6, <1>7, <1>8, <1>9 DEF Next

\* The nonce queue loses an operation to old age, from the front, or because a
\* call of process() that had it in its snapshot ends: no step, whichever calls
\* overlap, drops one that came later.
THEOREM ArrivalsStay == Spec => QueueKeepsArrivals
<1>1. TInv /\ [Next]_vars => [ArrivalsKept]_vars
  BY StepsKeepArrivals
<1> QED BY <1>1, Types, PTL DEF Spec, QueueKeepsArrivals, ArrivalsKept

\* What crashedHandleOps leaves of an entry bans: with the constants of the code
\* 1000 \div 10 is more than both slacks.
CrashBans == Status([opsSeen |-> crashedOpsSeen, opsIncluded |-> 0]) = "banned"

\* The status of an entry can have got better.
BetterFor(ep, e) ==
    \/ entries'[ep][e].opsIncluded > entries[ep][e].opsIncluded
    \/ debug_bundler_clearState
    \/ debug_bundler_setReputation

BansKept ==
    \A ep \in EntryPoints, e \in Addresses :
        Status(entries[ep][e]) = "banned" =>
            Status(entries'[ep][e]) = "banned" \/ BetterFor(ep, e)

\* The same of the bundler's own getStatus.
BansHold ==
    \A ep \in EntryPoints, e \in Addresses :
        getStatus(ep, e) = "banned" =>
            \/ getStatus(ep, e)' = "banned"
            \/ entries'[ep][e].opsIncluded > entries[ep][e].opsIncluded
            \/ debug_bundler_clearState
            \/ debug_bundler_setReputation

LEMMA StepsKeepBans ==
    ASSUME CrashBans
    PROVE  TInv /\ [Next]_vars => BansKept
<1> SUFFICES ASSUME TInv, [Next]_vars PROVE BansKept
  OBVIOUS
<1>0. entries \in EntriesType
  BY DEF TInv, TypeOK, EntriesType
<1>1. ASSUME entries' \in EntriesType, SeenMore(entries, entries')
      PROVE  BansKept
  <2> SUFFICES ASSUME NEW ep \in EntryPoints, NEW e \in Addresses,
                      Status(entries[ep][e]) = "banned"
               PROVE  Status(entries'[ep][e]) = "banned"
    BY DEF BansKept
  <2> DEFINE r == entries[ep][e]
             q == entries'[ep][e]
  <2>1. r \in ReputationEntry /\ q \in ReputationEntry
    BY <1>0, <1>1 DEF EntriesType
  <2>2. r.opsSeen =< q.opsSeen /\ q.opsIncluded = r.opsIncluded
    BY <1>1 DEF SeenMore
  <2>3. q.opsIncluded =< r.opsIncluded
    BY <2>1, <2>2 DEF ReputationEntry
  <2> HIDE DEF r, q
  <2>4. Status(r) = "banned" => Status(q) = "banned"
    BY <2>1, <2>2, <2>3, StaysBanned
  <2> QED BY <2>4 DEF r, q
<1>2. ASSUME UNCHANGED entries PROVE BansKept
  BY <1>2 DEF BansKept
<1>3. ASSUME NEW c \in Clients, Request(c)
      PROVE  BansKept
  <2>1. CASE NonceRead(c) \/ NonceReadAgain(c)
    BY <1>1, <2>1, NonceReadKeeps DEF AddsUncounted
  <2>2. CASE AddChecked(c)
    BY <1>1, <2>2, AddCheckedKeeps
  <2>3. CASE ~ (NonceRead(c) \/ NonceReadAgain(c) \/ AddChecked(c))
    BY <1>2, <1>3, <2>3 DEF Request, Receive, Throws, checkReputation, reputationVars
  <2> QED BY <2>1, <2>2, <2>3
<1>4. ASSUME NEW p \in Processes, Tick(p) \/ Fetched(p)
      PROVE  BansKept
  <2>1. CASE Tick(p)
    BY <1>2, <2>1 DEF Tick, reputationVars
  <2>2. CASE Fetched(p)
    BY <1>1, <2>2, FetchedKeeps DEF AddsUncounted
  <2> QED BY <1>4, <2>1, <2>2
<1>5. ASSUME NEW o \in Ops, Bundler(o)
      PROVE  BansKept
  <2>1. CASE Taken(o) \/ Screened(o) \/ Executed(o) \/ Rejected(o)
    BY <1>2, <2>1 DEF Taken, Screened, Executed, Rejected, reputationVars
  <2>2. CASE Included(o)
    <3>1. /\ entries' \in EntriesType
          /\ \A ep \in EntryPoints, e \in Addresses :
                 /\ entries'[ep][e].opsSeen = entries[ep][e].opsSeen
                 /\ entries[ep][e].opsIncluded =< entries'[ep][e].opsIncluded
      BY <1>0, <2>2, IncludedKeeps DEF Included
    <3> SUFFICES ASSUME NEW ep \in EntryPoints, NEW e \in Addresses,
                        Status(entries[ep][e]) = "banned"
                 PROVE  Status(entries'[ep][e]) = "banned" \/ BetterFor(ep, e)
      BY DEF BansKept
    <3> DEFINE r == entries[ep][e]
               q == entries'[ep][e]
    <3>2. r \in ReputationEntry /\ q \in ReputationEntry
      BY <1>0, <3>1 DEF EntriesType
    <3>3. r.opsSeen = q.opsSeen /\ r.opsIncluded =< q.opsIncluded
      BY <3>1
    <3> HIDE DEF r, q
    <3>4. /\ r.opsSeen \in Nat /\ q.opsSeen \in Nat
          /\ r.opsIncluded \in Nat /\ q.opsIncluded \in Nat
      BY <3>2 DEF ReputationEntry
    <3>5. CASE q.opsIncluded > r.opsIncluded
      BY <3>5 DEF BetterFor, q, r
    <3>6. CASE ~ q.opsIncluded > r.opsIncluded
      <4>1. r.opsSeen =< q.opsSeen /\ q.opsIncluded =< r.opsIncluded
        BY <3>3, <3>4, <3>6
      <4>2. Status(r) = "banned" => Status(q) = "banned"
        BY <3>2, <4>1, StaysBanned
      <4> QED BY <4>2 DEF q, r
    <3> QED BY <3>5, <3>6
  <2>3. CASE Crashed(o)
    <3>1. \A ep \in EntryPoints, e \in Addresses :
              \/ entries'[ep][e] = entries[ep][e]
              \/ entries'[ep][e] = [opsSeen |-> crashedOpsSeen, opsIncluded |-> 0]
      BY <1>0, <2>3, CrashedKeeps DEF Crashed
    <3> QED BY <3>1 DEF BansKept, CrashBans
  <2>4. CASE Resubmitted(o)
    BY <1>1, <2>4, ResubmittedKeeps DEF AddsUncounted
  <2> QED BY <1>5, <2>1, <2>2, <2>3, <2>4 DEF Bundler
<1>6. CASE Debug
  BY <1>2, <1>6 DEF Debug, debug_bundler_clearMempool, BansKept, BetterFor
<1>7. CASE Started \/ \E s \in Slots : UsedElsewhere(s)
  BY <1>2, <1>7 DEF Started, UsedElsewhere, reputationVars
<1>8. CASE UNCHANGED vars
  BY <1>2, <1>8 DEF vars, reputationVars
<1> QED BY <1>3, <1>4, <1>5, <1>6, <1>7, <1>8 DEF Next

\* A ban is lifted by an inclusion or a debug endpoint alone: no number of
\* further operations, and no crash, of which the entry is all that is left,
\* makes a banned entity look better.
THEOREM BansLast ==
    ASSUME CrashBans
    PROVE  Spec => BanLasts
<1>1. TInv /\ [Next]_vars => [BansHold]_vars
  <2>1. BansKept => BansHold
    BY DEF BansKept, BansHold, BetterFor, getStatus
  <2> QED BY <2>1, StepsKeepBans
<1> QED BY <1>1, Types, PTL DEF Spec, BanLasts, BansHold
=============================================================================
