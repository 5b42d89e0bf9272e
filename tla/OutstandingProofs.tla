------------------------- MODULE OutstandingProofs -------------------------
(***************************************************************************)
(* The operators on the outstanding store, for any operations and limits.  *)
(*                                                                         *)
(* V8Sort keeps every operation, and afterwards no two neighbours are in   *)
(* the wrong order, although the comparator is not a consistent order.     *)
(*                                                                         *)
(* add() lets no two rivals in unless the sender's operations disagree     *)
(* about deploying it, and keeps a sender within its limits, as they hold: *)
(* one operation more than they say.                                       *)
(***************************************************************************)
EXTENDS MempoolAdd, SequenceLemmas

\* Neighbours are not descending: all that an inconsistent order allows.
NeighboursInOrder(s) == \A i \in 1..(Len(s) - 1) : ~ compare(s[i + 1], s[i]) < 0

Ordered == {s \in Seq(Ops) : NeighboursInOrder(s)}

LEMMA CompareType ==
    ASSUME NEW a \in Ops, NEW b \in Ops
    PROVE  /\ compare(a, b) \in Int
           /\ compare(a, b) < 0 => ~ compare(b, a) < 0
BY OpsAssumption DEF compare, Sender

-----------------------------------------------------------------------------
(* The binary search.                                                      *)

Bounds(t, x) ==
    {b \in [left : 0..Len(t), right : 0..Len(t)] :
        /\ b.left =< b.right
        /\ b.left = 0 \/ ~ compare(x, t[b.left]) < 0
        /\ b.right = Len(t) \/ compare(x, t[b.right + 1]) < 0}

LEMMA Midpoint ==
    ASSUME NEW l \in Nat, NEW r \in Nat, l < r
    PROVE  l + (r - l) \div 2 \in l..(r - 1)
OBVIOUS

LEMMA SearchEnds ==
    ASSUME NEW t \in Seq(Ops), NEW x \in Ops
    PROVE  Search(t, x) \in Bounds(t, x) /\ Search(t, x).left = Search(t, x).right
<1> DEFINE n == Len(t)
           B == Bounds(t, x)
           Turn(b, o) ==
               LET mid == b.left + (b.right - b.left) \div 2
               IN  IF b.left >= b.right THEN b
                   ELSE IF compare(x, t[mid + 1]) < 0 THEN [b EXCEPT !.right = mid]
                   ELSE [b EXCEPT !.left = mid + 1]
           base == [left |-> 0, right |-> n]
           step == [p \in (1..n) \X B |-> Turn(p[2], t[p[1]])]
           Body(g) == [T \in SUBSET DOMAIN t |->
                          IF T = {} THEN base ELSE Turn(g[T \ {Max(T)}], t[Max(T)])]
           h == CHOOSE g : g = Body(g)
<1>0. Search(t, x) = h[DOMAIN t]
  BY DEF Search, FoldLeft, MapThenFoldSet
<1>1. n \in Nat /\ DOMAIN t = 1..n /\ base \in B
  BY DEF Bounds
<1>2. ASSUME NEW b \in B, NEW o
      PROVE  /\ Turn(b, o) \in B
             /\ Turn(b, o).right - Turn(b, o).left =< b.right - b.left
             /\ b.left < b.right => Turn(b, o).right - Turn(b, o).left < b.right - b.left
  <2>1. CASE b.left >= b.right
    BY <2>1 DEF Bounds
  <2>2. CASE b.left < b.right
    <3> DEFINE m == b.left + (b.right - b.left) \div 2
    <3>1. m \in b.left..(b.right - 1)
      BY <2>2, Midpoint DEF Bounds
    <3> HIDE DEF m
    <3>2. m \in 0..n /\ m + 1 \in 1..n
      BY <1>1, <3>1 DEF Bounds
    <3>3. CASE compare(x, t[m + 1]) < 0
      <4>1. Turn(b, o) = [b EXCEPT !.right = m]
        BY <2>2, <3>3 DEF m, Bounds
      <4> HIDE DEF Turn
      <4> QED BY <2>2, <3>1, <3>2, <3>3, <4>1 DEF Bounds
    <3>4. CASE ~ compare(x, t[m + 1]) < 0
      <4>1. Turn(b, o) = [b EXCEPT !.left = m + 1]
        BY <2>2, <3>4 DEF m, Bounds
      <4> HIDE DEF Turn
      <4> QED BY <2>2, <3>1, <3>2, <3>4, <4>1 DEF Bounds
    <3> QED BY <3>3, <3>4
  <2>3. b.left \in Int /\ b.right \in Int
    BY DEF Bounds
  <2> QED BY <2>1, <2>2, <2>3
<1> HIDE DEF Turn
<1>3. step \in [(1..n) \X B -> B]
  BY <1>2
<1>4. PICK g \in [SUBSET (1..n) -> B] : Folding(g, 1..n, base, LastOf(n), step)
  <2> HIDE DEF step, base, n, B
  <2> QED BY <1>1, <1>3, FoldOnSequenceExists
<1>5. g = Body(g)
  <2>1. \A T \in SUBSET (1..n) : T # {} => Max(T) \in 1..n /\ T \ {Max(T)} \in SUBSET (1..n)
    BY <1>1, LastPosition
  <2>2. \A T \in SUBSET (1..n) :
            g[T] = IF T = {} THEN base ELSE Turn(g[T \ {Max(T)}], t[Max(T)])
    <3> HIDE DEF base, B, n
    <3> QED BY <1>4, <2>1 DEF Folding, LastOf
  <2> HIDE DEF base
  <2> QED BY <1>1, <1>4, <2>2
<1>6. h = Body(h)
  <2> HIDE DEF Body
  <2> QED BY <1>5
<1>7. h[1..0] = base /\ \A k \in 1..n : h[1..k] = Turn(h[1..(k-1)], t[k])
  <2>1. \A k \in 1..n : /\ 1..k \in SUBSET (1..n) /\ 1..k # {}
                        /\ Max(1..k) = k /\ (1..k) \ {k} = 1..(k - 1)
    BY <1>1, LastOfFirst
  <2>2. \A T \in SUBSET (1..n) :
            h[T] = IF T = {} THEN base ELSE Turn(h[T \ {Max(T)}], t[Max(T)])
    <3> HIDE DEF base, h, n
    <3> QED BY <1>1, <1>6
  <2>3. 1..0 \in SUBSET (1..n) /\ 1..0 = {}
    OBVIOUS
  <2> HIDE DEF base, h, n
  <2> QED BY <2>1, <2>2, <2>3
<1> HIDE DEF h
<1> DEFINE P == {k \in 0..n : /\ h[1..k] \in B
                              /\ \/ h[1..k].left = h[1..k].right
                                 \/ h[1..k].right - h[1..k].left =< n - k}
<1>8. \A k \in 0..n : k \in P
  <2>1. 0 \in P
    BY <1>1, <1>7
  <2>2. ASSUME NEW k \in 1..n, k - 1 \in P
        PROVE  k \in P
    <3> DEFINE b == h[1..(k-1)]
    <3>1. b \in B /\ (b.left = b.right \/ b.right - b.left =< n - (k-1))
      BY <2>2
    <3>2. h[1..k] = Turn(b, t[k])
      BY <1>7
    <3> HIDE DEF b
    <3>3. /\ h[1..k] \in B
          /\ h[1..k].right - h[1..k].left =< b.right - b.left
          /\ b.left < b.right => h[1..k].right - h[1..k].left < b.right - b.left
      BY <1>2, <3>1, <3>2
    <3>4. \A c \in B : c.left \in Int /\ c.right \in Int /\ c.left =< c.right
      BY DEF Bounds
    <3> HIDE DEF B
    <3> QED BY <1>1, <3>1, <3>3, <3>4
  <2> HIDE DEF P
  <2> QED BY <1>1, <2>1, <2>2, UpTo
<1>9. h[1..n] \in B /\ h[1..n].left = h[1..n].right
  <2>1. n \in P
    BY <1>1, <1>8
  <2>2. \A c \in B : c.left \in Int /\ c.right \in Int /\ c.left =< c.right
      BY DEF Bounds
  <2> HIDE DEF B
  <2> QED BY <1>1, <2>1, <2>2
<1> QED BY <1>0, <1>1, <1>9

-----------------------------------------------------------------------------
(* Inserting one operation, and the run the sort starts with.              *)

LEMMA InsertInOrder ==
    ASSUME NEW t \in Ordered, NEW x \in Ops
    PROVE  /\ BinaryInsert(t, x) \in Ordered
           /\ Len(BinaryInsert(t, x)) = Len(t) + 1
           /\ ToSet(BinaryInsert(t, x)) = ToSet(t) \cup {x}
           /\ IsInjective(t) /\ x \notin ToSet(t) => IsInjective(BinaryInsert(t, x))
<1> DEFINE p == Search(t, x).left
           k == p + 1
           u == InsertAt(t, k, x)
<1>1. t \in Seq(Ops) /\ Len(t) \in Nat /\ NeighboursInOrder(t)
  BY DEF Ordered
<1>2. /\ p \in 0..Len(t)
      /\ p = 0 \/ ~ compare(x, t[p]) < 0
      /\ p = Len(t) \/ compare(x, t[p + 1]) < 0
  BY <1>1, SearchEnds DEF Bounds
<1> HIDE DEF p
<1>3. k \in 1..(Len(t) + 1)
  BY <1>2
<1> HIDE DEF k
<1>4. /\ u \in Seq(Ops) /\ Len(u) = Len(t) + 1
      /\ \A i \in 1..(Len(t) + 1) :
             u[i] = IF i < k THEN t[i] ELSE IF i = k THEN x ELSE t[i - 1]
      /\ ToSet(u) = ToSet(t) \cup {x}
      /\ IsInjective(t) /\ x \notin ToSet(t) => IsInjective(u)
  BY <1>1, <1>3, InsertAtProperties, InsertAtElements
<1> HIDE DEF u
<1>5. ASSUME NEW i \in 1..(Len(u) - 1)
      PROVE  ~ compare(u[i + 1], u[i]) < 0
  <2>0. i \in 1..Len(t) /\ i + 1 \in 1..(Len(t) + 1) /\ i \in 1..(Len(t) + 1)
    BY <1>1, <1>4
  <2>1. CASE i + 1 < k
    <3>1. u[i + 1] = t[i + 1] /\ u[i] = t[i] /\ i \in 1..(Len(t) - 1)
      BY <1>1, <1>3, <1>4, <2>0, <2>1
    <3> QED BY <1>1, <3>1 DEF NeighboursInOrder
  <2>2. CASE i + 1 = k
    <3>1. u[i + 1] = x /\ u[i] = t[p] /\ p = i
      BY <1>2, <1>4, <2>0, <2>2 DEF k
    <3> QED BY <1>2, <2>0, <3>1
  <2>3. CASE i = k
    <3>1. u[i + 1] = t[i] /\ u[i] = x /\ i = p + 1
      BY <1>3, <1>4, <2>0, <2>3 DEF k
    <3>2. compare(x, t[i]) < 0 /\ t[i] \in Ops
      BY <1>1, <1>2, <2>0, <3>1
    <3> QED BY <3>1, <3>2, CompareType
  <2>4. CASE i > k
    <3>1. u[i + 1] = t[i] /\ u[i] = t[i - 1] /\ i - 1 \in 1..(Len(t) - 1) /\ (i - 1) + 1 = i
      BY <1>1, <1>3, <1>4, <2>0, <2>4
    <3> QED BY <1>1, <3>1 DEF NeighboursInOrder
  <2> QED BY <1>3, <2>1, <2>2, <2>3, <2>4
<1>6. BinaryInsert(t, x) = u
  BY DEF BinaryInsert, SearchPosition, u, k, p
<1> QED BY <1>4, <1>5, <1>6 DEF Ordered, NeighboursInOrder

LEMMA RunLengthType ==
    ASSUME NEW s \in Seq(Ops)
    PROVE  /\ RunLength(s) \in 0..Len(s)
           /\ Len(s) >= 2 =>
                /\ RunLength(s) >= 2
                /\ \A i \in 3..RunLength(s) : (compare(s[i], s[i - 1]) < 0)
                                                <=> (compare(s[2], s[2 - 1]) < 0)
<1>1. CASE Len(s) < 2
  BY <1>1 DEF RunLength
<1>2. CASE Len(s) >= 2
  <2> DEFINE Less(i) == compare(s[i], s[i - 1]) < 0
             K == {k \in 2..Len(s) : \A i \in 3..k : Less(i) = Less(2)}
  <2>1. 2 \in K /\ K # {} /\ K \in SUBSET (1..Len(s)) /\ Len(s) \in Nat
    BY <1>2
  <2>2. Max(K) \in K
    <3> HIDE DEF K
    <3> QED BY <2>1, LastPosition
  <2>3. RunLength(s) = Max(K)
    BY <1>2 DEF RunLength
  <2>4. \A k \in K : k \in 2..Len(s) /\ \A i \in 3..k : Less(i) <=> Less(2)
    OBVIOUS
  <2> HIDE DEF K
  <2> QED BY <2>2, <2>3, <2>4
<1> QED BY <1>1, <1>2

LEMMA FirstRunInOrder ==
    ASSUME NEW s \in Seq(Ops)
    PROVE  /\ FirstRun(s) \in Ordered
           /\ Len(FirstRun(s)) = RunLength(s)
           /\ ToSet(FirstRun(s)) = {s[i] : i \in 1..RunLength(s)}
           /\ IsInjective(s) => IsInjective(FirstRun(s))
<1> DEFINE r == RunLength(s)
           run == SubSeq(s, 1, r)
           rev == Reverse(run)
<1>1. /\ r \in 0..Len(s) /\ Len(s) \in Nat
      /\ Len(s) < 2 => r =< 1
      /\ Len(s) >= 2 => /\ r >= 2
                        /\ \A i \in 3..r : compare(s[i], s[i - 1]) < 0
                                             <=> compare(s[2], s[1]) < 0
  BY RunLengthType
<1> HIDE DEF r
<1>2. run \in Seq(Ops) /\ Len(run) = r /\ \A i \in 1..r : run[i] = s[i]
  BY <1>1, SubSeqProperties
<1> HIDE DEF run
<1>3. /\ rev \in Seq(Ops) /\ Len(rev) = r
      /\ \A i \in 1..r : rev[i] = s[r - i + 1]
  <2>1. \A i \in 1..r : r - i + 1 \in 1..r
    BY <1>1
  <2>2. rev = [i \in 1..r |-> run[(r - i) + 1]]
    BY <1>2 DEF Reverse
  <2>3. \A i \in 1..r : run[(r - i) + 1] \in Ops
    BY <1>2, <2>1
  <2> QED BY <1>1, <1>2, <2>1, <2>2, <2>3
<1> HIDE DEF rev
<1>4. CASE Len(s) >= 2 /\ compare(s[2], s[1]) < 0
  <2>1. FirstRun(s) = rev
    BY <1>4 DEF FirstRun, rev, run, r
  <2>2. \A i \in 2..r : compare(s[i], s[i - 1]) < 0
    <3> TAKE i \in 2..r
    <3>1. CASE i = 2
      BY <1>4, <3>1
    <3>2. CASE i # 2
      BY <1>1, <1>4, <3>2
    <3> QED BY <3>1, <3>2
  <2>3. ASSUME NEW i \in 1..(r - 1)
        PROVE  ~ compare(rev[i + 1], rev[i]) < 0
    <3> DEFINE j == r - i + 1
    <3>1. j \in 2..r /\ j \in 1..Len(s) /\ j - 1 \in 1..Len(s) /\ r - (i + 1) + 1 = j - 1
      BY <1>1
    <3>2. rev[i + 1] = s[j - 1] /\ rev[i] = s[j]
      BY <1>1, <1>3, <3>1
    <3> HIDE DEF j
    <3>3. compare(s[j], s[j - 1]) < 0
      BY <2>2, <3>1
    <3>4. s[j] \in Ops /\ s[j - 1] \in Ops
      BY <3>1
    <3>5. ~ compare(s[j - 1], s[j]) < 0
      BY <3>3, <3>4, CompareType
    <3> QED BY <3>2, <3>5
  <2>4. \A i \in 1..r : r - i + 1 \in 1..r /\ r - (r - i + 1) + 1 = i
    BY <1>1
  <2>5. ToSet(rev) = {s[i] : i \in 1..r}
    <3>1. \A i \in 1..r : rev[i] \in {s[j] : j \in 1..r} /\ s[i] \in {rev[j] : j \in 1..r}
      BY <1>3, <2>4
    <3>2. ToSet(rev) = {rev[i] : i \in 1..r}
      BY <1>3, SequenceElements
    <3> QED BY <3>1, <3>2
  <2>6. ASSUME IsInjective(s)
        PROVE  IsInjective(rev)
    <3>1. \A i, j \in 1..Len(s) : s[i] = s[j] => i = j
      BY <2>6, SequenceElements
    <3>2. \A i, j \in 1..r : rev[i] = rev[j] => i = j
      <4> TAKE i, j \in 1..r
      <4> HAVE rev[i] = rev[j]
      <4>1. s[r - i + 1] = s[r - j + 1]
        BY <1>3
      <4>2. r - i + 1 \in 1..Len(s) /\ r - j + 1 \in 1..Len(s)
        BY <1>1, <2>4
      <4>3. r - i + 1 = r - j + 1
        BY <3>1, <4>1, <4>2
      <4> QED BY <1>1, <4>3
    <3> QED BY <1>3, <3>2, SequenceElements
  <2> QED BY <1>3, <2>1, <2>3, <2>5, <2>6 DEF Ordered, NeighboursInOrder, r
<1>5. CASE ~ (Len(s) >= 2 /\ compare(s[2], s[1]) < 0)
  <2>1. FirstRun(s) = run
    BY <1>5 DEF FirstRun, run, r
  <2>2. ASSUME NEW i \in 1..(r - 1)
        PROVE  ~ compare(run[i + 1], run[i]) < 0
    <3>1. i + 1 \in 2..r /\ i \in 1..r /\ i + 1 \in 1..r /\ (i + 1) - 1 = i /\ Len(s) >= 2
      BY <1>1
    <3>2. run[i + 1] = s[i + 1] /\ run[i] = s[i]
      BY <1>2, <3>1
    <3>3. CASE i = 1
      BY <1>5, <3>1, <3>2, <3>3
    <3>4. CASE i # 1
      <4>1. i + 1 \in 3..r
        BY <3>1, <3>4
      <4>2. ~ compare(s[i + 1], s[(i + 1) - 1]) < 0
        BY <1>1, <1>5, <3>1, <4>1
      <4> QED BY <3>1, <3>2, <4>2
    <3> QED BY <3>3, <3>4
  <2>3. ToSet(run) = {s[i] : i \in 1..r}
    BY <1>2, SequenceElements
  <2>4. IsInjective(s) => IsInjective(run)
    BY <1>1, <1>2, SequenceElements
  <2> QED BY <1>2, <2>1, <2>2, <2>3, <2>4 DEF Ordered, NeighboursInOrder, r
<1> QED BY <1>4, <1>5

-----------------------------------------------------------------------------
(* The whole sort, for a sequence of any length.                           *)

\* process sorts what is outstanding: no operation is lost or duplicated, and
\* no neighbours are left in the wrong order.
THEOREM SortProperties ==
    ASSUME NEW s \in Seq(Ops)
    PROVE  /\ V8Sort(s) \in Ordered
           /\ Len(V8Sort(s)) = Len(s)
           /\ ToSet(V8Sort(s)) = ToSet(s)
           /\ IsInjective(s) => IsInjective(V8Sort(s))
<1> DEFINE r == RunLength(s)
           n == Len(s) - r
           rest == SubSeq(s, r + 1, Len(s))
           base == FirstRun(s)
           step == [q \in (1..n) \X Ordered |-> BinaryInsert(q[2], rest[q[1]])]
           Body(g) == [T \in SUBSET DOMAIN rest |->
                          IF T = {} THEN base
                          ELSE BinaryInsert(g[T \ {Max(T)}], rest[Max(T)])]
           h == CHOOSE g : g = Body(g)
<1>0. V8Sort(s) = h[DOMAIN rest]
  BY DEF V8Sort, FoldLeft, MapThenFoldSet
<1>1. r \in 0..Len(s) /\ Len(s) \in Nat
  BY RunLengthType
<1> HIDE DEF r
<1>2. /\ n \in Nat /\ rest \in Seq(Ops) /\ Len(rest) = n /\ DOMAIN rest = 1..n
      /\ \A i \in 1..n : rest[i] = s[r + i] /\ rest[i] \in Ops /\ r + i \in 1..Len(s)
  BY <1>1, SubSeqProperties
<1>3. /\ base \in Ordered /\ Len(base) = r
      /\ ToSet(base) = {s[i] : i \in 1..r}
      /\ IsInjective(s) => IsInjective(base)
  BY FirstRunInOrder DEF r
<1> HIDE DEF base, rest, n
<1>4. step \in [(1..n) \X Ordered -> Ordered]
  BY <1>2, InsertInOrder
<1>5. PICK g \in [SUBSET (1..n) -> Ordered] : Folding(g, 1..n, base, LastOf(n), step)
  <2> HIDE DEF step
  <2> QED BY <1>2, <1>3, <1>4, FoldOnSequenceExists
<1>6. g = Body(g)
  <2>1. \A T \in SUBSET (1..n) : T # {} => Max(T) \in 1..n /\ T \ {Max(T)} \in SUBSET (1..n)
    BY <1>2, LastPosition
  <2>2. \A T \in SUBSET (1..n) :
            g[T] = IF T = {} THEN base ELSE BinaryInsert(g[T \ {Max(T)}], rest[Max(T)])
    BY <1>5, <2>1 DEF Folding, LastOf
  <2> QED BY <1>2, <1>5, <2>2
<1>7. h = Body(h)
  <2> HIDE DEF Body
  <2> QED BY <1>6
<1>8. h[1..0] = base /\ \A k \in 1..n : h[1..k] = BinaryInsert(h[1..(k-1)], rest[k])
  <2>1. \A k \in 1..n : /\ 1..k \in SUBSET (1..n) /\ 1..k # {}
                        /\ Max(1..k) = k /\ (1..k) \ {k} = 1..(k - 1)
    BY <1>2, LastOfFirst
  <2>2. \A T \in SUBSET (1..n) :
            h[T] = IF T = {} THEN base ELSE BinaryInsert(h[T \ {Max(T)}], rest[Max(T)])
    <3> HIDE DEF h
    <3> QED BY <1>2, <1>7
  <2>3. 1..0 \in SUBSET (1..n) /\ 1..0 = {}
    OBVIOUS
  <2> HIDE DEF h
  <2> QED BY <2>1, <2>2, <2>3
<1> HIDE DEF h
<1> DEFINE Upto(k) == {s[i] : i \in 1..(r + k)}
           P == {k \in 0..n : /\ h[1..k] \in Ordered /\ Len(h[1..k]) = r + k
                              /\ ToSet(h[1..k]) = Upto(k)
                              /\ IsInjective(s) => IsInjective(h[1..k])}
<1>9. \A k \in 0..n : k \in P
  <2>1. 0 \in P
    <3>1. 0 \in 0..n /\ r + 0 = r
      BY <1>1, <1>2
    <3> QED BY <1>3, <1>8, <3>1
  <2>2. ASSUME NEW k \in 1..n, k - 1 \in P
        PROVE  k \in P
    <3> DEFINE t == h[1..(k - 1)]
               u == h[1..k]
    <3>1. /\ t \in Ordered /\ Len(t) = r + (k - 1) /\ ToSet(t) = Upto(k - 1)
          /\ IsInjective(s) => IsInjective(t)
      BY <2>2
    <3>2. u = BinaryInsert(t, s[r + k]) /\ s[r + k] \in Ops /\ r + k \in 1..Len(s)
      BY <1>2, <1>8
    <3> HIDE DEF t, u
    <3>3. /\ u \in Ordered /\ Len(u) = Len(t) + 1 /\ ToSet(u) = ToSet(t) \cup {s[r + k]}
          /\ IsInjective(t) /\ s[r + k] \notin ToSet(t) => IsInjective(u)
      BY <3>1, <3>2, InsertInOrder
    <3>4. Upto(k) = Upto(k - 1) \cup {s[r + k]}
      <4>1. 1..(r + k) = 1..(r + (k - 1)) \cup {r + k}
        BY <1>1
      <4> QED BY <4>1
    <3>5. ASSUME IsInjective(s)
          PROVE  IsInjective(u)
      <4>1. \A i, j \in 1..Len(s) : s[i] = s[j] => i = j
        BY <3>5, SequenceElements
      <4>2. \A i \in 1..(r + (k - 1)) : i \in 1..Len(s) /\ i # r + k
        BY <1>1, <3>2
      <4>3. s[r + k] \notin Upto(k - 1)
        BY <3>2, <4>1, <4>2
      <4> HIDE DEF Upto
      <4> QED BY <3>1, <3>3, <3>5, <4>3
    <3>6. Len(u) = r + k /\ k \in 0..n
      BY <1>1, <3>1, <3>3
    <3> HIDE DEF Upto
    <3>7. ToSet(u) = Upto(k)
      BY <3>1, <3>3, <3>4
    <3> QED BY <3>3, <3>5, <3>6, <3>7 DEF u
  <2> HIDE DEF P
  <2> QED BY <1>2, <2>1, <2>2, UpTo
<1>10. n \in P /\ r + n = Len(s)
  <2>1. n \in P
    <3> HIDE DEF P
    <3>1. n \in 0..n
      BY <1>2
    <3> QED BY <1>9, <3>1
  <2>2. r + n = Len(s)
    BY <1>1 DEF n
  <2> QED BY <2>1, <2>2
<1>11. Upto(n) = ToSet(s)
  BY <1>10, SequenceElements
<1> QED BY <1>0, <1>2, <1>10, <1>11

-----------------------------------------------------------------------------
(* What add() keeps.                                                       *)

\* Of a set S of outstanding operations, among those of K that were ever accepted:
\* their order does not matter here.
NoRivals(S, K) ==
    \A p, q \in S : Conflicts(p, q) => p = q \/ Disputed(Sender(p), K)

OfSender(S, o) == {p \in S : Sender(p) = Sender(o)}

OfKey(S, o) == {p \in OfSender(S, o) : userOp[p].nonceKey = userOp[o].nonceKey}

\* Both limits admit one more: the check comes before the push.
Limited(S) ==
    \A o \in Ops : /\ Cardinality(OfSender(S, o)) =< mempoolMaxParallelOps + 1
                   /\ Cardinality(OfKey(S, o)) =< mempoolMaxQueuedOps + 1

AddInv(S, K) == NoRivals(S, K) /\ Limited(S)

-----------------------------------------------------------------------------
(* Counting.                                                               *)

\* Positions of a sequence without repetitions count its elements.
LEMMA PositionsCount ==
    ASSUME NEW s \in Seq(Ops), IsInjective(s), NEW I \in SUBSET (1..Len(s))
    PROVE  LET T == {s[i] : i \in I} IN
           IsFiniteSet(T) /\ Cardinality(T) = Cardinality(I)
<1> DEFINE T == {s[i] : i \in I}
           f == [i \in I |-> s[i]]
<1>1. IsFiniteSet(I)
  <2>1. IsFiniteSet(1..Len(s))
    BY FS_Interval
  <2> QED BY <2>1, FS_Subset
<1>2. \A i, j \in I : s[i] = s[j] => i = j
  BY SequenceElements
<1>3. f \in Surjection(I, T)
  BY DEF Surjection
<1>4. f \in Injection(I, T)
  BY <1>2 DEF Injection, IsInjective
<1> HIDE DEF T, f
<1>5. IsFiniteSet(T) /\ Cardinality(T) = Cardinality(I)
  BY <1>1, <1>3, <1>4, FS_Surjection
<1> QED BY <1>5 DEF T

\* What the two filters of add() find is what the limits are about.
LEMMA LimitsCount ==
    ASSUME NEW s \in Seq(Ops), IsInjective(s), NEW o \in Ops
    PROVE  /\ WithinLimits(o, s) <=>
                /\ Cardinality(OfSender(ToSet(s), o)) =< mempoolMaxParallelOps
                /\ Cardinality(OfKey(ToSet(s), o)) =< mempoolMaxQueuedOps
           /\ IsFiniteSet(ToSet(s))
           /\ IsFiniteSet(OfSender(ToSet(s), o)) /\ IsFiniteSet(OfKey(ToSet(s), o))
<1> DEFINE I == parallelUserOperations(o, s)
           J == queuedUserOperations(o, s)
<1>1. I \in SUBSET (1..Len(s)) /\ J \in SUBSET (1..Len(s))
  BY DEF parallelUserOperations, queuedUserOperations
<1>2. OfSender(ToSet(s), o) = {s[i] : i \in I}
  BY SequenceElements DEF OfSender, parallelUserOperations
<1>3. OfKey(ToSet(s), o) = {s[i] : i \in J}
  BY <1>2 DEF OfKey, queuedUserOperations
<1>4. ToSet(s) = {s[i] : i \in 1..Len(s)}
  BY SequenceElements
<1>5. IsFiniteSet(ToSet(s))
  BY <1>4, PositionsCount
<1> HIDE DEF I, J
<1>6. /\ IsFiniteSet(OfSender(ToSet(s), o))
      /\ Cardinality(OfSender(ToSet(s), o)) = Cardinality(I)
  BY <1>1, <1>2, PositionsCount
<1>7. /\ IsFiniteSet(OfKey(ToSet(s), o))
      /\ Cardinality(OfKey(ToSet(s), o)) = Cardinality(J)
  BY <1>1, <1>3, PositionsCount
<1> QED BY <1>5, <1>6, <1>7 DEF WithinLimits, I, J

LEMMA FewerOps ==
    ASSUME NEW S, IsFiniteSet(S), NEW T \in SUBSET S,
           NEW L, NEW K \in SUBSET L, AddInv(S, K)
    PROVE  AddInv(T, L)
<1>1. NoRivals(T, L)
  BY DEF AddInv, NoRivals, Disputed
<1>2. ASSUME NEW o \in Ops
      PROVE  /\ Cardinality(OfSender(T, o)) =< mempoolMaxParallelOps + 1
             /\ Cardinality(OfKey(T, o)) =< mempoolMaxQueuedOps + 1
  <2>1. /\ OfSender(S, o) \in SUBSET S /\ OfKey(S, o) \in SUBSET S
        /\ OfSender(T, o) \in SUBSET OfSender(S, o)
        /\ OfKey(T, o) \in SUBSET OfKey(S, o)
    BY DEF OfSender, OfKey
  <2>2. IsFiniteSet(OfSender(S, o)) /\ IsFiniteSet(OfKey(S, o))
    BY <2>1, FS_Subset
  <2>3. /\ Cardinality(OfSender(T, o)) =< Cardinality(OfSender(S, o))
        /\ Cardinality(OfKey(T, o)) =< Cardinality(OfKey(S, o))
    BY <2>1, <2>2, FS_Subset
  <2>4. /\ Cardinality(OfSender(T, o)) \in Nat /\ Cardinality(OfSender(S, o)) \in Nat
        /\ Cardinality(OfKey(T, o)) \in Nat /\ Cardinality(OfKey(S, o)) \in Nat
    BY <2>1, <2>2, FS_Subset, FS_CardinalityType
  <2> QED BY <2>3, <2>4, AddAssumption DEF AddInv, Limited
<1> QED BY <1>1, <1>2 DEF AddInv, Limited

LEMMA OneMoreOp ==
    ASSUME NEW T \in SUBSET Ops, IsFiniteSet(T), NEW o \in Ops, Limited(T),
           Cardinality(OfSender(T, o)) =< mempoolMaxParallelOps,
           Cardinality(OfKey(T, o)) =< mempoolMaxQueuedOps
    PROVE  Limited(T \cup {o})
<1> SUFFICES ASSUME NEW q \in Ops
             PROVE  /\ Cardinality(OfSender(T \cup {o}, q)) =< mempoolMaxParallelOps + 1
                    /\ Cardinality(OfKey(T \cup {o}, q)) =< mempoolMaxQueuedOps + 1
  BY DEF Limited
<1> DEFINE A == OfSender(T, o)
           B == OfKey(T, o)
<1>1. /\ IsFiniteSet(A) /\ IsFiniteSet(B)
  <2>1. A \in SUBSET T /\ B \in SUBSET T
    BY DEF OfSender, OfKey
  <2> QED BY <2>1, FS_Subset
<1>2. /\ Cardinality(A) \in Nat /\ Cardinality(B) \in Nat
      /\ Cardinality(A \cup {o}) \in Nat /\ Cardinality(B \cup {o}) \in Nat
      /\ Cardinality(A \cup {o}) =< Cardinality(A) + 1
      /\ Cardinality(B \cup {o}) =< Cardinality(B) + 1
  <2>1. Cardinality(A) \in Nat /\ Cardinality(B) \in Nat
    BY <1>1, FS_CardinalityType
  <2> HIDE DEF A, B
  <2>2. /\ Cardinality(A \cup {o}) = IF o \in A THEN Cardinality(A) ELSE Cardinality(A) + 1
        /\ Cardinality(B \cup {o}) = IF o \in B THEN Cardinality(B) ELSE Cardinality(B) + 1
    BY <1>1, FS_AddElement
  <2> QED BY <2>1, <2>2
<1>3. OfSender(T \cup {o}, q) = IF Sender(q) = Sender(o) THEN A \cup {o}
                                ELSE OfSender(T, q)
  BY DEF OfSender
<1>4. OfKey(T \cup {o}, q) =
          IF Sender(q) = Sender(o) /\ userOp[q].nonceKey = userOp[o].nonceKey
          THEN B \cup {o} ELSE OfKey(T, q)
  BY DEF OfSender, OfKey
<1>5. /\ Cardinality(OfSender(T, q)) =< mempoolMaxParallelOps + 1
      /\ Cardinality(OfKey(T, q)) =< mempoolMaxQueuedOps + 1
  BY DEF Limited
<1>6. /\ Cardinality(A \cup {o}) =< mempoolMaxParallelOps + 1
      /\ Cardinality(B \cup {o}) =< mempoolMaxQueuedOps + 1
  <2> HIDE DEF A, B
  <2> QED BY <1>2, AddAssumption DEF A, B
<1> QED BY <1>3, <1>4, <1>5, <1>6

-----------------------------------------------------------------------------
(* Rivals.                                                                 *)

\* Rivalry relates operations of one sender.  Where that sender's operations do not
\* disagree about deploying it, rivalry goes both ways, and rivals of one operation
\* are rivals.
LEMMA Rivalry ==
    ASSUME NEW K \in SUBSET Ops, NEW o \in K, NEW p \in K, NEW q \in K,
           Conflicts(p, o)
    PROVE  /\ Sender(p) = Sender(o)
           /\ ~ Disputed(Sender(o), K) =>
                 /\ Conflicts(o, p)
                 /\ Conflicts(q, o) => Conflicts(p, q)
<1>1. Sender(p) = Sender(o)
  BY DEF Conflicts, SameNonce, SameDeployment
<1>2. ASSUME ~ Disputed(Sender(o), K)
      PROVE  /\ Conflicts(o, p)
             /\ Conflicts(q, o) => Conflicts(p, q)
  <2>1. \A a, b \in K : SameNonce(a, b) /\ Sender(a) = Sender(o) =>
             (Deploys(a) <=> Deploys(b)) /\ isVersion06(a) = isVersion06(b)
    BY <1>2 DEF Disputed
  <2> QED BY <1>1, <2>1 DEF Conflicts, SameNonce, SameDeployment
<1> QED BY <1>1, <1>2

LEMMA OldOp ==
    ASSUME NEW s \in Seq(Ops), NEW o \in Ops
    PROVE  \/ /\ oldUserOp(o, s) = 0
              /\ \A p \in ToSet(s) : ~ Conflicts(p, o)
           \/ /\ oldUserOp(o, s) \in 1..Len(s)
              /\ Conflicts(s[oldUserOp(o, s)], o)
<1> DEFINE I == {i \in 1..Len(s) : Conflicts(s[i], o)}
<1>1. oldUserOp(o, s) = IF I = {} THEN 0 ELSE Min(I)
  BY DEF oldUserOp, SelectInSeq
<1>2. CASE I = {}
  BY <1>1, <1>2, SequenceElements
<1>3. CASE I # {}
  <2>1. Min(I) \in I
    <3>1. I \in SUBSET Nat
      OBVIOUS
    <3> HIDE DEF I
    <3> QED BY <1>3, <3>1, FirstPosition
  <2> QED BY <1>1, <1>3, <2>1
<1> QED BY <1>2, <1>3

LEMMA RemainingOps ==
    ASSUME NEW s \in Seq(Ops), IsInjective(s), NEW o \in Ops
    PROVE  /\ Remaining(o, s) \in Seq(Ops) /\ IsInjective(Remaining(o, s))
           /\ \/ /\ oldUserOp(o, s) = 0
                 /\ ToSet(Remaining(o, s)) = ToSet(s)
                 /\ \A p \in ToSet(s) : ~ Conflicts(p, o)
              \/ /\ oldUserOp(o, s) # 0
                 /\ \E old \in ToSet(s) :
                        /\ Conflicts(old, o)
                        /\ ToSet(Remaining(o, s)) = ToSet(s) \ {old}
<1> DEFINE i == oldUserOp(o, s)
<1>1. CASE i = 0
  BY <1>1, OldOp DEF Remaining
<1>2. CASE i # 0
  <2>1. i \in 1..Len(s) /\ Conflicts(s[i], o) /\ Remaining(o, s) = RemoveFirst(s, s[i])
    BY <1>2, OldOp DEF Remaining
  <2> HIDE DEF i
  <2>2. s[i] \in ToSet(s)
    BY <2>1, SequenceElements
  <2>3. /\ Remaining(o, s) \in Seq(Ops) /\ IsInjective(Remaining(o, s))
        /\ ToSet(Remaining(o, s)) = ToSet(s) \ {s[i]}
    BY <2>1, RemoveFirstProperties
  <2> QED BY <1>2, <2>1, <2>2, <2>3 DEF i
<1> QED BY <1>1, <1>2

\* The outstanding store after add(), as a set, and what has been accepted then.
LEMMA AddKeepsAddInv ==
    ASSUME NEW K \in SUBSET Ops, NEW s \in Seq(Ops), IsInjective(s), ToSet(s) \subseteq K,
           AddInv(ToSet(s), K), NEW o \in Ops, NEW busy
    PROVE  AddInv(ToSet(OutstandingAfterAdd(o, s, busy)),
                  IF Accepted(o, s, busy) THEN K \cup {o} ELSE K)
<1> DEFINE rem == Remaining(o, s)
           T == ToSet(rem)
           L == K \cup {o}
<1>1. /\ rem \in Seq(Ops) /\ IsInjective(rem) /\ T \in SUBSET ToSet(s)
      /\ \/ \A p \in ToSet(s) : ~ Conflicts(p, o)
         \/ \E old \in ToSet(s) : Conflicts(old, o) /\ T = ToSet(s) \ {old}
  BY RemainingOps
<1> HIDE DEF rem
<1>2. IsFiniteSet(ToSet(s)) /\ IsFiniteSet(T)
  BY <1>1, LimitsCount
<1>3. AddInv(T, K) /\ AddInv(ToSet(s), L) /\ AddInv(T, L) /\ AddInv(ToSet(s), K)
  <2>1. K \in SUBSET K /\ K \in SUBSET L /\ ToSet(s) \in SUBSET ToSet(s)
    OBVIOUS
  <2> HIDE DEF L, T
  <2> QED BY <1>1, <1>2, <2>1, FewerOps
<1>4. ASSUME WithinLimits(o, rem)
      PROVE  AddInv(T \cup {o}, L)
  <2>1. Limited(T \cup {o})
    <3>1. /\ Cardinality(OfSender(T, o)) =< mempoolMaxParallelOps
          /\ Cardinality(OfKey(T, o)) =< mempoolMaxQueuedOps
      BY <1>1, <1>4, LimitsCount
    <3>2. T \in SUBSET Ops /\ Limited(T)
      BY <1>1, <1>3 DEF AddInv
    <3> HIDE DEF T
    <3> QED BY <1>2, <3>1, <3>2, OneMoreOp
  <2>2. NoRivals(T \cup {o}, L)
    <3>1. NoRivals(ToSet(s), L) /\ NoRivals(T, L)
      BY <1>3 DEF AddInv
    <3>2. L \in SUBSET Ops /\ o \in L /\ T \subseteq L /\ ToSet(s) \subseteq L
      BY <1>1
    <3> HIDE DEF L, T
    <3>3. CASE Disputed(Sender(o), L)
      <4>1. \A p \in L : Conflicts(p, o) \/ Conflicts(o, p) => Sender(p) = Sender(o)
        BY <3>2, Rivalry
      <4> QED BY <3>1, <3>2, <3>3, <4>1 DEF NoRivals
    <3>4. ASSUME ~ Disputed(Sender(o), L)
          PROVE  \A p \in T : ~ Conflicts(p, o)
      <4>1. CASE \A p \in ToSet(s) : ~ Conflicts(p, o)
        BY <1>1, <4>1
      <4>2. ASSUME NEW old \in ToSet(s), Conflicts(old, o), T = ToSet(s) \ {old},
                   NEW p \in T, Conflicts(p, o)
            PROVE  FALSE
        <5>1. old \in L /\ p \in L /\ p \in ToSet(s) /\ p # old
          BY <1>1, <3>2, <4>2
        <5>2. Conflicts(p, old) /\ Sender(p) = Sender(o)
          BY <3>2, <3>4, <4>2, <5>1, Rivalry
        <5> QED BY <3>1, <3>4, <4>2, <5>1, <5>2 DEF NoRivals
      <4> QED BY <1>1, <4>1, <4>2
    <3>5. ASSUME ~ Disputed(Sender(o), L)
          PROVE  \A p \in T : ~ Conflicts(o, p)
      <4> SUFFICES ASSUME NEW p \in T, Conflicts(o, p)
                   PROVE  FALSE
        OBVIOUS
      <4>1. p \in L /\ Sender(o) = Sender(p)
        BY <3>2, Rivalry
      <4>2. Conflicts(p, o)
        BY <3>2, <3>5, <4>1, Rivalry
      <4> QED BY <3>4, <3>5, <4>2
    <3> QED BY <3>1, <3>3, <3>4, <3>5 DEF NoRivals
  <2> QED BY <2>1, <2>2 DEF AddInv
<1>5. ToSet(Append(rem, o)) = T \cup {o}
  BY <1>1, AppendElements
<1> HIDE DEF T
<1>6. ASSUME Accepted(o, s, busy)
      PROVE  AddInv(ToSet(OutstandingAfterAdd(o, s, busy)), L)
  BY <1>4, <1>5, <1>6 DEF Accepted, OutstandingAfterAdd, rem, T
<1>7. ASSUME ~ Accepted(o, s, busy)
      PROVE  AddInv(ToSet(OutstandingAfterAdd(o, s, busy)), K)
  BY <1>3, <1>7 DEF Accepted, OutstandingAfterAdd, rem, T
<1> QED BY <1>6, <1>7

\* An operation that would replace one of its own nonce key is never over the
\* limits: without the other, its sender is at them at most.
LEMMA ReplacementFits ==
    ASSUME NEW s \in Seq(Ops), IsInjective(s), Limited(ToSet(s)), NEW o \in Ops,
           NEW i \in 1..Len(s), i = oldUserOp(o, s),
           userOp[s[i]].nonceKey = userOp[o].nonceKey
    PROVE  WithinLimits(o, Remaining(o, s))
<1> DEFINE rem == Remaining(o, s)
           S == ToSet(s)
           old == s[i]
<1>1. /\ rem \in Seq(Ops) /\ IsInjective(rem) /\ old \in S
      /\ Sender(old) = Sender(o) /\ ToSet(rem) = S \ {old}
  <2>1. Conflicts(s[i], o) /\ Remaining(o, s) = RemoveFirst(s, s[i])
    BY OldOp DEF Remaining
  <2>2. s[i] \in ToSet(s)
    BY SequenceElements
  <2> QED BY <2>1, <2>2, RemoveFirstProperties
          DEF Conflicts, SameNonce, SameDeployment
<1>2. userOp[old].nonceKey = userOp[o].nonceKey
  OBVIOUS
<1> HIDE DEF rem, S, old
<1>3. /\ IsFiniteSet(OfSender(S, o)) /\ IsFiniteSet(OfKey(S, o))
      /\ Cardinality(OfSender(S, o)) \in Nat /\ Cardinality(OfKey(S, o)) \in Nat
      /\ Cardinality(OfSender(S, o)) =< mempoolMaxParallelOps + 1
      /\ Cardinality(OfKey(S, o)) =< mempoolMaxQueuedOps + 1
  <2>1. IsFiniteSet(OfSender(S, o)) /\ IsFiniteSet(OfKey(S, o)) /\ Limited(S)
    BY LimitsCount DEF S
  <2> QED BY <2>1, FS_CardinalityType DEF Limited
<1>4. Cardinality(OfSender(ToSet(rem), o)) =< mempoolMaxParallelOps
  <2>1. OfSender(ToSet(rem), o) = OfSender(S, o) \ {old} /\ old \in OfSender(S, o)
    BY <1>1 DEF OfSender
  <2>2. Cardinality(OfSender(S, o) \ {old}) = Cardinality(OfSender(S, o)) - 1
    BY <1>3, <2>1, FS_RemoveElement
  <2> QED BY <1>3, <2>1, <2>2, AddAssumption
<1>5. Cardinality(OfKey(ToSet(rem), o)) =< mempoolMaxQueuedOps
  <2>1. OfKey(ToSet(rem), o) = OfKey(S, o) \ {old} /\ old \in OfKey(S, o)
    BY <1>1, <1>2 DEF OfSender, OfKey
  <2>2. Cardinality(OfKey(S, o) \ {old}) = Cardinality(OfKey(S, o)) - 1
    BY <1>3, <2>1, FS_RemoveElement
  <2> QED BY <1>3, <2>1, <2>2, AddAssumption
<1> QED BY <1>1, <1>4, <1>5, LimitsCount DEF rem
=============================================================================
