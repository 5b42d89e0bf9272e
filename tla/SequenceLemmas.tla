--------------------------- MODULE SequenceLemmas ---------------------------
(***************************************************************************)
(* Sequences, as src/mempool/store.ts keeps its stores: what removing the  *)
(* first match, appending and inserting do to the elements, to their order *)
(* and to how often one of them occurs.                                    *)
(*                                                                         *)
(* What a fold over the positions of a sequence computes, from first to    *)
(* last; sums over finite sets, and how they change with one of the terms; *)
(* the elements of a sequence of sequences that is flattened.              *)
(*                                                                         *)
(* Several are proved by looking for the least counterexample: the         *)
(* library's induction theorems take an operator as a parameter.           *)
(***************************************************************************)
EXTENDS Integers, SequencesExt, FiniteSetTheorems, SequenceTheorems, TLAPS

\* A non-empty set of positions has a first one.  (If it had none, the lower
\* bounds of the set would be closed under +1, and finite.)
LEMMA FirstPosition ==
    ASSUME NEW I \in SUBSET Nat, I # {}
    PROVE  Min(I) \in I /\ \A y \in I : Min(I) =< y
<1> DEFINE IsFirst(x) == x \in I /\ \A y \in I : x =< y
<1>1. ASSUME \A x \in I : ~ IsFirst(x) PROVE FALSE
  <2>1. PICK n \in I : TRUE
    OBVIOUS
  <2> DEFINE K == {x \in 0..n : \A y \in I : x =< y}
             f == [x \in K |-> x + 1]
  <2>2. 0 \in K /\ K \in SUBSET (0..n)
    BY <2>1
  <2>3. IsFiniteSet(0..n)
    BY <2>1, FS_Interval
  <2>4. IsFiniteSet(K) /\ Cardinality(K) \in Nat
    <3> HIDE DEF K
    <3> QED BY <2>2, <2>3, FS_Subset, FS_CardinalityType
  <2>5. \A x \in K : x + 1 \in K \ {0}
    BY <1>1, <2>1
  <2>6. f \in Injection(K, K \ {0})
    BY <2>5 DEF Injection, IsInjective
  <2> HIDE DEF f
  <2>7. Cardinality(K) =< Cardinality(K \ {0})
    <3> DEFINE T == K \ {0}
    <3>1. IsFiniteSet(T)
      BY <2>4, FS_RemoveElement
    <3>2. f \in Injection(K, T)
      BY <2>6
    <3> HIDE DEF K, T
    <3>3. Cardinality(K) =< Cardinality(T)
      BY <3>1, <3>2, FS_Injection
    <3> QED BY <3>3 DEF T
  <2>8. Cardinality(K \ {0}) = Cardinality(K) - 1
    BY <2>2, <2>4, FS_RemoveElement
  <2> QED BY <2>4, <2>7, <2>8
<1> QED BY <1>1 DEF Min

LEMMA SequenceElements ==
    ASSUME NEW S, NEW s \in Seq(S)
    PROVE  /\ ToSet(s) = {s[i] : i \in 1..Len(s)}
           /\ ToSet(s) \subseteq S
           /\ IsInjective(s) <=> \A i, j \in 1..Len(s) : s[i] = s[j] => i = j
BY DEF ToSet, IsInjective

LEMMA RemoveAtProperties ==
    ASSUME NEW S, NEW s \in Seq(S), NEW k \in 1..Len(s)
    PROVE  /\ RemoveAt(s, k) \in Seq(S)
           /\ Len(RemoveAt(s, k)) = Len(s) - 1
           /\ \A i \in 1..(Len(s) - 1) :
                  RemoveAt(s, k)[i] = IF i < k THEN s[i] ELSE s[i + 1]
<1> DEFINE a == SubSeq(s, 1, k - 1)
           b == SubSeq(s, k + 1, Len(s))
<1>1. /\ a \in Seq(S) /\ Len(a) = k - 1
      /\ \A i \in 1..(k - 1) : a[i] = s[i]
  BY SubSeqProperties
<1>2. /\ b \in Seq(S) /\ Len(b) = Len(s) - k
      /\ \A i \in 1..(Len(s) - k) : b[i] = s[k + i]
  BY SubSeqProperties
<1> HIDE DEF a, b
<1>3. /\ a \o b \in Seq(S) /\ Len(a \o b) = Len(s) - 1
      /\ \A i \in 1..(Len(s) - 1) :
             (a \o b)[i] = IF i =< k - 1 THEN a[i] ELSE b[i - (k - 1)]
  BY <1>1, <1>2, ConcatProperties
<1>4. \A i \in 1..(Len(s) - 1) : (a \o b)[i] = IF i < k THEN s[i] ELSE s[i + 1]
  <2> TAKE i \in 1..(Len(s) - 1)
  <2>1. CASE i < k
    BY <1>1, <1>3, <2>1
  <2>2. CASE ~ (i < k)
    <3>1. i - (k - 1) \in 1..(Len(s) - k) /\ k + (i - (k - 1)) = i + 1
      BY <2>2
    <3> QED BY <1>2, <1>3, <2>2, <3>1
  <2> QED BY <2>1, <2>2
<1>5. RemoveAt(s, k) = a \o b
  BY DEF RemoveAt, a, b
<1> QED BY <1>3, <1>4, <1>5

LEMMA RemoveAtElements ==
    ASSUME NEW S, NEW s \in Seq(S), NEW k \in 1..Len(s)
    PROVE  /\ ToSet(RemoveAt(s, k)) \subseteq ToSet(s)
           /\ IsInjective(s) => /\ IsInjective(RemoveAt(s, k))
                                /\ ToSet(RemoveAt(s, k)) = ToSet(s) \ {s[k]}
<1> DEFINE t == RemoveAt(s, k)
<1>1. /\ t \in Seq(S) /\ Len(t) = Len(s) - 1
      /\ \A i \in 1..(Len(s) - 1) : t[i] = IF i < k THEN s[i] ELSE s[i + 1]
  BY RemoveAtProperties
<1> HIDE DEF t
<1>2. ToSet(t) \subseteq ToSet(s)
  BY <1>1, SequenceElements
<1>3. ASSUME IsInjective(s)
      PROVE  IsInjective(t) /\ s[k] \notin ToSet(t)
  <2>1. \A i, j \in 1..Len(s) : s[i] = s[j] => i = j
    BY <1>3, SequenceElements
  <2>2. \A i, j \in 1..Len(t) : t[i] = t[j] => i = j
    BY <1>1, <2>1
  <2>3. \A i \in 1..Len(t) : t[i] # s[k]
    BY <1>1, <2>1
  <2> QED BY <1>1, <2>2, <2>3, SequenceElements
<1>4. ASSUME NEW i \in 1..Len(s), i # k
      PROVE  s[i] \in ToSet(t)
  <2>1. CASE i < k
    BY <1>1, <2>1, SequenceElements
  <2>2. CASE i > k
    <3>1. i - 1 \in 1..Len(t) /\ t[i - 1] = s[i]
      BY <1>1, <2>2
    <3> QED BY <1>1, <3>1, SequenceElements
  <2> QED BY <1>4, <2>1, <2>2
<1>5. ToSet(s) \ {s[k]} \subseteq ToSet(t)
  BY <1>4, SequenceElements
<1> QED BY <1>2, <1>3, <1>5 DEF t

\* removeOutstanding, removeProcessing
LEMMA RemoveFirstProperties ==
    ASSUME NEW S, NEW s \in Seq(S), NEW e
    PROVE  /\ RemoveFirst(s, e) \in Seq(S)
           /\ ToSet(RemoveFirst(s, e)) \subseteq ToSet(s)
           /\ IsInjective(s) => /\ IsInjective(RemoveFirst(s, e))
                                /\ ToSet(RemoveFirst(s, e)) = ToSet(s) \ {e}
<1> DEFINE I == {i \in 1..Len(s) : s[i] = e}
<1>1. CASE I = {}
  <2>1. RemoveFirst(s, e) = s
    BY <1>1 DEF RemoveFirst
  <2>2. e \notin ToSet(s)
    BY <1>1, SequenceElements
  <2> QED BY <2>1, <2>2
<1>2. CASE I # {}
  <2> DEFINE k == Min(I)
  <2>1. k \in I
    <3>1. I \in SUBSET Nat
      OBVIOUS
    <3> HIDE DEF I
    <3> QED BY <1>2, <3>1, FirstPosition
  <2>2. RemoveFirst(s, e) = RemoveAt(s, k)
    BY <1>2 DEF RemoveFirst, SelectInSeq
  <2>3. k \in 1..Len(s) /\ s[k] = e
    BY <2>1
  <2> HIDE DEF k
  <2> QED BY <2>2, <2>3, RemoveAtProperties, RemoveAtElements
<1> QED BY <1>1, <1>2

LEMMA AppendElements ==
    ASSUME NEW S, NEW s \in Seq(S), NEW e \in S
    PROVE  /\ Append(s, e) \in Seq(S)
           /\ ToSet(Append(s, e)) = ToSet(s) \cup {e}
           /\ IsInjective(s) /\ e \notin ToSet(s) => IsInjective(Append(s, e))
<1> DEFINE t == Append(s, e)
<1>1. /\ t \in Seq(S) /\ Len(t) = Len(s) + 1 /\ t[Len(s) + 1] = e
      /\ \A i \in 1..Len(s) : t[i] = s[i]
  BY AppendProperties
<1> HIDE DEF t
<1>2. \A i \in 1..Len(t) : i \in 1..Len(s) \/ i = Len(s) + 1
  BY <1>1
<1>3. ToSet(t) = ToSet(s) \cup {e}
  BY <1>1, <1>2, SequenceElements
<1>4. ASSUME IsInjective(s), e \notin ToSet(s)
      PROVE  IsInjective(t)
  BY <1>1, <1>2, <1>4, SequenceElements
<1> QED BY <1>1, <1>3, <1>4 DEF t

LEMMA InsertAtProperties ==
    ASSUME NEW S, NEW s \in Seq(S), NEW e \in S, NEW k \in 1..(Len(s) + 1)
    PROVE  /\ InsertAt(s, k, e) \in Seq(S)
           /\ Len(InsertAt(s, k, e)) = Len(s) + 1
           /\ \A i \in 1..(Len(s) + 1) :
                  InsertAt(s, k, e)[i] =
                      IF i < k THEN s[i] ELSE IF i = k THEN e ELSE s[i - 1]
<1> DEFINE a == SubSeq(s, 1, k - 1)
           b == SubSeq(s, k, Len(s))
           c == a \o <<e>>
           t == c \o b
<1>1. /\ a \in Seq(S) /\ Len(a) = k - 1
      /\ \A i \in 1..(k - 1) : a[i] = s[i]
  BY SubSeqProperties
<1>2. /\ b \in Seq(S) /\ Len(b) = Len(s) - k + 1
      /\ \A i \in 1..(Len(s) - k + 1) : b[i] = s[k + i - 1]
  BY SubSeqProperties
<1> HIDE DEF a, b
<1>3. /\ c \in Seq(S) /\ Len(c) = k
      /\ \A i \in 1..k : c[i] = IF i < k THEN a[i] ELSE e
  BY <1>1
<1> HIDE DEF c
<1>4. /\ t \in Seq(S) /\ Len(t) = Len(s) + 1
      /\ \A i \in 1..(Len(s) + 1) : t[i] = IF i =< k THEN c[i] ELSE b[i - k]
  BY <1>2, <1>3, ConcatProperties
<1>5. \A i \in 1..(Len(s) + 1) : i > k => /\ i - k \in 1..(Len(s) - k + 1)
                                          /\ k + (i - k) - 1 = i - 1
  OBVIOUS
<1>6. \A i \in 1..(Len(s) + 1) :
          t[i] = IF i < k THEN s[i] ELSE IF i = k THEN e ELSE s[i - 1]
  <2> HIDE DEF t
  <2> TAKE i \in 1..(Len(s) + 1)
  <2>1. CASE i < k
    BY <1>1, <1>3, <1>4, <2>1
  <2>2. CASE i = k
    BY <1>3, <1>4, <2>2
  <2>3. CASE i > k
    <3>1. t[i] = b[i - k]
      BY <1>4, <2>3
    <3>2. b[i - k] = s[k + (i - k) - 1]
      BY <1>2, <1>5, <2>3
    <3>3. k + (i - k) - 1 = i - 1
      BY <1>5, <2>3
    <3> QED BY <2>3, <3>1, <3>2, <3>3
  <2> QED BY <2>1, <2>2, <2>3
<1>7. InsertAt(s, k, e) = t
  BY DEF InsertAt, a, b, c
<1> QED BY <1>4, <1>6, <1>7

LEMMA InsertAtElements ==
    ASSUME NEW S, NEW s \in Seq(S), NEW e \in S, NEW k \in 1..(Len(s) + 1)
    PROVE  /\ ToSet(InsertAt(s, k, e)) = ToSet(s) \cup {e}
           /\ IsInjective(s) /\ e \notin ToSet(s) => IsInjective(InsertAt(s, k, e))
<1> DEFINE t == InsertAt(s, k, e)
<1>1. /\ t \in Seq(S) /\ Len(t) = Len(s) + 1
      /\ \A i \in 1..(Len(s) + 1) :
             t[i] = IF i < k THEN s[i] ELSE IF i = k THEN e ELSE s[i - 1]
  BY InsertAtProperties
<1> HIDE DEF t
<1>2. ToSet(t) \subseteq ToSet(s) \cup {e}
  BY <1>1, SequenceElements
<1>3. ASSUME NEW i \in 1..Len(s)
      PROVE  s[i] \in ToSet(t)
  <2>1. CASE i < k
    <3>1. i \in 1..Len(t) /\ t[i] = s[i]
      BY <1>1, <2>1
    <3> QED BY <1>1, <3>1, SequenceElements
  <2>2. CASE i >= k
    <3>1. i + 1 \in 1..Len(t) /\ t[i + 1] = s[i]
      BY <1>1, <2>2
    <3> QED BY <1>1, <3>1, SequenceElements
  <2> QED BY <2>1, <2>2
<1>4. e \in ToSet(t)
  BY <1>1, SequenceElements
<1>5. ASSUME IsInjective(s), e \notin ToSet(s)
      PROVE  IsInjective(t)
  <2>1. /\ \A i, j \in 1..Len(s) : s[i] = s[j] => i = j
        /\ \A i \in 1..Len(s) : s[i] # e
    BY <1>5, SequenceElements
  <2>2. \A i, j \in 1..Len(t) : t[i] = t[j] => i = j
    <3> TAKE i, j \in 1..Len(t)
    <3> HAVE t[i] = t[j]
    <3> DEFINE p(q) == IF q < k THEN q ELSE q - 1
    <3>1. \A q \in 1..Len(t) : q # k => p(q) \in 1..Len(s) /\ t[q] = s[p(q)]
      BY <1>1
    <3>2. t[k] = e
      <4>1. t[k] = IF k < k THEN s[k] ELSE IF k = k THEN e ELSE s[k - 1]
        BY <1>1
      <4>2. ~ k < k
        OBVIOUS
      <4> QED BY <4>1, <4>2
    <3>3. i # k /\ j # k => p(i) = p(j)
      <4> HIDE DEF p
      <4> QED BY <2>1, <3>1
    <3>4. i = k <=> j = k
      <4> HIDE DEF p
      <4> QED BY <2>1, <3>1, <3>2
    <3> QED BY <3>3, <3>4
  <2> QED BY <1>1, <2>2, SequenceElements
<1> QED BY <1>2, <1>3, <1>4, <1>5, SequenceElements DEF t

-----------------------------------------------------------------------------
(* Induction and folds, about sets and functions only, so that the provers *)
(* can instantiate them.                                                   *)

\* Induction up to n: P is the set of the numbers that have the property.
LEMMA UpTo ==
    ASSUME NEW n \in Nat, NEW P, 0 \in P, \A k \in 1..n : k - 1 \in P => k \in P
    PROVE  \A k \in 0..n : k \in P
<1> DEFINE Bad == {k \in 0..n : k \notin P}
<1>1. CASE Bad # {}
  <2>1. Bad \in SUBSET Nat
    OBVIOUS
  <2> DEFINE m == Min(Bad)
  <2>2. m \in Bad /\ \A k \in Bad : m =< k
    <3> HIDE DEF Bad
    <3> QED BY <1>1, <2>1, FirstPosition
  <2> HIDE DEF m
  <2>4. m \in 1..n /\ m - 1 \notin Bad
    BY <2>2
  <2> QED BY <2>2, <2>4
<1> QED BY <1>1

\* What a fold over the subsets of S is.
Folding(h, S, base, pick, step) ==
    h = [T \in SUBSET S |-> IF T = {} THEN base
                            ELSE step[<<pick[T], h[T \ {pick[T]}]>>]]

LEMMA FoldExists ==
    ASSUME NEW S, IsFiniteSet(S), NEW X, NEW base \in X,
           NEW pick, \A T \in SUBSET S : T # {} => pick[T] \in T,
           NEW step \in [S \X X -> X]
    PROVE  \E h \in [SUBSET S -> X] : Folding(h, S, base, pick, step)
<1> DEFINE n == Cardinality(S)
           Upto(k) == {T \in SUBSET S : Cardinality(T) =< k}
           Body(h, T) == IF T = {} THEN base ELSE step[<<pick[T], h[T \ {pick[T]}]>>]
           Good(k, h) == \A T \in Upto(k) : h[T] = Body(h, T)
           P == {k \in Nat : \E h \in [Upto(k) -> X] : Good(k, h)}
<1>1. \A T \in SUBSET S : /\ IsFiniteSet(T) /\ Cardinality(T) \in Nat
                          /\ Cardinality(T) =< n
                          /\ T = {} <=> Cardinality(T) = 0
  BY FS_Subset, FS_CardinalityType, FS_EmptySet
<1>2. \A T \in SUBSET S : T # {} =>
          /\ T \ {pick[T]} \in SUBSET S
          /\ Cardinality(T \ {pick[T]}) = Cardinality(T) - 1
  BY <1>1, FS_RemoveElement
<1>3. n \in Nat
  BY FS_CardinalityType
<1> HIDE DEF n
<1>4. 0 \in P
  <2> DEFINE h == [T \in Upto(0) |-> base]
  <2>1. h \in [Upto(0) -> X]
    OBVIOUS
  <2>2. \A T \in Upto(0) : T = {}
    BY <1>1
  <2>3. Good(0, h)
    BY <2>2
  <2> QED BY <2>1, <2>3
<1>5. ASSUME NEW k \in 1..n, k - 1 \in P
      PROVE  k \in P
  <2>1. PICK h \in [Upto(k - 1) -> X] : Good(k - 1, h)
    BY <1>5
  <2> DEFINE g == [T \in Upto(k) |-> Body(h, T)]
  <2>2. ASSUME NEW T \in Upto(k), T # {}
        PROVE  T \ {pick[T]} \in Upto(k - 1) /\ pick[T] \in S
    BY <1>1, <1>2, <2>2
  <2>3. g \in [Upto(k) -> X]
    BY <2>1, <2>2
  <2>4. \A T \in Upto(k - 1) : T \in Upto(k)
    BY <1>1
  <2>5. \A T \in Upto(k - 1) : g[T] = h[T]
    BY <2>1, <2>4
  <2>6. Good(k, g)
    BY <2>2, <2>5
  <2>7. k \in Nat
    OBVIOUS
  <2> HIDE DEF g, Good
  <2> QED BY <2>3, <2>6, <2>7
<1>6. n \in P
  <2> HIDE DEF P
  <2>1. \A k \in 0..n : k \in P
    BY <1>3, <1>4, <1>5, UpTo
  <2> QED BY <1>3, <2>1
<1>7. PICK h \in [Upto(n) -> X] : Good(n, h)
  BY <1>6
<1>8. Upto(n) = SUBSET S
  BY <1>1
<1>9. \A T \in SUBSET S : h[T] = Body(h, T)
  BY <1>7, <1>8
<1>10. h \in [SUBSET S -> X]
  BY <1>7, <1>8
<1>11. h = [T \in SUBSET S |-> Body(h, T)]
  BY <1>9, <1>10
<1> QED BY <1>10, <1>11 DEF Folding

LEMMA LastPosition ==
    ASSUME NEW n \in Nat, NEW T \in SUBSET (1..n), T # {}
    PROVE  Max(T) \in T /\ \A y \in T : y =< Max(T)
<1> DEFINE I == {k \in Nat : \E x \in T : k = n - x}
<1>1. I \in SUBSET Nat /\ \A x \in T : n - x \in I
  OBVIOUS
<1>0. I # {}
  <2> HIDE DEF I
  <2> QED BY <1>1
<1>2. Min(I) \in I /\ \A y \in I : Min(I) =< y
  <2> HIDE DEF I
  <2> QED BY <1>0, <1>1, FirstPosition
<1>3. PICK x \in T : Min(I) = n - x
  BY <1>2
<1>4. \A y \in T : x >= y
  <2> DEFINE m == Min(I)
  <2> HIDE DEF I, m
  <2>1. m = n - x /\ \A y \in T : m =< n - y
    BY <1>1, <1>2, <1>3 DEF m
  <2> QED BY <2>1
<1> QED BY <1>4 DEF Max

LEMMA LastOfFirst ==
    ASSUME NEW n \in Nat, NEW k \in 1..n
    PROVE  /\ 1..k \in SUBSET (1..n) /\ 1..k # {}
           /\ Max(1..k) = k /\ (1..k) \ {k} = 1..(k - 1)
<1>1. 1..k \in SUBSET (1..n) /\ 1..k # {} /\ k \in 1..k
  OBVIOUS
<1>2. Max(1..k) \in 1..k /\ k =< Max(1..k)
  BY <1>1, LastPosition
<1> QED BY <1>1, <1>2

\* The fold of FoldLeft takes the last position first.
LastOf(n) == [T \in SUBSET (1..n) |-> Max(T)]

LEMMA FoldOnSequenceExists ==
    ASSUME NEW n \in Nat, NEW X, NEW base \in X, NEW step \in [(1..n) \X X -> X]
    PROVE  \E h \in [SUBSET (1..n) -> X] : Folding(h, 1..n, base, LastOf(n), step)
<1>1. IsFiniteSet(1..n)
  BY FS_Interval
<1>2. \A T \in SUBSET (1..n) : T # {} => LastOf(n)[T] \in T
  BY LastPosition DEF LastOf
<1> QED BY <1>1, <1>2, FoldExists

\* What can be added up over the positions of a sequence of length n.
Terms(n) == [1..n -> Nat]

\* h adds up f over the positions of a sequence of length n, as a fold does.
Summing(h, n, f) ==
    h = [T \in SUBSET (1..n) |-> IF T = {} THEN 0 ELSE h[T \ {Max(T)}] + f[Max(T)]]

LEMMA SumExists ==
    ASSUME NEW n \in Nat, NEW f \in Terms(n)
    PROVE  \E h : Summing(h, n, f)
<1> DEFINE step == [p \in (1..n) \X Nat |-> p[2] + f[p[1]]]
<1>1. step \in [(1..n) \X Nat -> Nat]
  BY DEF Terms
<1>2. PICK h \in [SUBSET (1..n) -> Nat] : Folding(h, 1..n, 0, LastOf(n), step)
  <2> HIDE DEF step
  <2> QED BY <1>1, FoldOnSequenceExists
<1>3. \A T \in SUBSET (1..n) : T # {} => Max(T) \in 1..n /\ T \ {Max(T)} \in SUBSET (1..n)
  BY LastPosition
<1>4. \A T \in SUBSET (1..n) : h[T] = IF T = {} THEN 0 ELSE h[T \ {Max(T)}] + f[Max(T)]
  BY <1>2, <1>3 DEF Folding, LastOf
<1> QED BY <1>2, <1>4 DEF Summing

LEMMA SumSteps ==
    ASSUME NEW n \in Nat, NEW f \in Terms(n), NEW h, Summing(h, n, f)
    PROVE  /\ h[1..0] = 0
           /\ \A k \in 1..n : h[1..k] = h[1..(k - 1)] + f[k]
           /\ \A k \in 0..n : h[1..k] \in Nat
<1>1. \A T \in SUBSET (1..n) : h[T] = IF T = {} THEN 0 ELSE h[T \ {Max(T)}] + f[Max(T)]
  BY DEF Summing
<1>2. 1..0 \in SUBSET (1..n) /\ 1..0 = {}
  OBVIOUS
<1>3. \A k \in 1..n : /\ 1..k \in SUBSET (1..n) /\ 1..k # {}
                      /\ Max(1..k) = k /\ (1..k) \ {k} = 1..(k - 1)
  BY LastOfFirst
<1>4. h[1..0] = 0
  BY <1>1, <1>2
<1>5. \A k \in 1..n : h[1..k] = h[1..(k - 1)] + f[k]
  BY <1>1, <1>3
<1> DEFINE P == {k \in 0..n : h[1..k] \in Nat}
<1>6. 0 \in P
  BY <1>4
<1>7. \A k \in 1..n : k - 1 \in P => k \in P
  BY <1>5 DEF Terms
<1>8. \A k \in 0..n : k \in P
  <2> HIDE DEF P
  <2> QED BY <1>6, <1>7, UpTo
<1> QED BY <1>4, <1>5, <1>8

\* One more position adds its value to the sum.
LEMMA SumAppended ==
    ASSUME NEW n \in Nat, NEW f \in Terms(n), NEW h, Summing(h, n, f),
           NEW m \in Nat, m = n + 1,
           NEW e \in Terms(m), NEW g, Summing(g, m, e),
           \A i \in 1..n : e[i] = f[i]
    PROVE  g[1..m] = h[1..n] + e[m]
<1>1. /\ h[1..0] = 0 /\ \A k \in 1..n : h[1..k] = h[1..(k - 1)] + f[k]
  BY SumSteps
<1>2. /\ g[1..0] = 0 /\ \A k \in 1..m : g[1..k] = g[1..(k - 1)] + e[k]
  BY SumSteps
<1> DEFINE P == {k \in 0..n : g[1..k] = h[1..k]}
<1>3. 0 \in P
  BY <1>1, <1>2
<1>4. \A k \in 1..n : k - 1 \in P => k \in P
  BY <1>1, <1>2 DEF Terms
<1>5. \A k \in 0..n : k \in P
  <2> HIDE DEF P
  <2> QED BY <1>3, <1>4, UpTo
<1>6. g[1..n] = h[1..n] /\ m \in 1..m /\ m - 1 = n
  BY <1>5
<1> QED BY <1>2, <1>6

LEMMA TailElements ==
    ASSUME NEW S, NEW s \in Seq(S), s # <<>>
    PROVE  /\ Head(s) \in S /\ Tail(s) \in Seq(S)
           /\ ToSet(s) = ToSet(Tail(s)) \cup {Head(s)}
           /\ IsInjective(s) => IsInjective(Tail(s)) /\ Head(s) \notin ToSet(Tail(s))
<1> DEFINE t == Tail(s)
<1>1. /\ Head(s) \in S /\ Head(s) = s[1] /\ t \in Seq(S) /\ Len(t) = Len(s) - 1
      /\ Len(s) \in Nat /\ Len(s) >= 1
      /\ \A i \in 1..Len(t) : t[i] = s[i + 1]
  BY HeadTailProperties
<1> HIDE DEF t
<1>2. \A i \in 1..Len(s) : i = 1 \/ (i - 1 \in 1..Len(t) /\ s[i] = t[i - 1])
  <2> TAKE i \in 1..Len(s)
  <2>1. CASE i > 1
    <3>1. i - 1 \in 1..Len(t) /\ (i - 1) + 1 = i
      BY <1>1, <2>1
    <3> QED BY <1>1, <3>1
  <2>2. i = 1 \/ i > 1
    BY <1>1
  <2> QED BY <2>1, <2>2
<1>3. \A i \in 1..Len(t) : i + 1 \in 1..Len(s) /\ i + 1 # 1
  BY <1>1
<1>4. ToSet(s) = ToSet(t) \cup {Head(s)}
  <2>1. ToSet(s) = {s[i] : i \in 1..Len(s)} /\ ToSet(t) = {t[i] : i \in 1..Len(t)}
    BY <1>1, SequenceElements
  <2>2. 1 \in 1..Len(s)
    BY <1>1
  <2> QED BY <1>1, <1>2, <1>3, <2>1, <2>2
<1>5. ASSUME IsInjective(s)
      PROVE  IsInjective(t) /\ Head(s) \notin ToSet(t)
  <2>1. \A i, j \in 1..Len(s) : s[i] = s[j] => i = j
    BY <1>5, SequenceElements
  <2>2. \A i, j \in 1..Len(t) : t[i] = t[j] => i = j
    <3> TAKE i, j \in 1..Len(t)
    <3>1. t[i] = t[j] => i + 1 = j + 1
      BY <1>1, <1>3, <2>1
    <3> QED BY <1>1, <3>1
  <2>3. \A i \in 1..Len(t) : t[i] # s[1]
    <3> TAKE i \in 1..Len(t)
    <3>1. 1 \in 1..Len(s)
      BY <1>1
    <3> QED BY <1>1, <1>3, <2>1, <3>1
  <2> QED BY <1>1, <2>2, <2>3, SequenceElements
<1> QED BY <1>1, <1>4, <1>5 DEF t

-----------------------------------------------------------------------------
(* How many elements of a sequence are in a set.                           *)

Positions(s, P) == {i \in DOMAIN s : s[i] \in P}

Count(s, P) == Cardinality(Positions(s, P))

LEMMA CountType ==
    ASSUME NEW S, NEW s \in Seq(S), NEW P
    PROVE  /\ IsFiniteSet(Positions(s, P))
           /\ Count(s, P) \in Nat
           /\ Count(s, P) = 0 <=> \A i \in 1..Len(s) : s[i] \notin P
<1>1. DOMAIN s = 1..Len(s) /\ IsFiniteSet(1..Len(s))
  BY FS_Interval
<1>2. Positions(s, P) \in SUBSET (1..Len(s))
  BY <1>1 DEF Positions
<1>3. IsFiniteSet(Positions(s, P))
  BY <1>1, <1>2, FS_Subset
<1>4. Count(s, P) \in Nat /\ (Count(s, P) = 0 <=> Positions(s, P) = {})
  BY <1>3, FS_CardinalityType, FS_EmptySet DEF Count
<1> QED BY <1>1, <1>3, <1>4 DEF Positions

LEMMA CountNothing ==
    ASSUME NEW P
    PROVE  Count(<<>>, P) = 0
<1>1. Positions(<<>>, P) = {}
  BY DEF Positions
<1> QED BY <1>1, FS_EmptySet DEF Count

\* f takes the positions of one sequence to those of another.
LEMMA SamePositions ==
    ASSUME NEW A, IsFiniteSet(A), NEW B, NEW f,
           DOMAIN f = A, \A x \in A : f[x] \in B,
           \A x, y \in A : f[x] = f[y] => x = y,
           \A y \in B : \E x \in A : f[x] = y
    PROVE  IsFiniteSet(B) /\ Cardinality(B) = Cardinality(A)
<1>1. f = [x \in A |-> f[x]] \/ ~ (f = [x \in A |-> f[x]])
  OBVIOUS
<1> DEFINE g == [x \in A |-> f[x]]
<1>2. g \in Bijection(A, B)
  BY DEF Bijection, Injection, Surjection, IsInjective
<1>3. ExistsBijection(A, B)
  BY <1>2 DEF ExistsBijection
<1> QED BY <1>3, FS_Bijection

LEMMA CountAppended ==
    ASSUME NEW S, NEW s \in Seq(S), NEW e \in S, NEW P
    PROVE  Count(Append(s, e), P) = Count(s, P) + IF e \in P THEN 1 ELSE 0
<1> DEFINE t == Append(s, e)
           n == Len(s) + 1
<1>1. /\ t \in Seq(S) /\ Len(t) = n /\ t[n] = e /\ Len(s) \in Nat
      /\ DOMAIN t = 1..n /\ DOMAIN s = 1..Len(s)
      /\ \A i \in 1..Len(s) : t[i] = s[i]
  BY AppendProperties
<1> HIDE DEF t
<1>2. Positions(t, P) = Positions(s, P) \cup (IF e \in P THEN {n} ELSE {})
  BY <1>1 DEF Positions
<1>3. n \notin Positions(s, P) /\ IsFiniteSet(Positions(s, P))
  <2>1. n \notin 1..Len(s)
    BY <1>1
  <2>2. Positions(s, P) \subseteq 1..Len(s)
    BY <1>1 DEF Positions
  <2> QED BY <2>1, <2>2, CountType
<1>4. Count(s, P) \in Nat
  BY CountType
<1> HIDE DEF n
<1>5. CASE e \in P
  <2>1. Positions(t, P) = Positions(s, P) \cup {n}
    BY <1>2, <1>5
  <2>2. Cardinality(Positions(t, P)) = Cardinality(Positions(s, P)) + 1
    BY <1>3, <2>1, FS_AddElement
  <2> QED BY <1>5, <2>2 DEF Count, t
<1>6. CASE e \notin P
  <2>1. Positions(t, P) = Positions(s, P)
    BY <1>2, <1>6
  <2> QED BY <1>4, <1>6, <2>1 DEF Count, t
<1> QED BY <1>5, <1>6

LEMMA CountRemoved ==
    ASSUME NEW S, NEW s \in Seq(S), NEW k \in 1..Len(s), NEW P
    PROVE  Count(RemoveAt(s, k), P) = Count(s, P) - IF s[k] \in P THEN 1 ELSE 0
<1> DEFINE t == RemoveAt(s, k)
           A == Positions(s, P) \ {k}
           B == Positions(t, P)
           f == [i \in A |-> IF i < k THEN i ELSE i - 1]
<1>1. /\ t \in Seq(S) /\ Len(t) = Len(s) - 1 /\ Len(s) \in Nat
      /\ DOMAIN t = 1..Len(t) /\ DOMAIN s = 1..Len(s)
      /\ \A i \in 1..(Len(s) - 1) : t[i] = IF i < k THEN s[i] ELSE s[i + 1]
  BY RemoveAtProperties
<1> HIDE DEF t
<1>2. IsFiniteSet(Positions(s, P)) /\ Count(s, P) \in Nat
  BY CountType
<1>3. /\ IsFiniteSet(A)
      /\ Cardinality(A) = Cardinality(Positions(s, P)) - IF s[k] \in P THEN 1 ELSE 0
  <2>1. k \in Positions(s, P) <=> s[k] \in P
    BY <1>1 DEF Positions
  <2>2. Cardinality(Positions(s, P)) \in Nat
    BY <1>2 DEF Count
  <2> QED BY <1>2, <2>1, <2>2, FS_RemoveElement
<1>4. \A i \in A : i \in 1..Len(s) /\ i # k /\ s[i] \in P
  BY <1>1 DEF Positions
<1>5. \A i \in A : f[i] \in B
  BY <1>1, <1>4 DEF Positions
<1>6. \A i, j \in A : f[i] = f[j] => i = j
  BY <1>4
<1>7. \A j \in B : \E i \in A : f[i] = j
  <2> TAKE j \in B
  <2>1. j \in 1..(Len(s) - 1) /\ t[j] \in P
    BY <1>1 DEF Positions
  <2> DEFINE i == IF j < k THEN j ELSE j + 1
  <2>2. i \in A /\ f[i] = j
    BY <1>1, <2>1 DEF Positions
  <2> QED BY <2>2
<1>8. DOMAIN f = A
  OBVIOUS
<1> HIDE DEF f, A, B
<1>9. Cardinality(B) = Cardinality(A)
  <2>1. IsFiniteSet(A)
    BY <1>3
  <2> QED BY <2>1, <1>5, <1>6, <1>7, <1>8, SamePositions
<1> QED BY <1>3, <1>9 DEF Count, B, t

LEMMA CountTail ==
    ASSUME NEW S, NEW s \in Seq(S), s # <<>>, NEW P
    PROVE  Count(Tail(s), P) = Count(s, P) - IF Head(s) \in P THEN 1 ELSE 0
<1>1. 1 \in 1..Len(s) /\ Head(s) = s[1]
  BY HeadTailProperties
<1>2. RemoveAt(s, 1) = Tail(s)
  <2>1. Len(s) \in Nat /\ Len(s) >= 1
    BY <1>1
  <2>2. /\ RemoveAt(s, 1) \in Seq(S) /\ Len(RemoveAt(s, 1)) = Len(s) - 1
        /\ \A i \in 1..(Len(s) - 1) : RemoveAt(s, 1)[i] = IF i < 1 THEN s[i] ELSE s[i + 1]
    BY <1>1, RemoveAtProperties
  <2>3. /\ Tail(s) \in Seq(S) /\ Len(Tail(s)) = Len(s) - 1
        /\ \A i \in 1..Len(Tail(s)) : Tail(s)[i] = s[i + 1]
    BY HeadTailProperties
  <2>4. \A i \in 1..(Len(s) - 1) : RemoveAt(s, 1)[i] = Tail(s)[i]
    BY <2>1, <2>2, <2>3
  <2> QED BY <2>2, <2>3, <2>4, SeqEqual
<1> DEFINE k == 1
<1>3. k \in 1..Len(s) /\ s[k] = Head(s) /\ RemoveAt(s, k) = Tail(s)
  BY <1>1, <1>2
<1> HIDE DEF k
<1>4. k \in 1..Len(s)
  BY <1>3
<1>5. Count(RemoveAt(s, k), P) = Count(s, P) - IF s[k] \in P THEN 1 ELSE 0
  BY <1>4, CountRemoved
<1> QED BY <1>3, <1>5

LEMMA CountRemovedFirst ==
    ASSUME NEW S, NEW s \in Seq(S), NEW e
    PROVE  /\ e \in ToSet(s) <=> Count(s, {e}) > 0
           /\ Count(RemoveFirst(s, e), {e}) =
                  IF Count(s, {e}) > 0 THEN Count(s, {e}) - 1 ELSE Count(s, {e})
           /\ \A o : o # e => Count(RemoveFirst(s, e), {o}) = Count(s, {o})
<1> DEFINE I == {i \in 1..Len(s) : s[i] = e}
<1>0. /\ \A o : Count(s, {o}) \in Nat
      /\ Count(s, {e}) \in Nat
      /\ Count(s, {e}) = 0 <=> I = {}
      /\ e \in ToSet(s) <=> I # {}
  BY CountType, SequenceElements
<1>1. CASE I = {}
  <2>1. RemoveFirst(s, e) = s
    BY <1>1 DEF RemoveFirst
  <2> QED BY <1>0, <1>1, <2>1
<1>2. CASE I # {}
  <2> DEFINE k == Min(I)
  <2>1. k \in I
    <3>1. I \in SUBSET Nat
      OBVIOUS
    <3> HIDE DEF I
    <3> QED BY <1>2, <3>1, FirstPosition
  <2>2. RemoveFirst(s, e) = RemoveAt(s, k)
    BY <1>2 DEF RemoveFirst, SelectInSeq
  <2>3. k \in 1..Len(s) /\ s[k] = e
    BY <2>1
  <2> HIDE DEF k
  <2>4. \A o : Count(RemoveFirst(s, e), {o}) = Count(s, {o}) - IF e \in {o} THEN 1 ELSE 0
    BY <2>2, <2>3, CountRemoved
  <2>5. Count(s, {e}) > 0
    <3> HIDE DEF I
    <3> QED BY <1>0, <1>2
  <2>6. Count(RemoveFirst(s, e), {e}) = Count(s, {e}) - 1
    BY <2>4
  <2>7. ASSUME NEW o, o # e
        PROVE  Count(RemoveFirst(s, e), {o}) = Count(s, {o})
    <3>1. Count(RemoveFirst(s, e), {o}) = Count(s, {o}) - 0 /\ Count(s, {o}) \in Nat
      BY <1>0, <2>4, <2>7
    <3> QED BY <3>1
  <2>8. e \in ToSet(s)
    <3> HIDE DEF I
    <3> QED BY <1>0, <1>2
  <2> QED BY <2>5, <2>6, <2>7, <2>8
<1> QED BY <1>1, <1>2

LEMMA CountConcatenated ==
    ASSUME NEW S, NEW s \in Seq(S), NEW t \in Seq(S), NEW P
    PROVE  Count(s \o t, P) = Count(s, P) + Count(t, P)
<1> DEFINE u == s \o t
           n == Len(s)
           m == Len(t)
           A == Positions(t, P)
           B == Positions(u, P) \ Positions(s, P)
           f == [i \in A |-> n + i]
<1>1. /\ n \in Nat /\ m \in Nat
      /\ u \in Seq(S) /\ Len(u) = n + m
      /\ DOMAIN u = 1..(n + m) /\ DOMAIN s = 1..n /\ DOMAIN t = 1..m
      /\ \A i \in 1..n : u[i] = s[i]
      /\ \A i \in 1..m : u[n + i] = t[i]
  <2>1. u \in Seq(S) /\ Len(u) = n + m /\ n \in Nat /\ m \in Nat
    OBVIOUS
  <2>2. \A i \in 1..(n + m) : u[i] = IF i =< n THEN s[i] ELSE t[i - n]
    BY ConcatProperties
  <2>3. \A i \in 1..m : n + i \in 1..(n + m) /\ ~ (n + i =< n) /\ (n + i) - n = i
    BY <2>1
  <2> HIDE DEF u
  <2> QED BY <2>1, <2>2, <2>3
<1> HIDE DEF u, n, m
<1>2. Positions(s, P) \subseteq Positions(u, P)
  BY <1>1 DEF Positions
<1>3. /\ IsFiniteSet(A) /\ IsFiniteSet(Positions(s, P)) /\ IsFiniteSet(Positions(u, P))
      /\ Count(s, P) \in Nat /\ Count(t, P) \in Nat
  BY <1>1, CountType
<1>4. \A i \in A : f[i] \in B
  BY <1>1 DEF Positions
<1>5. \A i, j \in A : f[i] = f[j] => i = j
  BY <1>1 DEF Positions
<1>6. \A j \in B : \E i \in A : f[i] = j
  <2> TAKE j \in B
  <2>1. j \in 1..(n + m) /\ u[j] \in P /\ j \notin 1..n
    BY <1>1 DEF Positions
  <2>2. j - n \in 1..m /\ n + (j - n) = j
    BY <1>1, <2>1
  <2>3. j - n \in A
    BY <1>1, <2>1, <2>2 DEF Positions
  <2> QED BY <2>2, <2>3
<1>7. DOMAIN f = A
  OBVIOUS
<1> HIDE DEF f, A
<1>8. IsFiniteSet(B) /\ Cardinality(B) = Cardinality(A)
  <2> HIDE DEF B
  <2> QED BY <1>3, <1>4, <1>5, <1>6, <1>7, SamePositions
<1>9. /\ Positions(u, P) = Positions(s, P) \cup B /\ Positions(s, P) \cap B = {}
  BY <1>2
<1> HIDE DEF B
<1>10. Cardinality(Positions(u, P)) = Cardinality(Positions(s, P)) + Cardinality(B) - Cardinality({})
  BY <1>3, <1>8, <1>9, FS_Union
<1> QED BY <1>3, <1>8, <1>10, FS_EmptySet DEF Count, u, A

-----------------------------------------------------------------------------
(* Sums over a finite set.                                                 *)

AnyOf(T) == CHOOSE x \in T : TRUE

Natural(S, f) == \A x \in S : f[x] \in Nat

\* h adds up f over the subsets of S, as MapThenSumSet does.
Adding(h, S, f) ==
    h = [T \in SUBSET S |-> IF T = {} THEN 0
                            ELSE f[AnyOf(T)] + h[T \ {AnyOf(T)}]]

\* The sum of f over S.
Total(S, f) == (CHOOSE h : Adding(h, S, f))[S]

LEMMA AddingExists ==
    ASSUME NEW S, IsFiniteSet(S), NEW f, Natural(S, f)
    PROVE  \E h \in [SUBSET S -> Nat] : Adding(h, S, f)
<1> DEFINE pick == [T \in SUBSET S |-> AnyOf(T)]
           step == [p \in S \X Nat |-> f[p[1]] + p[2]]
<1>1. step \in [S \X Nat -> Nat]
  BY DEF Natural
<1>2. \A T \in SUBSET S : T # {} => AnyOf(T) \in T /\ T \ {AnyOf(T)} \in SUBSET S
  BY DEF AnyOf
<1>3. \A T \in SUBSET S : T # {} => pick[T] \in T
  BY <1>2
<1>4. PICK h \in [SUBSET S -> Nat] : Folding(h, S, 0, pick, step)
  <2> HIDE DEF step, pick
  <2> QED BY <1>1, <1>3, FoldExists
<1>5. \A T \in SUBSET S : h[T] = IF T = {} THEN 0 ELSE f[AnyOf(T)] + h[T \ {AnyOf(T)}]
  BY <1>2, <1>4 DEF Folding
<1> QED BY <1>4, <1>5 DEF Adding

\* Induction on the size of the subsets: P is the set of those with the property.
LEMMA SubsetInduction ==
    ASSUME NEW S, IsFiniteSet(S), NEW P, {} \in P,
           \A T \in SUBSET S : T # {} /\ (\A a \in T : T \ {a} \in P) => T \in P
    PROVE  \A T \in SUBSET S : T \in P
<1> DEFINE n == Cardinality(S)
           Q == {k \in 0..n : \A T \in SUBSET S : Cardinality(T) = k => T \in P}
<1>1. n \in Nat /\ \A T \in SUBSET S : /\ IsFiniteSet(T) /\ Cardinality(T) \in 0..n
                                       /\ Cardinality(T) = 0 <=> T = {}
  BY FS_Subset, FS_CardinalityType, FS_EmptySet
<1>2. \A T \in SUBSET S : \A a \in T : /\ T \ {a} \in SUBSET S
                                       /\ Cardinality(T \ {a}) = Cardinality(T) - 1
  BY <1>1, FS_RemoveElement
<1> HIDE DEF n
<1>3. 0 \in Q
  BY <1>1
<1>4. ASSUME NEW k \in 1..n, k - 1 \in Q
      PROVE  k \in Q
  <2> SUFFICES ASSUME NEW T \in SUBSET S, Cardinality(T) = k
               PROVE  T \in P
    BY <1>1
  <2>1. T # {}
    BY <1>1
  <2>2. \A a \in T : T \ {a} \in P
    BY <1>2, <1>4
  <2> QED BY <2>1, <2>2
<1>5. \A k \in 0..n : k \in Q
  <2> HIDE DEF Q
  <2> QED BY <1>1, <1>3, <1>4, UpTo
<1> QED BY <1>1, <1>5

LEMMA AddingType ==
    ASSUME NEW S, IsFiniteSet(S), NEW f, Natural(S, f), NEW h, Adding(h, S, f)
    PROVE  h \in [SUBSET S -> Nat]
<1>1. \A T \in SUBSET S : h[T] = IF T = {} THEN 0 ELSE f[AnyOf(T)] + h[T \ {AnyOf(T)}]
  BY DEF Adding
<1> DEFINE P == {T \in SUBSET S : h[T] \in Nat}
<1>2. {} \in P
  <2>1. {} \in SUBSET S
    OBVIOUS
  <2>2. h[{}] = 0
    BY <1>1, <2>1
  <2> QED BY <2>1, <2>2
<1>3. ASSUME NEW T \in SUBSET S, T # {}, \A a \in T : T \ {a} \in P
      PROVE  T \in P
  <2>1. AnyOf(T) \in T
    BY <1>3 DEF AnyOf
  <2>2. f[AnyOf(T)] \in Nat /\ h[T \ {AnyOf(T)}] \in Nat
    BY <1>3, <2>1 DEF Natural
  <2> QED BY <1>1, <1>3, <2>2
<1>4. \A T \in SUBSET S : T \in P
  <2> HIDE DEF P
  <2> QED BY <1>2, <1>3, SubsetInduction
<1> QED BY <1>4 DEF Adding

\* Whatever is chosen first, the sum is the same.
LEMMA AddingAny ==
    ASSUME NEW S, IsFiniteSet(S), NEW f, Natural(S, f), NEW h, Adding(h, S, f), NEW c \in S
    PROVE  h[S] = f[c] + h[S \ {c}]
<1>1. \A T \in SUBSET S : h[T] = IF T = {} THEN 0 ELSE f[AnyOf(T)] + h[T \ {AnyOf(T)}]
  BY DEF Adding
<1>0. \A T \in SUBSET S : h[T] \in Nat
  <2>1. h \in [SUBSET S -> Nat]
    BY AddingType
  <2> QED BY <2>1
<1> DEFINE P == {T \in SUBSET S : \A a \in T : h[T] = f[a] + h[T \ {a}]}
<1>2. {} \in P
  OBVIOUS
<1>3. ASSUME NEW T \in SUBSET S, T # {}, \A a \in T : T \ {a} \in P
      PROVE  T \in P
  <2> DEFINE b == AnyOf(T)
  <2>1. b \in T /\ h[T] = f[b] + h[T \ {b}]
    BY <1>1, <1>3 DEF AnyOf
  <2> HIDE DEF b
  <2>2. ASSUME NEW a \in T, a # b
        PROVE  h[T] = f[a] + h[T \ {a}]
    <3>1. a \in T \ {b} /\ b \in T \ {a} /\ T \ {b} \in P /\ T \ {a} \in P
      BY <1>3, <2>1, <2>2
    <3>2. h[T \ {b}] = f[a] + h[(T \ {b}) \ {a}] /\ h[T \ {a}] = f[b] + h[(T \ {a}) \ {b}]
      BY <3>1
    <3>3. (T \ {b}) \ {a} = (T \ {a}) \ {b}
      OBVIOUS
    <3> DEFINE R == (T \ {a}) \ {b}
               x == f[a]
               y == f[b]
               z == h[R]
    <3>4. x \in Nat /\ y \in Nat /\ z \in Nat
      BY <1>0, <2>1 DEF Natural
    <3>5. h[T] = y + (x + z) /\ h[T \ {a}] = y + z
      BY <2>1, <3>2, <3>3
    <3> HIDE DEF x, y, z
    <3>6. h[T] = x + h[T \ {a}]
      BY <3>4, <3>5
    <3> QED BY <3>6 DEF x
  <2> QED BY <2>1, <2>2
<1>4. \A T \in SUBSET S : T \in P
  <2> HIDE DEF P
  <2> QED BY <1>2, <1>3, SubsetInduction
<1>5. S \in P
  <2> HIDE DEF P
  <2>1. S \in SUBSET S
    OBVIOUS
  <2> QED BY <1>4, <2>1
<1> QED BY <1>5

LEMMA AddingSame ==
    ASSUME NEW S, IsFiniteSet(S), NEW f, NEW h, Adding(h, S, f),
           NEW R \in SUBSET S, NEW e, NEW g, Adding(g, R, e),
           \A x \in R : e[x] = f[x]
    PROVE  \A T \in SUBSET R : g[T] = h[T]
<1>1. \A T \in SUBSET S : h[T] = IF T = {} THEN 0 ELSE f[AnyOf(T)] + h[T \ {AnyOf(T)}]
  BY DEF Adding
<1>2. \A T \in SUBSET R : g[T] = IF T = {} THEN 0 ELSE e[AnyOf(T)] + g[T \ {AnyOf(T)}]
  BY DEF Adding
<1> DEFINE P == {T \in SUBSET R : g[T] = h[T]}
<1>3. {} \in P
  BY <1>1, <1>2
<1>4. ASSUME NEW T \in SUBSET R, T # {}, \A a \in T : T \ {a} \in P
      PROVE  T \in P
  <2>1. AnyOf(T) \in T
    BY <1>4 DEF AnyOf
  <2>2. e[AnyOf(T)] = f[AnyOf(T)] /\ g[T \ {AnyOf(T)}] = h[T \ {AnyOf(T)}]
    BY <1>4, <2>1
  <2>3. T \in SUBSET S
    OBVIOUS
  <2> QED BY <1>1, <1>2, <1>4, <2>2, <2>3
<1>5. IsFiniteSet(R)
  BY FS_Subset
<1>6. \A T \in SUBSET R : T \in P
  <2> HIDE DEF P
  <2> QED BY <1>3, <1>4, <1>5, SubsetInduction
<1> QED BY <1>6

LEMMA TotalIs ==
    ASSUME NEW S, IsFiniteSet(S), NEW f, Natural(S, f)
    PROVE  \E h \in [SUBSET S -> Nat] : Adding(h, S, f) /\ Total(S, f) = h[S]
<1> DEFINE h == CHOOSE g : Adding(g, S, f)
<1>1. Adding(h, S, f)
  BY AddingExists
<1>2. Total(S, f) = h[S]
  BY DEF Total
<1> HIDE DEF h
<1> QED BY <1>1, <1>2, AddingType

LEMMA TotalType ==
    ASSUME NEW S, IsFiniteSet(S), NEW f, Natural(S, f)
    PROVE  Total(S, f) \in Nat
<1>1. PICK h \in [SUBSET S -> Nat] : Total(S, f) = h[S]
  BY TotalIs
<1>2. S \in SUBSET S
  OBVIOUS
<1> QED BY <1>1, <1>2

LEMMA TotalOfNothing ==
    ASSUME NEW f
    PROVE  Total({}, f) = 0
<1>1. IsFiniteSet({}) /\ Natural({}, f)
  BY FS_EmptySet DEF Natural
<1>2. PICK h : Adding(h, {}, f) /\ Total({}, f) = h[{}]
  BY <1>1, TotalIs
<1> QED BY <1>2 DEF Adding

LEMMA TotalOfZeros ==
    ASSUME NEW S, IsFiniteSet(S), NEW f, \A x \in S : f[x] = 0
    PROVE  Total(S, f) = 0
<1>1. Natural(S, f)
  BY DEF Natural
<1>2. PICK h : Adding(h, S, f) /\ Total(S, f) = h[S]
  BY <1>1, TotalIs
<1>3. \A T \in SUBSET S : h[T] = IF T = {} THEN 0 ELSE f[AnyOf(T)] + h[T \ {AnyOf(T)}]
  BY <1>2 DEF Adding
<1> DEFINE P == {T \in SUBSET S : h[T] = 0}
<1>4. {} \in P
  <2>1. {} \in SUBSET S
    OBVIOUS
  <2> QED BY <1>3, <2>1
<1>5. ASSUME NEW T \in SUBSET S, T # {}, \A a \in T : T \ {a} \in P
      PROVE  T \in P
  <2> DEFINE a == AnyOf(T)
  <2>1. a \in T /\ a \in S
    BY <1>5 DEF AnyOf
  <2>2. h[T] = f[a] + h[T \ {a}]
    BY <1>3, <1>5
  <2> HIDE DEF a
  <2>3. f[a] = 0 /\ h[T \ {a}] = 0
    BY <1>5, <2>1
  <2> QED BY <2>2, <2>3
<1> HIDE DEF P
<1>6. \A T \in SUBSET S : T \in P
  BY <1>4, <1>5, SubsetInduction
<1>7. S \in SUBSET S
  OBVIOUS
<1> QED BY <1>2, <1>6, <1>7 DEF P

LEMMA TotalSame ==
    ASSUME NEW S, IsFiniteSet(S), NEW f, Natural(S, f), NEW e,
           \A x \in S : e[x] = f[x]
    PROVE  Total(S, e) = Total(S, f)
<1>1. PICK h : Adding(h, S, f) /\ Total(S, f) = h[S]
  BY TotalIs
<1>2. Natural(S, e)
  BY DEF Natural
<1>3. PICK g : Adding(g, S, e) /\ Total(S, e) = g[S]
  BY <1>2, TotalIs
<1>4. S \in SUBSET S
  OBVIOUS
<1> QED BY <1>1, <1>3, <1>4, AddingSame

LEMMA TotalRemoved ==
    ASSUME NEW S, IsFiniteSet(S), NEW f, Natural(S, f), NEW a \in S
    PROVE  /\ Total(S, f) = f[a] + Total(S \ {a}, f)
           /\ f[a] \in Nat /\ Total(S, f) \in Nat /\ Total(S \ {a}, f) \in Nat
<1> DEFINE R == S \ {a}
<1>1. R \in SUBSET S /\ IsFiniteSet(R) /\ Natural(R, f)
  BY FS_Subset DEF Natural
<1>2. PICK h \in [SUBSET S -> Nat] : Adding(h, S, f) /\ Total(S, f) = h[S]
  BY TotalIs
<1> HIDE DEF R
<1>3. PICK g \in [SUBSET R -> Nat] : Adding(g, R, f) /\ Total(R, f) = g[R]
  BY <1>1, TotalIs
<1>4. g[R] = h[R]
  <2>1. R \in SUBSET R
    OBVIOUS
  <2> QED BY <1>1, <1>2, <1>3, <2>1, AddingSame
<1>5. h[S] = f[a] + h[S \ {a}]
  BY <1>2, AddingAny
<1>6. Total(S, f) = f[a] + Total(R, f)
  BY <1>2, <1>3, <1>4, <1>5 DEF R
<1>7. f[a] \in Nat /\ Total(S, f) \in Nat /\ Total(R, f) \in Nat
  BY <1>1, TotalType DEF Natural
<1> QED BY <1>6, <1>7 DEF R

\* A sum of a part and of the rest.
LEMMA TotalSplit ==
    ASSUME NEW S, IsFiniteSet(S), NEW f, Natural(S, f), NEW R \in SUBSET S
    PROVE  /\ Total(S, f) = Total(R, f) + Total(S \ R, f)
           /\ Total(S, f) \in Nat /\ Total(R, f) \in Nat /\ Total(S \ R, f) \in Nat
<1> DEFINE P == {T \in SUBSET R : Total(S, f) = Total(T, f) + Total(S \ T, f)}
<1>1. \A T \in SUBSET S : IsFiniteSet(T) /\ Natural(T, f) /\ Total(T, f) \in Nat
  <2> SUFFICES ASSUME NEW T \in SUBSET S
               PROVE  IsFiniteSet(T) /\ Natural(T, f) /\ Total(T, f) \in Nat
    OBVIOUS
  <2>1. IsFiniteSet(T) /\ Natural(T, f)
    BY FS_Subset DEF Natural
  <2> QED BY <2>1, TotalType
<1>2. {} \in P
  <2>1. S \ {} = S /\ Total({}, f) = 0 /\ Total(S, f) \in Nat
    BY TotalOfNothing, TotalType
  <2> QED BY <2>1
<1>3. ASSUME NEW T \in SUBSET R, T # {}, \A a \in T : T \ {a} \in P
      PROVE  T \in P
  <2>1. PICK a \in T : TRUE
    BY <1>3
  <2> DEFINE less == T \ {a}
             rest == S \ less
  <2>2. Total(S, f) = Total(less, f) + Total(rest, f)
    BY <1>3
  <2>3. less \in SUBSET S /\ rest \in SUBSET S /\ T \in SUBSET S /\ a \in rest
        /\ S \ T = rest \ {a} /\ S \ T \in SUBSET S
    OBVIOUS
  <2> HIDE DEF rest
  <2>4. Total(rest, f) = f[a] + Total(S \ T, f) /\ f[a] \in Nat
    <3>1. IsFiniteSet(rest) /\ Natural(rest, f)
      BY <1>1, <2>3
    <3>2. Total(rest, f) = f[a] + Total(rest \ {a}, f) /\ f[a] \in Nat
      BY <2>3, <3>1, TotalRemoved
    <3> QED BY <2>3, <3>2
  <2>5. Total(T, f) = f[a] + Total(less, f)
    BY <1>1, <2>3, TotalRemoved
  <2> HIDE DEF less
  <2>6. Total(less, f) \in Nat /\ Total(S \ T, f) \in Nat
    BY <1>1, <2>3
  <2> QED BY <2>2, <2>4, <2>5, <2>6
<1>4. IsFiniteSet(R)
  BY <1>1
<1>5. \A T \in SUBSET R : T \in P
  <2> HIDE DEF P
  <2> QED BY <1>2, <1>3, <1>4, SubsetInduction
<1>6. R \in SUBSET R /\ S \ R \in SUBSET S /\ S \in SUBSET S
  OBVIOUS
<1> QED BY <1>1, <1>5, <1>6

\* Nothing is more than the bound.
LEMMA TotalBounded ==
    ASSUME NEW S, IsFiniteSet(S), NEW f, Natural(S, f), NEW b \in Nat,
           \A x \in S : f[x] =< b
    PROVE  Total(S, f) =< b * Cardinality(S)
<1> DEFINE P == {T \in SUBSET S : Total(T, f) =< b * Cardinality(T)}
<1>1. \A T \in SUBSET S : IsFiniteSet(T) /\ Natural(T, f) /\ Cardinality(T) \in Nat
  BY FS_Subset, FS_CardinalityType DEF Natural
<1>2. {} \in P
  <2>1. Total({}, f) = 0 /\ Cardinality({}) = 0
    BY TotalOfNothing, FS_EmptySet
  <2>2. {} \in SUBSET S
    OBVIOUS
  <2> QED BY <2>1, <2>2
<1>3. ASSUME NEW T \in SUBSET S, T # {}, \A a \in T : T \ {a} \in P
      PROVE  T \in P
  <2>1. PICK a \in T : TRUE
    BY <1>3
  <2> DEFINE less == T \ {a}
             n == Cardinality(less)
             t == Total(less, f)
  <2>2. less \in SUBSET S /\ t =< b * n
    BY <1>3
  <2>3. Total(T, f) = f[a] + t /\ f[a] \in Nat /\ t \in Nat /\ f[a] =< b
    BY <1>1, TotalRemoved
  <2>4. Cardinality(T) = n + 1 /\ n \in Nat
    BY <1>1, <2>2, FS_RemoveElement
  <2> HIDE DEF less, n, t
  <2>5. b * (n + 1) = b * n + b
    BY <2>4
  <2>6. b * n \in Nat
    BY <2>4
  <2> DEFINE m == b * n
  <2>7. f[a] + t =< m + b
    <3> HIDE DEF m
    <3> QED BY <2>2, <2>3, <2>6 DEF m
  <2>8. Total(T, f) =< b * Cardinality(T)
    BY <2>3, <2>4, <2>5, <2>7
  <2> QED BY <2>8
<1>4. \A T \in SUBSET S : T \in P
  <2> HIDE DEF P
  <2> QED BY <1>2, <1>3, SubsetInduction
<1>5. S \in SUBSET S
  OBVIOUS
<1> QED BY <1>4, <1>5

\* One amount changes.
LEMMA TotalChanged ==
    ASSUME NEW S, IsFiniteSet(S), NEW f, Natural(S, f), NEW a \in S,
           NEW e, Natural(S, e), \A x \in S \ {a} : e[x] = f[x]
    PROVE  /\ Total(S, e) + f[a] = Total(S, f) + e[a]
           /\ Total(S, e) \in Nat /\ Total(S, f) \in Nat
           /\ f[a] \in Nat /\ e[a] \in Nat
<1> DEFINE R == S \ {a}
<1>1. IsFiniteSet(R) /\ Natural(R, f)
  BY FS_Subset DEF Natural
<1>2. Total(R, e) = Total(R, f)
  <2> HIDE DEF R
  <2>1. \A x \in R : e[x] = f[x]
    BY DEF R
  <2> QED BY <1>1, <2>1, TotalSame
<1>3. /\ Total(S, f) = f[a] + Total(R, f)
      /\ f[a] \in Nat /\ Total(S, f) \in Nat /\ Total(R, f) \in Nat
  BY TotalRemoved
<1>4. /\ Total(S, e) = e[a] + Total(R, e)
      /\ e[a] \in Nat /\ Total(S, e) \in Nat
  BY TotalRemoved
<1> QED BY <1>2, <1>3, <1>4

\* The amounts of S, found at other places.
LEMMA TotalMoved ==
    ASSUME NEW S, IsFiniteSet(S), NEW f, Natural(S, f),
           NEW R, NEW e, NEW b, \A x \in S : b[x] \in R /\ e[b[x]] = f[x],
           \A x, y \in S : b[x] = b[y] => x = y,
           \A y \in R : \E x \in S : b[x] = y
    PROVE  Total(R, e) = Total(S, f)
<1> DEFINE Im(T) == {b[x] : x \in T}
           P == {T \in SUBSET S : Total(Im(T), e) = Total(T, f)}
<1>1. {} \in P
  <2>1. Im({}) = {} /\ {} \in SUBSET S
    OBVIOUS
  <2> HIDE DEF Im
  <2> QED BY <2>1, TotalOfNothing
<1>2. ASSUME NEW T \in SUBSET S, T # {}, \A a \in T : T \ {a} \in P
      PROVE  T \in P
  <2>1. PICK a \in T : TRUE
    BY <1>2
  <2>2. Total(Im(T \ {a}), e) = Total(T \ {a}, f)
    BY <1>2
  <2>3. Im(T) \ {b[a]} = Im(T \ {a}) /\ b[a] \in Im(T)
    <3>1. \A x \in T : b[x] = b[a] => x = a
      OBVIOUS
    <3> QED BY <3>1
  <2>4. IsFiniteSet(T) /\ Natural(T, f)
    BY FS_Subset DEF Natural
  <2>5. IsFiniteSet(Im(T)) /\ Natural(Im(T), e)
    <3>1. IsFiniteSet(Im(T))
      <4> DEFINE g == [x \in T |-> b[x]]
      <4>1. g \in Surjection(T, Im(T))
        BY DEF Surjection
      <4> HIDE DEF g, Im
      <4> QED BY <2>4, <4>1, FS_Surjection
    <3>2. \A x \in T : e[b[x]] \in Nat
      BY <2>4 DEF Natural
    <3> QED BY <3>1, <3>2 DEF Natural
  <2>6. e[b[a]] = f[a]
    OBVIOUS
  <2> DEFINE c == b[a]
             M == Im(T)
  <2>7. /\ Total(T, f) = f[a] + Total(T \ {a}, f)
    BY <2>4, TotalRemoved
  <2>8. Total(M, e) = e[c] + Total(M \ {c}, e)
    <3>1. IsFiniteSet(M) /\ Natural(M, e) /\ c \in M
      BY <2>3, <2>5
    <3> HIDE DEF M, c
    <3> QED BY <3>1, TotalRemoved
  <2> QED BY <2>2, <2>3, <2>6, <2>7, <2>8
<1>3. \A T \in SUBSET S : T \in P
  <2> HIDE DEF P
  <2> QED BY <1>1, <1>2, SubsetInduction
<1>4. Im(S) = R
  OBVIOUS
<1> QED BY <1>3, <1>4

LEMMA TotalUpTo ==
    ASSUME NEW n \in Nat, NEW m \in Nat, m = n + 1, NEW f, Natural(1..m, f)
    PROVE  /\ Total(1..m, f) = Total(1..n, f) + f[m]
           /\ Total(1..n, f) \in Nat
<1>0. IsFiniteSet(1..m)
  BY FS_Interval
<1>1. m \in 1..m /\ (1..m) \ {m} = 1..n
  OBVIOUS
<1>2. /\ Total(1..m, f) = f[m] + Total((1..m) \ {m}, f)
      /\ f[m] \in Nat /\ Total((1..m) \ {m}, f) \in Nat
  <2> DEFINE I == 1..m
  <2>1. IsFiniteSet(I) /\ m \in I /\ Natural(I, f)
    BY <1>0, <1>1
  <2> HIDE DEF I, Natural
  <2>2. /\ Total(I, f) = f[m] + Total(I \ {m}, f)
        /\ f[m] \in Nat /\ Total(I \ {m}, f) \in Nat
    BY <2>1, TotalRemoved
  <2> QED BY <2>2 DEF I
<1>3. Total(1..n, f) \in Nat /\ Total(1..m, f) = f[m] + Total(1..n, f)
  BY <1>1, <1>2
<1> HIDE DEF Natural
<1> QED BY <1>2, <1>3

\* g is f up to n, and e after it.
Joined(n, m, l, f, e, g) ==
    /\ n \in Nat /\ m \in Nat /\ l = n + m
    /\ Natural(1..n, f) /\ Natural(1..m, e) /\ Natural(1..l, g)
    /\ \A i \in 1..n : g[i] = f[i]
    /\ \A i \in 1..m : g[n + i] = e[i]

LEMMA TotalConcatenated ==
    ASSUME NEW n, NEW m, NEW l, NEW f, NEW e, NEW g, Joined(n, m, l, f, e, g)
    PROVE  Total(1..l, g) = Total(1..n, f) + Total(1..m, e)
<1> DEFINE Q == {k \in 0..m : Total(1..(n + k), g) = Total(1..n, f) + Total(1..k, e)}
<1>0. /\ n \in Nat /\ m \in Nat /\ l \in Nat /\ l = n + m
      /\ Natural(1..n, f) /\ Natural(1..m, e) /\ Natural(1..l, g)
      /\ \A i \in 1..n : g[i] = f[i]
      /\ \A i \in 1..m : g[n + i] = e[i]
  BY DEF Joined
<1>1. Total(1..n, f) \in Nat /\ IsFiniteSet(1..n)
  BY <1>0, FS_Interval, TotalType
<1>2. 0 \in Q
  <2>1. Total(1..n, g) = Total(1..n, f)
    BY <1>0, <1>1, TotalSame
  <2>2. 1..0 = {} /\ n + 0 = n
    BY <1>0
  <2>3. Total(1..0, e) = 0
    BY <2>2, TotalOfNothing
  <2> QED BY <1>0, <1>1, <2>1, <2>2, <2>3
<1>3. ASSUME NEW k \in 1..m, k - 1 \in Q
      PROVE  k \in Q
  <2> DEFINE j == k - 1
             a == n + k
             b == n + j
  <2>1. /\ j \in Nat /\ k \in Nat /\ k = j + 1 /\ a \in Nat /\ b \in Nat /\ a = b + 1
        /\ k \in 0..m /\ a \in 1..l
    BY <1>0
  <2>2. Natural(1..k, e) /\ Natural(1..a, g)
    <3> HIDE DEF a
    <3> QED BY <1>0, <2>1 DEF Natural
  <2>3. Total(1..b, g) = Total(1..n, f) + Total(1..j, e)
    BY <1>3
  <2>4. g[a] = e[k]
    BY <1>0
  <2>5. e[k] \in Nat
    BY <2>1, <2>2 DEF Natural
  <2> HIDE DEF a, b, j
  <2>6. Total(1..k, e) = Total(1..j, e) + e[k] /\ Total(1..j, e) \in Nat
    BY <2>1, <2>2, TotalUpTo
  <2>7. Total(1..a, g) = Total(1..b, g) + g[a]
    BY <2>1, <2>2, TotalUpTo
  <2>8. Total(1..a, g) = Total(1..n, f) + Total(1..k, e)
    BY <1>1, <2>3, <2>4, <2>5, <2>6, <2>7
  <2> QED BY <2>1, <2>8 DEF a
<1>4. \A k \in 0..m : k \in Q
  <2> HIDE DEF Q
  <2> QED BY <1>0, <1>2, <1>3, UpTo
<1>5. m \in Q
  <2>1. m \in 0..m
    BY <1>0
  <2> QED BY <1>4, <2>1
<1> QED BY <1>0, <1>5

-----------------------------------------------------------------------------
(* FlattenSeq puts sequences behind each other.                            *)

Flattening(F, bs) ==
    F = [i \in 1..Len(bs) |-> IF i = 1 THEN bs[i] ELSE F[i - 1] \o bs[i]]

\* How often P occurs in each sequence of bs.
Counts(bs, P) == [i \in 1..Len(bs) |-> Count(bs[i], P)]

LEMMA CountsType ==
    ASSUME NEW S, NEW bs \in Seq(Seq(S)), NEW P
    PROVE  Natural(1..Len(bs), Counts(bs, P))
<1> SUFFICES ASSUME NEW i \in 1..Len(bs)
             PROVE  Count(bs[i], P) \in Nat
  BY DEF Natural, Counts
<1>1. bs[i] \in Seq(S)
  OBVIOUS
<1> QED BY <1>1, CountType

\* The recursive function exists: the sequences are put together up to each i.
LEMMA FlatteningExists ==
    ASSUME NEW S, NEW bs \in Seq(Seq(S))
    PROVE  \E F : Flattening(F, bs)
<1> DEFINE n == Len(bs)
           Good(k, F) == \A i \in 1..k : F[i] = IF i = 1 THEN bs[i] ELSE F[i - 1] \o bs[i]
           P == {k \in 0..n : \E F : F = [i \in 1..k |-> F[i]] /\ Good(k, F)}
<1>1. n \in Nat
  OBVIOUS
<1> HIDE DEF n
<1>2. 0 \in P
  <2> DEFINE F == [i \in 1..0 |-> 0]
  <2>1. F = [i \in 1..0 |-> F[i]] /\ Good(0, F) /\ 0 \in 0..n
    BY <1>1
  <2> QED BY <2>1
<1>3. ASSUME NEW k \in 1..n, k - 1 \in P
      PROVE  k \in P
  <2>1. PICK F : F = [i \in 1..(k - 1) |-> F[i]] /\ Good(k - 1, F)
    BY <1>3
  <2> DEFINE G == [i \in 1..k |-> IF i = 1 THEN bs[i] ELSE F[i - 1] \o bs[i]]
  <2>2. ASSUME NEW i \in 1..(k - 1)
        PROVE  G[i] = F[i]
    <3>1. i \in 1..k
      BY <1>1
    <3>2. F[i] = IF i = 1 THEN bs[i] ELSE F[i - 1] \o bs[i]
      BY <2>1
    <3> QED BY <3>1, <3>2
  <2>3. \A i \in 1..k : i # 1 => i - 1 \in 1..(k - 1)
    BY <1>1
  <2>4. G = [i \in 1..k |-> G[i]] /\ Good(k, G)
    BY <2>2, <2>3
  <2>5. k \in 0..n
    BY <1>1
  <2> HIDE DEF G, Good
  <2> QED BY <2>4, <2>5
<1>4. n \in P
  <2> HIDE DEF P
  <2>1. \A k \in 0..n : k \in P
    BY <1>1, <1>2, <1>3, UpTo
  <2> QED BY <1>1, <2>1
<1>5. PICK F : F = [i \in 1..n |-> F[i]] /\ Good(n, F)
  BY <1>4
<1> QED BY <1>5 DEF Flattening, n

LEMMA FlattenedByPieces ==
    ASSUME NEW S, NEW bs \in Seq(Seq(S)), bs # <<>>
    PROVE  \E F : /\ FlattenSeq(bs) = F[Len(bs)]
                  /\ \A k \in 1..Len(bs) : F[k] = IF k = 1 THEN bs[k] ELSE F[k - 1] \o bs[k]
<1> DEFINE F == CHOOSE G : Flattening(G, bs)
<1>1. Len(bs) # 0
  OBVIOUS
<1>2. FlattenSeq(bs) = F[Len(bs)]
  BY <1>1 DEF FlattenSeq, Flattening
<1>3. Flattening(F, bs)
  BY FlatteningExists
<1> HIDE DEF F
<1>4. \A k \in 1..Len(bs) : F[k] = IF k = 1 THEN bs[k] ELSE F[k - 1] \o bs[k]
  BY <1>3 DEF Flattening
<1> QED BY <1>2, <1>4

LEMMA FlatteningCounts ==
    ASSUME NEW S, NEW bs \in Seq(Seq(S)), NEW F, Flattening(F, bs), NEW P
    PROVE  \A k \in 1..Len(bs) : F[k] \in Seq(S) /\ Count(F[k], P) = Total(1..k, Counts(bs, P))
<1> DEFINE n == Len(bs)
           f == Counts(bs, P)
           Q == {k \in 0..n : k = 0 \/ (F[k] \in Seq(S) /\ Count(F[k], P) = Total(1..k, f))}
<1>1. n \in Nat /\ \A k \in 1..n : /\ F[k] = IF k = 1 THEN bs[k] ELSE F[k - 1] \o bs[k]
                                   /\ bs[k] \in Seq(S) /\ f[k] = Count(bs[k], P)
  <2>1. n \in Nat /\ \A k \in 1..n : bs[k] \in Seq(S) /\ f[k] = Count(bs[k], P)
    BY DEF Counts
  <2>2. \A k \in 1..n : F[k] = IF k = 1 THEN bs[k] ELSE F[k - 1] \o bs[k]
    BY DEF Flattening
  <2> QED BY <2>1, <2>2
<1>2. Natural(1..n, f) /\ \A k \in 1..n : f[k] \in Nat
  BY CountsType DEF Natural
<1> HIDE DEF n, f
<1>3. 0 \in Q
  BY <1>1
<1>4. ASSUME NEW k \in 1..n, k - 1 \in Q
      PROVE  k \in Q
  <2> DEFINE l == k - 1
  <2>1. l \in Nat /\ k \in Nat /\ k = l + 1 /\ k \in 0..n
    BY <1>1
  <2>2. Natural(1..k, f)
    BY <1>1, <1>2 DEF Natural
  <2> HIDE DEF l
  <2>3. Total(1..k, f) = Total(1..l, f) + f[k] /\ Total(1..l, f) \in Nat
    BY <2>1, <2>2, TotalUpTo
  <2>4. CASE k = 1
    <3>1. 1..l = {}
      BY <2>1, <2>4
    <3>2. Total(1..l, f) = 0
      BY <3>1, TotalOfNothing
    <3>3. Total(1..k, f) = f[k]
      BY <1>2, <2>3, <3>2
    <3> QED BY <1>1, <2>1, <2>4, <3>3
  <2>5. CASE k # 1
    <3>1. F[l] \in Seq(S) /\ Count(F[l], P) = Total(1..l, f)
      BY <1>1, <1>4, <2>1, <2>5 DEF l
    <3>2. F[k] = F[l] \o bs[k] /\ bs[k] \in Seq(S) /\ f[k] = Count(bs[k], P)
      BY <1>1, <2>5 DEF l
    <3>3. F[k] \in Seq(S)
      BY <3>1, <3>2
    <3>4. Count(F[k], P) = Count(F[l], P) + Count(bs[k], P)
      BY <3>1, <3>2, CountConcatenated
    <3> QED BY <2>1, <2>3, <3>1, <3>2, <3>3, <3>4
  <2> QED BY <2>4, <2>5
<1>5. \A k \in 0..n : k \in Q
  <2> HIDE DEF Q
  <2> QED BY <1>1, <1>3, <1>4, UpTo
<1>6. ASSUME NEW k \in 1..n
      PROVE  F[k] \in Seq(S) /\ Count(F[k], P) = Total(1..k, f)
  <2>1. k \in Q /\ k # 0
    BY <1>1, <1>5
  <2> QED BY <2>1
<1> QED BY <1>6 DEF n, f

LEMMA CountFlattened ==
    ASSUME NEW S, NEW bs \in Seq(Seq(S)), NEW P
    PROVE  Count(FlattenSeq(bs), P) = Total(1..Len(bs), Counts(bs, P))
<1> DEFINE n == Len(bs)
           F == CHOOSE G : Flattening(G, bs)
<1>1. CASE n = 0
  <2>1. bs = <<>> /\ FlattenSeq(bs) = bs /\ 1..n = {}
    BY <1>1 DEF FlattenSeq
  <2> QED BY <2>1, CountNothing, TotalOfNothing
<1>2. CASE n # 0
  <2>1. Flattening(F, bs)
    BY FlatteningExists
  <2>2. FlattenSeq(bs) = F[n]
    BY <1>2 DEF FlattenSeq, Flattening
  <2>3. n \in 1..Len(bs)
    BY <1>2
  <2> HIDE DEF F
  <2> QED BY <2>1, <2>2, <2>3, FlatteningCounts DEF n
<1> QED BY <1>1, <1>2

LEMMA FlattenedAppended ==
    ASSUME NEW S, NEW bs \in Seq(Seq(S)), NEW b \in Seq(S), NEW P
    PROVE  /\ Count(FlattenSeq(Append(bs, b)), P) = Count(FlattenSeq(bs), P) + Count(b, P)
           /\ Count(FlattenSeq(bs), P) \in Nat
<1> DEFINE cs == Append(bs, b)
           n == Len(bs)
           m == Len(cs)
           f == Counts(bs, P)
           g == Counts(cs, P)
<1>1. /\ cs \in Seq(Seq(S)) /\ n \in Nat /\ m \in Nat /\ m = n + 1 /\ cs[m] = b
      /\ \A i \in 1..n : cs[i] = bs[i]
  BY AppendProperties
<1> HIDE DEF cs
<1>2. /\ Natural(1..n, f) /\ Natural(1..m, g)
      /\ g[m] = Count(b, P) /\ \A i \in 1..n : g[i] = f[i]
  <2>1. Natural(1..n, f) /\ Natural(1..m, g)
    BY <1>1, CountsType
  <2>2. g[m] = Count(cs[m], P) /\ \A i \in 1..n : g[i] = Count(cs[i], P) /\ f[i] = Count(bs[i], P)
    BY <1>1 DEF Counts
  <2> HIDE DEF f, g
  <2> QED BY <1>1, <2>1, <2>2
<1>3. /\ Count(FlattenSeq(bs), P) = Total(1..n, f)
      /\ Count(FlattenSeq(cs), P) = Total(1..m, g)
  BY <1>1, CountFlattened
<1> HIDE DEF n, m, f, g
<1>4. IsFiniteSet(1..n)
  BY <1>1, FS_Interval
<1>5. Total(1..n, g) = Total(1..n, f) /\ Total(1..n, f) \in Nat
  BY <1>2, <1>4, TotalSame, TotalType
<1>6. Total(1..m, g) = Total(1..n, g) + g[m]
  BY <1>1, <1>2, TotalUpTo
<1> QED BY <1>2, <1>3, <1>5, <1>6 DEF cs

LEMMA ConcatenatedElements ==
    ASSUME NEW S, NEW s \in Seq(S), NEW t \in Seq(S)
    PROVE  s \o t \in Seq(S) /\ ToSet(s \o t) = ToSet(s) \cup ToSet(t)
<1>1. /\ s \o t \in Seq(S) /\ Len(s \o t) = Len(s) + Len(t)
      /\ \A i \in 1..Len(s) : (s \o t)[i] = s[i]
      /\ \A i \in 1..Len(t) : (s \o t)[Len(s) + i] = t[i]
  BY ConcatProperties
<1>2. /\ ToSet(s) = {s[i] : i \in 1..Len(s)} /\ ToSet(t) = {t[i] : i \in 1..Len(t)}
      /\ ToSet(s \o t) = {(s \o t)[i] : i \in 1..Len(s \o t)}
  <2> DEFINE u == s \o t
  <2>1. u \in Seq(S)
    BY <1>1
  <2> HIDE DEF u
  <2>2. ToSet(u) = {u[i] : i \in 1..Len(u)}
    BY <2>1, SequenceElements
  <2>3. ToSet(s) = {s[i] : i \in 1..Len(s)} /\ ToSet(t) = {t[i] : i \in 1..Len(t)}
    BY SequenceElements
  <2> QED BY <2>2, <2>3 DEF u
<1>3. ASSUME NEW i \in 1..Len(s \o t)
      PROVE  (s \o t)[i] \in ToSet(s) \cup ToSet(t)
  <2>1. CASE i =< Len(s) BY <1>1, <1>2, <2>1
  <2>2. CASE i > Len(s)
    <3>1. i - Len(s) \in 1..Len(t) /\ i = Len(s) + (i - Len(s))
      BY <1>1, <2>2
    <3>2. (s \o t)[i] = t[i - Len(s)]
      BY <1>1, <3>1
    <3> QED BY <1>2, <3>1, <3>2
  <2> QED BY <2>1, <2>2
<1>4. ASSUME NEW i \in 1..Len(s)
      PROVE  s[i] \in ToSet(s \o t)
  <2>1. i \in 1..Len(s \o t) /\ s[i] = (s \o t)[i]
    BY <1>1
  <2> QED BY <1>2, <2>1
<1>5. ASSUME NEW i \in 1..Len(t)
      PROVE  t[i] \in ToSet(s \o t)
  <2>1. Len(s) + i \in 1..Len(s \o t) /\ t[i] = (s \o t)[Len(s) + i]
    BY <1>1
  <2> QED BY <1>2, <2>1
<1>6. s \o t \in Seq(S)
  BY <1>1
<1>7. ToSet(s \o t) \subseteq ToSet(s) \cup ToSet(t)
  BY <1>2, <1>3
<1>8. ToSet(s) \cup ToSet(t) \subseteq ToSet(s \o t)
  BY <1>2, <1>4, <1>5
<1> QED BY <1>6, <1>7, <1>8

LEMMA FlattenedElements ==
    ASSUME NEW S, NEW bs \in Seq(Seq(S))
    PROVE  /\ FlattenSeq(bs) \in Seq(S)
           /\ ToSet(FlattenSeq(bs)) = UNION {ToSet(bs[i]) : i \in 1..Len(bs)}
<1> DEFINE n == Len(bs)
           F == CHOOSE G : Flattening(G, bs)
           Upto(k) == UNION {ToSet(bs[i]) : i \in 1..k}
           Q == {k \in 0..n : k = 0 \/ (F[k] \in Seq(S) /\ ToSet(F[k]) = Upto(k))}
<1>1. n \in Nat /\ \A k \in 1..n : /\ F[k] = IF k = 1 THEN bs[k] ELSE F[k - 1] \o bs[k]
                                   /\ bs[k] \in Seq(S)
  <2>1. n \in Nat /\ \A k \in 1..n : bs[k] \in Seq(S)
    OBVIOUS
  <2>2. Flattening(F, bs)
    BY FlatteningExists
  <2> HIDE DEF F
  <2>3. \A k \in 1..n : F[k] = IF k = 1 THEN bs[k] ELSE F[k - 1] \o bs[k]
    BY <2>2 DEF Flattening
  <2> QED BY <2>1, <2>3
<1>2. CASE n = 0
  <2>1. bs = <<>> /\ FlattenSeq(bs) = bs /\ 1..n = {}
    BY <1>2 DEF FlattenSeq
  <2>2. ToSet(bs) = {} /\ <<>> \in Seq(S)
    BY <2>1 DEF ToSet
  <2>3. UNION {ToSet(bs[i]) : i \in 1..n} = {}
    BY <2>1
  <2> QED BY <2>1, <2>2, <2>3
<1>3. CASE n # 0
  <2>1. FlattenSeq(bs) = F[n]
    BY <1>3 DEF FlattenSeq, Flattening
  <2> HIDE DEF n, F
  <2>2. 0 \in Q
    BY <1>1
  <2>3. ASSUME NEW k \in 1..n, k - 1 \in Q
        PROVE  k \in Q
    <3> DEFINE l == k - 1
    <3>1. l \in Nat /\ k \in Nat /\ k = l + 1 /\ k \in 0..n
      BY <1>1
    <3>2. Upto(k) = Upto(l) \cup ToSet(bs[k])
      <4>1. 1..k = (1..l) \cup {k}
        BY <3>1
      <4> HIDE DEF l
      <4> QED BY <4>1
    <3>3. CASE k = 1
      <4>1. 1..l = {}
        BY <3>1, <3>3
      <4> HIDE DEF l
      <4>2. Upto(l) = {}
        BY <4>1
      <4> HIDE DEF Upto
      <4> QED BY <1>1, <3>1, <3>2, <3>3, <4>2
    <3>4. CASE k # 1
      <4> HIDE DEF Upto
      <4>1. F[l] \in Seq(S) /\ ToSet(F[l]) = Upto(l)
        BY <1>1, <2>3, <3>1, <3>4 DEF l
      <4>2. F[k] = F[l] \o bs[k] /\ bs[k] \in Seq(S)
        BY <1>1, <3>4 DEF l
      <4>3. F[k] \in Seq(S) /\ ToSet(F[k]) = ToSet(F[l]) \cup ToSet(bs[k])
        BY <4>1, <4>2, ConcatenatedElements
      <4> QED BY <3>1, <3>2, <4>1, <4>3
    <3> QED BY <3>3, <3>4
  <2>4. \A k \in 0..n : k \in Q
    <3> HIDE DEF Q
    <3> QED BY <1>1, <2>2, <2>3, UpTo
  <2>5. F[n] \in Seq(S) /\ ToSet(F[n]) = Upto(n)
    <3>1. n \in Q
      <4> HIDE DEF Q
      <4> QED BY <1>1, <2>4
    <3> HIDE DEF Upto
    <3> QED BY <1>3, <3>1
  <2> QED BY <2>1, <2>5 DEF n
<1> QED BY <1>2, <1>3
=============================================================================
