----------------------------- MODULE RpcProofs -----------------------------
(***************************************************************************)
(* What the RPC handler's callers rely on, for any configuration, node,    *)
(* oracle, prices and times: a price that was quoted, and an estimate, is  *)
(* accepted as long as the queues' other places cannot all have been       *)
(* taken since; an operation that was found valid is valid then, its       *)
(* storage map is true, and no code it runs is exchanged unnoticed; and    *)
(* what the parser refuses is exactly what broke a rule.                   *)
(***************************************************************************)
EXTENDS GasEstimation, Validation, SequenceLemmas

-----------------------------------------------------------------------------
(* Products and quotients.                                                 *)

LEMMA Products ==
    ASSUME NEW a \in Nat, NEW b \in Nat, NEW c \in Nat, NEW d \in Nat, a =< b, c =< d
    PROVE  a * c \in Nat /\ b * d \in Nat /\ a * c =< b * d
<1>1. PICK x \in Nat : b = a + x
  <2>1. b - a \in Nat /\ b = a + (b - a)
    OBVIOUS
  <2> QED BY <2>1
<1>2. PICK y \in Nat : d = c + y
  <2>1. d - c \in Nat /\ d = c + (d - c)
    OBVIOUS
  <2> QED BY <2>1
<1>3. a * c \in Nat /\ a * y \in Nat /\ x * c \in Nat /\ x * y \in Nat
  OBVIOUS
<1>4. b * d = a * c + a * y + x * c + x * y
  BY <1>1, <1>2
<1> QED BY <1>3, <1>4

\* The quotient of natural numbers, as the inequalities that define it.
LEMMA Quotient ==
    ASSUME NEW a \in Nat, NEW d \in Nat \ {0}
    PROVE  /\ a \div d \in Nat
           /\ d * (a \div d) =< a
           /\ a < d * (a \div d) + d
OBVIOUS

LEMMA QuotientAtMost ==
    ASSUME NEW a \in Nat, NEW d \in Nat \ {0}, NEW k \in Nat, a < d * k + d
    PROVE  a \div d =< k
<1> DEFINE q == a \div d
<1>1. q \in Nat /\ d * q =< a
  BY Quotient
<1> HIDE DEF q
<1>2. CASE q > k
  <2>1. d * (k + 1) =< d * q
    BY <1>1, <1>2, Products
  <2>2. d * (k + 1) = d * k + d
    OBVIOUS
  <2> QED BY <1>1, <2>1, <2>2
<1> QED BY <1>1, <1>2 DEF q

\* It grows with the dividend, and as the divisor gets smaller.
LEMMA Quotients ==
    ASSUME NEW a \in Nat, NEW b \in Nat, a =< b,
           NEW d \in Nat \ {0}, NEW e \in Nat, d =< e
    PROVE  a \div e \in Nat /\ b \div d \in Nat /\ a \div e =< b \div d
<1> DEFINE k == b \div d
<1>1. k \in Nat /\ b < d * k + d /\ a \div e \in Nat
  BY Quotient
<1> HIDE DEF k
<1>2. d * k =< e * k /\ d * k \in Nat /\ e * k \in Nat
  BY <1>1, Products
<1>3. a < e * k + e
  BY <1>1, <1>2
<1>4. a \div e =< k
  BY <1>1, <1>3, QuotientAtMost
<1> QED BY <1>1, <1>4 DEF k

LEMMA Scaled ==
    ASSUME NEW value \in Nat, NEW percent \in Nat
    PROVE  /\ scaleBigIntByPercent(value, percent) \in Nat
           /\ percent >= 100 => scaleBigIntByPercent(value, percent) >= value
<1> DEFINE p == value * percent
<1>1. p \in Nat
  OBVIOUS
<1>2. percent >= 100 => value * 100 =< p
  BY Products
<1> HIDE DEF p
<1>3. p \div 100 \in Nat /\ (percent >= 100 => p \div 100 >= value)
  BY <1>1, <1>2
<1> QED BY <1>3 DEF p, scaleBigIntByPercent

-----------------------------------------------------------------------------
(* TimedQueue.                                                             *)

Past(queue, t) == \A i \in 1..Len(queue) : queue[i].timestamp =< t

\* A value of bound or less was in the queue at the time at, and each place
\* after it has been taken since, at least queueValidity seconds after the
\* one before.
Kept(queue, at, bound) ==
    \E i \in 1..Len(queue) :
        /\ queue[i].value =< bound
        /\ \A j \in 1..Len(queue) :
               j > i => queue[j].timestamp >= at + (j - i - 1) * queueValidity

LEMMA Appended ==
    ASSUME NEW q \in QueueType, NEW new \in Saved
    PROVE  /\ Append(q, new) \in QueueType /\ Len(q) \in Nat
           /\ Len(Append(q, new)) = Len(q) + 1
           /\ \A i \in 1..Len(q) : Append(q, new)[i] = q[i]
           /\ Append(q, new)[Len(q) + 1] = new
BY DEF QueueType

LEMMA Shifted ==
    ASSUME NEW q \in QueueType, NEW new \in Saved, q # <<>>
    PROVE  /\ Append(Tail(q), new) \in QueueType
           /\ Len(q) \in Nat /\ Len(q) > 0 /\ Len(Append(Tail(q), new)) = Len(q)
           /\ \A i \in 1..(Len(q) - 1) : Append(Tail(q), new)[i] = q[i + 1]
           /\ Append(Tail(q), new)[Len(q)] = new
<1> DEFINE rest == Tail(q)
<1>1. rest \in QueueType /\ Len(rest) = Len(q) - 1 /\ Len(q) \in Nat /\ Len(q) > 0
  BY DEF QueueType
<1>2. \A i \in 1..(Len(q) - 1) : rest[i] = q[i + 1]
  BY DEF QueueType
<1> HIDE DEF rest
<1>3. /\ Append(rest, new) \in QueueType /\ Len(Append(rest, new)) = Len(q)
      /\ Append(rest, new)[Len(q)] = new
      /\ \A i \in 1..Len(rest) : Append(rest, new)[i] = rest[i]
  BY <1>1, Appended
<1>4. ASSUME NEW i \in 1..(Len(q) - 1) PROVE Append(rest, new)[i] = q[i + 1]
  <2>1. i \in 1..Len(rest)
    BY <1>1
  <2> QED BY <1>2, <1>3, <2>1
<1> QED BY <1>1, <1>3, <1>4 DEF rest

\* The queue with another last entry.
WithLast(queue, new) == [queue EXCEPT ![Len(queue)] = new]

LEMMA Lowered ==
    ASSUME NEW q \in QueueType, NEW new \in Saved, q # <<>>
    PROVE  /\ WithLast(q, new) \in QueueType
           /\ Len(q) \in Nat /\ Len(q) > 0 /\ Len(WithLast(q, new)) = Len(q)
           /\ \A i \in 1..(Len(q) - 1) : WithLast(q, new)[i] = q[i]
           /\ WithLast(q, new)[Len(q)] = new
<1> DEFINE s == WithLast(q, new)
<1>1. Len(q) \in Nat /\ Len(q) > 0 /\ Len(q) \in 1..Len(q)
  BY DEF QueueType
<1>2. /\ s \in QueueType /\ Len(s) = Len(q)
      /\ \A i \in 1..Len(q) : s[i] = IF i = Len(q) THEN new ELSE q[i]
  BY <1>1, ExceptSeq DEF QueueType, WithLast
<1> HIDE DEF s
<1>3. ASSUME NEW i \in 1..(Len(q) - 1) PROVE s[i] = q[i]
  <2>1. i \in 1..Len(q) /\ i # Len(q)
    BY <1>1
  <2> QED BY <1>2, <2>1
<1>4. s[Len(q)] = new
  BY <1>1, <1>2
<1> QED BY <1>1, <1>2, <1>3, <1>4 DEF s

\* What a queue is after saveValue: as before, or with the new entry last,
\* in a place of its own or instead of one that had a higher value.
LEMMA SaveCases ==
    ASSUME NEW q \in QueueType, NEW v \in Nat, NEW t \in Nat, NEW s,
           s = saveValue(q, v, t),
           NEW new, new = [value |-> v, timestamp |-> t]
    PROVE  \/ s = q /\ (v = 0 \/ (q # <<>> /\ last(q).value =< v /\ ~ Due(q, t)))
           \/ v > 0 /\ Due(q, t) /\ s = Append(q, new)
           \/ /\ v > 0 /\ Due(q, t) /\ q # <<>> /\ Len(q) >= maxQueueSize
              /\ s = Append(Tail(q), new)
           \/ v > 0 /\ q # <<>> /\ v < last(q).value /\ s = WithLast(q, new)
<1>1. q # <<>> => Len(q) \in 1..Len(q) /\ last(q) \in Saved
  BY DEF QueueType, last
<1>2. q # <<>> => last(q).value \in Nat
  BY <1>1 DEF Saved
<1> QED BY <1>1, <1>2, TimedQueueAssumption DEF saveValue, Due, WithLast

LEMMA SaveType ==
    ASSUME NEW q \in QueueType, NEW v \in Nat, NEW t \in Nat, Past(q, t),
           NEW s, s = saveValue(q, v, t)
    PROVE  s \in QueueType /\ Past(s, t)
<1> DEFINE new == [value |-> v, timestamp |-> t]
<1>1. CASE s = q
  BY <1>1
<1>2. CASE s # q
  <2>1. v # 0
    BY <1>2 DEF saveValue
  <2>2. new \in Saved /\ new.timestamp = t
    BY <2>1 DEF Saved
  <2> HIDE DEF new
  <2>3. \/ s = Append(q, new)
        \/ q # <<>> /\ s = Append(Tail(q), new)
        \/ q # <<>> /\ s = WithLast(q, new)
    BY <1>2, SaveCases DEF new
  <2>4. /\ s \in QueueType /\ s[Len(s)] = new /\ Len(s) \in Nat
        /\ \A i \in 1..(Len(s) - 1) : \E j \in 1..Len(q) : s[i] = q[j]
    <3>1. CASE s = Append(q, new)
      BY <2>2, <3>1, Appended
    <3>2. CASE q # <<>> /\ s = Append(Tail(q), new)
      BY <2>2, <3>2, Shifted
    <3>3. CASE q # <<>> /\ s = WithLast(q, new)
      BY <2>2, <3>3, Lowered
    <3> QED BY <2>3, <3>1, <3>2, <3>3
  <2>5. ASSUME NEW i \in 1..Len(s) PROVE s[i].timestamp =< t
    <3>1. CASE i = Len(s)
      BY <2>2, <2>4, <3>1
    <3>2. CASE i # Len(s)
      <4>1. i \in 1..(Len(s) - 1)
        BY <2>4, <3>2
      <4> QED BY <2>4, <4>1 DEF Past
    <3> QED BY <3>1, <3>2
  <2> QED BY <2>4, <2>5 DEF Past
<1> QED BY <1>1, <1>2

\* The time that k places take.
Places(k) == k * queueValidity

LEMMA PlacesTake ==
    /\ Places(0) = 0
    /\ \A k \in Nat : Places(k) \in Nat /\ Places(k + 1) = Places(k) + queueValidity
    /\ \A k, l \in Nat : k =< l => Places(k) =< Places(l)
    /\ \A k \in Nat : maxQueueSize =< k + 1 => HonouredFor =< Places(k)
<1>1. \A k \in Nat : Places(k) \in Nat /\ Places(k + 1) = Places(k) + queueValidity
  BY TimedQueueAssumption DEF Places
<1>2. \A k, l \in Nat : k =< l => Places(k) =< Places(l)
  BY TimedQueueAssumption, Products DEF Places
<1>3. ASSUME NEW k \in Nat, maxQueueSize =< k + 1
      PROVE  HonouredFor =< Places(k)
  <2>1. CASE maxQueueSize = 0
    <3>1. HonouredFor = 0 - queueValidity
      BY <2>1, TimedQueueAssumption DEF HonouredFor
    <3> QED BY <1>1, <3>1, TimedQueueAssumption
  <2>2. CASE maxQueueSize # 0
    <3>1. maxQueueSize - 1 \in Nat /\ maxQueueSize - 1 =< k
      BY <1>3, <2>2, TimedQueueAssumption
    <3> QED BY <1>2, <3>1 DEF HonouredFor, Places
  <2> QED BY <2>1, <2>2
<1> QED BY <1>1, <1>2, <1>3, TimedQueueAssumption DEF Places

\* Kept, of the place i.
KeptAt(q, at, bound, i) ==
    /\ i \in 1..Len(q)
    /\ q[i].value =< bound
    /\ \A j \in 1..Len(q) : j > i => q[j].timestamp >= at + Places(j - i - 1)

LEMMA KeptPlace ==
    ASSUME NEW q, NEW at, NEW bound
    PROVE  Kept(q, at, bound) <=> \E i \in 1..Len(q) : KeptAt(q, at, bound, i)
BY DEF Kept, KeptAt, Places

\* saveValue takes the place of a value only if it has been there for long, or
\* for a lower one.
LEMMA SaveKeeps ==
    ASSUME NEW q \in QueueType, NEW v \in Nat, NEW t \in Nat, Past(q, t),
           NEW at \in Nat, at =< t, NEW bound \in Nat, Kept(q, at, bound),
           t - at < HonouredFor, NEW s, s = saveValue(q, v, t)
    PROVE  Kept(s, at, bound)
<1> DEFINE new == [value |-> v, timestamp |-> t]
<1>1. PICK i \in 1..Len(q) : KeptAt(q, at, bound, i)
  BY KeptPlace
<1> DEFINE n == Len(q)
<1>2. n \in Nat /\ i \in 1..n /\ n > 0 /\ q # <<>>
  BY DEF QueueType
<1>3. \A j \in 1..n : q[j].value \in Nat /\ q[j].timestamp \in Nat /\ q[j].timestamp =< t
  <2>1. \A j \in 1..n : q[j] \in Saved
    BY DEF QueueType
  <2> QED BY <2>1 DEF Saved, Past
<1>4. v # 0 => new \in Saved
  BY DEF Saved
<1>5. new.timestamp = t /\ new.value = v
  OBVIOUS
<1>6. \/ s = q
      \/ v # 0 /\ Due(q, t) /\ s = Append(q, new)
      \/ /\ v # 0 /\ Due(q, t) /\ n >= maxQueueSize
         /\ s = Append(Tail(q), new)
      \/ v # 0 /\ v < q[n].value /\ s = WithLast(q, new)
  BY SaveCases DEF last
<1> HIDE DEF new
\* Whoever is due comes a place after those that came since.
<1>7. Due(q, t) => t >= at + Places(n - i)
  <2> SUFFICES ASSUME Due(q, t) PROVE t >= at + Places(n - i)
    OBVIOUS
  <2>1. CASE i = n
    <3>1. n - i = 0
      BY <1>2, <2>1
    <3>2. Places(n - i) = 0
      BY <3>1, PlacesTake
    <3> HIDE DEF n
    <3> QED BY <3>2
  <2>2. CASE i # n
    <3>1. q[n].timestamp >= at + Places(n - i - 1)
      BY <1>1, <1>2, <2>2 DEF KeptAt
    <3>2. t - q[n].timestamp >= queueValidity
      BY <1>2 DEF Due, last
    <3>3. n - i - 1 \in Nat /\ n - i = (n - i - 1) + 1
      BY <1>2, <2>2
    <3>4. Places(n - i - 1) \in Nat /\ Places(n - i) = Places(n - i - 1) + queueValidity
      BY <3>3, PlacesTake
    <3>5. q[n].timestamp \in Nat
      BY <1>2, <1>3
    <3> DEFINE p == Places(n - i - 1)
               l == q[n].timestamp
    <3>6. p \in Nat /\ l \in Nat /\ l >= at + p /\ t - l >= queueValidity
      BY <3>1, <3>2, <3>4, <3>5
    <3> HIDE DEF n, p, l
    <3>7. t >= at + (p + queueValidity)
      BY <3>6, TimedQueueAssumption
    <3> QED BY <3>4, <3>7 DEF p
  <2> QED BY <2>1, <2>2
<1> SUFFICES \E k \in 1..Len(s) : KeptAt(s, at, bound, k)
  BY KeptPlace
<1>8. CASE s = q
  BY <1>1, <1>8
<1>9. CASE v # 0 /\ Due(q, t) /\ s = Append(q, new)
  <2>1. /\ Len(s) = n + 1 /\ s[n + 1] = new
        /\ \A j \in 1..n : s[j] = q[j]
    BY <1>4, <1>9, Appended
  <2>2. i \in 1..Len(s) /\ s[i].value =< bound
    BY <1>1, <1>2, <2>1 DEF KeptAt
  <2>3. ASSUME NEW j \in 1..Len(s), j > i
        PROVE  s[j].timestamp >= at + Places(j - i - 1)
    <3>1. CASE j = n + 1
      <4>1. j - i - 1 = n - i
        BY <1>2, <3>1
      <4> QED BY <1>5, <1>7, <1>9, <2>1, <3>1, <4>1
    <3>2. CASE j # n + 1
      <4>1. j \in 1..n
        BY <1>2, <2>1, <3>2
      <4> QED BY <1>1, <2>1, <2>3, <4>1 DEF KeptAt
    <3> QED BY <3>1, <3>2
  <2> QED BY <2>2, <2>3 DEF KeptAt
<1>10. CASE /\ v # 0 /\ Due(q, t) /\ n >= maxQueueSize
            /\ s = Append(Tail(q), new)
  <2>1. /\ Len(s) = n /\ s[n] = new
        /\ \A j \in 1..(n - 1) : s[j] = q[j + 1]
    BY <1>2, <1>4, <1>10, Shifted
  <2>2. i # 1
    <3> SUFFICES ASSUME i = 1 PROVE FALSE
      OBVIOUS
    <3>1. n - i \in Nat /\ maxQueueSize =< (n - i) + 1
      BY <1>2, <1>10
    <3>2. HonouredFor =< Places(n - i) /\ Places(n - i) \in Nat
      BY <3>1, PlacesTake
    <3>3. HonouredFor \in Int
      BY TimedQueueAssumption DEF HonouredFor
    <3> QED BY <1>7, <1>10, <3>2, <3>3
  <2>3. i - 1 \in 1..Len(s) /\ i - 1 \in 1..(n - 1) /\ (i - 1) + 1 = i
    BY <1>2, <2>1, <2>2
  <2>4. s[i - 1].value =< bound
    BY <1>1, <2>1, <2>3 DEF KeptAt
  <2>5. ASSUME NEW j \in 1..Len(s), j > i - 1
        PROVE  s[j].timestamp >= at + Places(j - (i - 1) - 1)
    <3>1. j - (i - 1) - 1 = j - i
      BY <1>2, <2>1
    <3>2. CASE j = n
      BY <1>5, <1>7, <1>10, <2>1, <3>1, <3>2
    <3>3. CASE j # n
      <4>1. j \in 1..(n - 1) /\ j + 1 \in 1..n /\ j + 1 > i /\ (j + 1) - i - 1 = j - i
        BY <1>2, <2>1, <2>5, <3>3
      <4>2. q[j + 1].timestamp >= at + Places((j + 1) - i - 1)
        BY <1>1, <4>1 DEF KeptAt
      <4> QED BY <2>1, <3>1, <4>1, <4>2
    <3> QED BY <3>2, <3>3
  <2> QED BY <2>3, <2>4, <2>5 DEF KeptAt
<1>11. CASE v # 0 /\ v < q[n].value /\ s = WithLast(q, new)
  <2>1. /\ Len(s) = n /\ s[n] = new
        /\ \A j \in 1..(n - 1) : s[j] = q[j]
    BY <1>2, <1>4, <1>11, Lowered
  <2>2. i \in 1..Len(s)
    BY <1>2, <2>1
  <2>3. s[i].value =< bound
    <3>1. q[i].value =< bound
      BY <1>1 DEF KeptAt
    <3>2. CASE i = n
      BY <1>2, <1>3, <1>5, <1>11, <2>1, <3>1, <3>2
    <3>3. CASE i # n
      <4>1. i \in 1..(n - 1)
        BY <1>2, <3>3
      <4> QED BY <2>1, <3>1, <4>1
    <3> QED BY <3>2, <3>3
  <2>4. ASSUME NEW j \in 1..Len(s), j > i
        PROVE  s[j].timestamp >= at + Places(j - i - 1)
    <3>1. j \in 1..n /\ q[j].timestamp >= at + Places(j - i - 1) /\ j - i - 1 \in Nat
      BY <1>1, <1>2, <2>1, <2>4 DEF KeptAt
    <3>2. Places(j - i - 1) \in Nat
      BY <3>1, PlacesTake
    <3>3. CASE j = n
      BY <1>2, <1>3, <1>5, <2>1, <3>1, <3>2, <3>3
    <3>4. CASE j # n
      <4>1. j \in 1..(n - 1)
        BY <1>2, <3>1, <3>4
      <4> QED BY <2>1, <3>1, <4>1
    <3> QED BY <3>3, <3>4
  <2> QED BY <2>2, <2>3, <2>4 DEF KeptAt
<1> QED BY <1>6, <1>8, <1>9, <1>10, <1>11

LEMMA LatestKept ==
    ASSUME NEW q \in QueueType, q # <<>>, NEW at, NEW bound, last(q).value =< bound
    PROVE  Kept(q, at, bound)
<1>1. Len(q) \in 1..Len(q) /\ \A j \in 1..Len(q) : ~ (j > Len(q))
  BY DEF QueueType
<1> QED BY <1>1 DEF Kept, last

\* What has just been saved, or something lower, is in the last place.
LEMMA SaveStarts ==
    ASSUME NEW q \in QueueType, NEW v \in Nat \ {0}, NEW t \in Nat, Past(q, t),
           NEW s, s = saveValue(q, v, t)
    PROVE  s # <<>> /\ last(s).value =< v /\ Kept(s, t, v)
<1> DEFINE new == [value |-> v, timestamp |-> t]
<1>1. new \in Saved /\ new.value = v
  BY DEF Saved
<1>2. \/ s = q /\ q # <<>> /\ last(q).value =< v
      \/ s = Append(q, new)
      \/ q # <<>> /\ s = Append(Tail(q), new)
      \/ q # <<>> /\ s = WithLast(q, new)
  BY SaveCases
<1>3. s \in QueueType
  BY SaveType
<1> HIDE DEF new
<1>4. s # <<>> /\ last(s).value =< v
  <2>1. CASE s = Append(q, new)
    <3>1. Len(s) = Len(q) + 1 /\ s[Len(q) + 1] = new /\ Len(q) \in Nat
      BY <1>1, <2>1, Appended
    <3> QED BY <1>1, <3>1 DEF last
  <2>2. CASE q # <<>> /\ s = Append(Tail(q), new)
    <3>1. Len(s) = Len(q) /\ s[Len(q)] = new /\ Len(q) \in Nat /\ Len(q) > 0
      BY <1>1, <2>2, Shifted
    <3> QED BY <1>1, <3>1 DEF last
  <2>3. CASE q # <<>> /\ s = WithLast(q, new)
    <3>1. Len(s) = Len(q) /\ s[Len(q)] = new /\ Len(q) \in Nat /\ Len(q) > 0
      BY <1>1, <2>3, Lowered
    <3> QED BY <1>1, <3>1 DEF last
  <2> QED BY <1>2, <2>1, <2>2, <2>3
<1> QED BY <1>3, <1>4, LatestKept

LEMMA ValuesType ==
    ASSUME NEW q \in QueueType
    PROVE  /\ Values(q) \in SUBSET (Nat \ {0})
           /\ Values(q) = {q[i].value : i \in 1..Len(q)}
           /\ q # <<>> => Values(q) # {} /\ last(q).value \in Values(q)
<1>1. \A i \in 1..Len(q) : q[i].value \in Nat \ {0}
  <2>1. \A i \in 1..Len(q) : q[i] \in Saved
    BY DEF QueueType
  <2> QED BY <2>1 DEF Saved
<1>2. DOMAIN q = 1..Len(q) /\ (q # <<>> => Len(q) \in 1..Len(q))
  BY DEF QueueType
<1> QED BY <1>1, <1>2 DEF Values, last

LEMMA MinValue ==
    ASSUME NEW q \in QueueType, q # <<>>
    PROVE  /\ getMinValue(q) \in Nat \ {0}
           /\ \A v \in Values(q) : getMinValue(q) =< v
<1> DEFINE I == Values(q)
<1>1. I \in SUBSET Nat /\ 0 \notin I /\ I # {}
  BY ValuesType
<1>2. getMinValue(q) = Min(I)
  BY DEF getMinValue, Min
<1> HIDE DEF I
<1>3. Min(I) \in I /\ \A y \in I : Min(I) =< y
  BY <1>1, FirstPosition
<1> QED BY <1>1, <1>2, <1>3 DEF I

LEMMA KeptMin ==
    ASSUME NEW q \in QueueType, NEW at, NEW bound \in Nat, Kept(q, at, bound)
    PROVE  q # <<>> /\ getMinValue(q) \in Nat \ {0} /\ getMinValue(q) =< bound
<1>1. PICK i \in 1..Len(q) : q[i].value =< bound
  BY DEF Kept
<1>2. q # <<>>
  BY <1>1
<1>3. q[i].value \in Values(q) /\ q[i].value \in Nat
  BY <1>1, ValuesType
<1>4. getMinValue(q) \in Nat \ {0} /\ getMinValue(q) =< q[i].value
  BY <1>2, <1>3, MinValue
<1> QED BY <1>1, <1>2, <1>3, <1>4

LEMMA MaxValue ==
    ASSUME NEW q \in QueueType, q # <<>>
    PROVE  /\ getMaxValue(q) \in Nat \ {0}
           /\ \A v \in Values(q) : getMaxValue(q) >= v
<1> DEFINE n == Len(q)
           val(i) == q[i].value
           B == {k \in 0..n : \E u \in Nat : \A i \in 1..k : val(i) =< u}
           T == Values(q)
<1>1. n \in Nat /\ \A i \in 1..n : val(i) \in Nat
  BY ValuesType DEF QueueType
<1>2. T = {val(i) : i \in 1..n} /\ T \in SUBSET (Nat \ {0}) /\ T # {}
  BY ValuesType
<1>3. getMaxValue(q) = Max(T)
  BY DEF getMaxValue, Max
<1> HIDE DEF n, val, T
<1>4. 0 \in B
  BY <1>1
<1>5. ASSUME NEW k \in 1..n, k - 1 \in B
      PROVE  k \in B
  <2>1. PICK u \in Nat : \A i \in 1..(k - 1) : val(i) =< u
    BY <1>5
  <2>2. val(k) \in Nat
    BY <1>1
  <2>3. PICK w \in Nat : u =< w /\ val(k) =< w
    BY <2>2
  <2>4. ASSUME NEW i \in 1..k PROVE val(i) =< w
    <3>1. val(i) \in Nat
      BY <1>1
    <3>2. CASE i = k
      BY <2>3, <3>2
    <3>3. CASE i # k
      <4>1. i \in 1..(k - 1)
        BY <3>3
      <4> QED BY <2>1, <2>3, <3>1, <4>1
    <3> QED BY <3>2, <3>3
  <2> QED BY <1>1, <2>4
<1>6. n \in B
  <2> HIDE DEF B
  <2>1. \A k \in 0..n : k \in B
    BY <1>1, <1>4, <1>5, UpTo
  <2> QED BY <1>1, <2>1
<1>7. PICK u \in Nat : \A i \in 1..n : val(i) =< u
  BY <1>6
<1>8. T \in SUBSET (1..u)
  BY <1>2, <1>7
<1>9. Max(T) \in T /\ \A y \in T : y =< Max(T)
  BY <1>2, <1>8, LastPosition
<1> QED BY <1>2, <1>3, <1>9 DEF T

-----------------------------------------------------------------------------
(* The price that the network asks is one.                                 *)

LEMMA BumpType ==
    ASSUME NEW c \in Config, NEW price \in GasPriceParameters
    PROVE  bumpTheGasPrice(c, price) \in GasPriceParameters
<1> DEFINE maxPriorityFee == maxBigInt(price.maxPriorityFeePerGas, getDefaultGasFee(c))
           fee == maxBigInt(price.maxFeePerGas, maxPriorityFee)
           result == Price(scaleBigIntByPercent(fee, gasPriceBump),
                           scaleBigIntByPercent(maxPriorityFee, gasPriceBump))
<1>1. getDefaultGasFee(c) \in Nat /\ gasPriceBump \in Nat /\ minimumFee \in Nat
  BY GasPricesAssumption DEF getDefaultGasFee
<1>2. maxPriorityFee \in Nat /\ fee \in Nat
  BY <1>1 DEF maxBigInt, GasPriceParameters
<1> HIDE DEF maxPriorityFee, fee
<1>3. result \in GasPriceParameters
  BY <1>1, <1>2, Scaled DEF Price, GasPriceParameters
<1> HIDE DEF result
<1>4. \A m \in Nat : AtLeast(m, result) \in GasPriceParameters
  BY <1>3 DEF AtLeast, maxBigInt, Price, GasPriceParameters
<1>5. result.maxFeePerGas \in Nat
  BY <1>3 DEF GasPriceParameters
<1> QED BY <1>1, <1>3, <1>4, <1>5 DEF bumpTheGasPrice, maxPriorityFee, fee, result

LEMMA AnswerPrices ==
    ASSUME NEW a \in NodeAnswer
    PROVE  /\ getLegacyTransactionGasPrice(a) \in GasPriceParameters
           /\ estimateGasPrice(a) \in GasPriceParameters
           /\ a.station # None => a.station \in GasPriceParameters
<1>1. /\ a.station \in [maxFeePerGas : Fees, maxPriorityFeePerGas : Fees] \cup {None}
      /\ {a.maxFeePerGas, a.maxPriorityFeePerGas, a.reward} \subseteq Fees \cup {None}
      /\ a.gasPrice \in Fees /\ Fees \subseteq Nat
  BY GasPricesAssumption DEF NodeAnswer
<1>2. getLegacyTransactionGasPrice(a) \in GasPriceParameters
  BY <1>1 DEF getLegacyTransactionGasPrice, Price, GasPriceParameters
<1>3. a.station # None => a.station \in GasPriceParameters
  BY <1>1 DEF GasPriceParameters
<1> DEFINE known == IF a.maxFeePerGas = None THEN 0 ELSE a.maxFeePerGas
           maxPriorityFee == IF a.maxPriorityFeePerGas = None
                             THEN getFallBackMaxPriorityFeePerGas(a, known)
                             ELSE a.maxPriorityFeePerGas
           fee == IF a.maxFeePerGas = None THEN a.gasPrice + maxPriorityFee
                  ELSE a.maxFeePerGas
<1>4. known \in Nat
  BY <1>1
<1> HIDE DEF known
<1>5. maxPriorityFee \in Nat
  BY <1>1, <1>4 DEF getFallBackMaxPriorityFeePerGas, minBigInt
<1> HIDE DEF maxPriorityFee
<1>6. fee \in Nat
  <2>1. a.gasPrice \in Nat /\ (a.maxFeePerGas # None => a.maxFeePerGas \in Nat)
    BY <1>1
  <2> QED BY <1>5, <2>1
<1> HIDE DEF fee
<1>7. fee \div 200 \in Nat
  BY <1>6
<1>8. estimateGasPrice(a) =
        Price(fee, IF maxPriorityFee = 0 THEN fee \div 200 ELSE maxPriorityFee)
  BY DEF estimateGasPrice, known, maxPriorityFee, fee
<1> QED BY <1>2, <1>3, <1>5, <1>6, <1>7, <1>8 DEF Price, GasPriceParameters

LEMMA NetworkPriceType ==
    ASSUME NEW c \in Configs
    PROVE  NetworkPrices[c] \subseteq GasPriceParameters
<1> SUFFICES ASSUME NEW a \in NodeAnswer
             PROVE  innerGetGasPrice(c, a) \in GasPriceParameters
  BY DEF NetworkPrices
<1>1. c \in Config
  BY GasPricesAssumption
<1>2. CASE c.chain = "polygon" /\ a.station # None
  BY <1>1, <1>2, AnswerPrices, BumpType DEF innerGetGasPrice
<1>3. CASE ~ (c.chain = "polygon" /\ a.station # None) /\ c.legacyTransactions
  BY <1>1, <1>3, AnswerPrices, BumpType DEF innerGetGasPrice
<1>4. CASE ~ (c.chain = "polygon" /\ a.station # None) /\ ~ c.legacyTransactions
  <2> DEFINE estimated == estimateGasPrice(a)
             bumped == bumpTheGasPrice(c, estimated)
  <2>1. estimated \in GasPriceParameters
    BY AnswerPrices
  <2> HIDE DEF estimated
  <2>2. bumped \in GasPriceParameters
    BY <1>1, <2>1, BumpType
  <2> HIDE DEF bumped
  <2>3. Price(maxBigInt(bumped.maxFeePerGas, estimated.maxFeePerGas),
              maxBigInt(bumped.maxPriorityFeePerGas, estimated.maxPriorityFeePerGas))
          \in GasPriceParameters
    BY <2>1, <2>2 DEF maxBigInt, Price, GasPriceParameters
  <2> QED BY <1>4, <2>3 DEF innerGetGasPrice, bumped, estimated
<1> QED BY <1>2, <1>3, <1>4

-----------------------------------------------------------------------------
(* The prices.                                                             *)

LEMMA PerUnits ==
    /\ PerUnit(0) = 0
    /\ \A v \in Nat : PerUnit(v) \in Nat
    /\ \A v, w \in Nat : v =< w => PerUnit(v) =< PerUnit(w)
BY GasPricesAssumption, Quotients, Quotient DEF PerUnit

\* How far a queue honours what was quoted for it: the price that the quote
\* was made from, or a lower one, has been kept.
Honours(queue, quoted) ==
    quoted > 0 /\ now - quote.at < HonouredFor =>
        \E bound \in Nat : PerUnit(bound) =< quoted /\ Kept(queue, quote.at, bound)

PricesInv ==
    /\ PricesTypeOK
    /\ Past(baseFeePerGasQueue, now)
    /\ Past(maxFeePerGasQueue, now)
    /\ Past(maxPriorityFeePerGasQueue, now)
    /\ quote # None =>
        /\ quote.at =< now
        /\ Honours(maxFeePerGasQueue, quote.maxFeePerGas)
        /\ Honours(maxPriorityFeePerGasQueue, quote.maxPriorityFeePerGas)

\* The queue is what it was, or a value was saved in it.
SavedIn(queue, new) == new = queue \/ \E v \in Nat : new = saveValue(queue, v, now)

LEMMA SavedInKeeps ==
    ASSUME NEW q \in QueueType, now \in Nat, Past(q, now), NEW s, SavedIn(q, s)
    PROVE  s \in QueueType /\ Past(s, now)
BY SaveType DEF SavedIn

LEMMA SavedInHonours ==
    ASSUME NEW q \in QueueType, now \in Nat, Past(q, now), NEW s, SavedIn(q, s),
           quote.at \in Nat, quote.at =< now, NEW quoted, Honours(q, quoted)
    PROVE  Honours(s, quoted)
<1> SUFFICES ASSUME quoted > 0, now - quote.at < HonouredFor
             PROVE  \E bound \in Nat : PerUnit(bound) =< quoted /\ Kept(s, quote.at, bound)
  BY DEF Honours
<1>1. PICK bound \in Nat : PerUnit(bound) =< quoted /\ Kept(q, quote.at, bound)
  BY DEF Honours
<1>2. Kept(s, quote.at, bound)
  BY <1>1, SaveKeeps DEF SavedIn
<1> QED BY <1>1, <1>2

\* A step that only saves prices.
Saves ==
    /\ UNCHANGED <<config, now, quote>>
    /\ SavedIn(baseFeePerGasQueue, baseFeePerGasQueue')
    /\ SavedIn(maxFeePerGasQueue, maxFeePerGasQueue')
    /\ SavedIn(maxPriorityFeePerGasQueue, maxPriorityFeePerGasQueue')

LEMMA SavesKeep == PricesInv /\ Saves => PricesInv'
<1> SUFFICES ASSUME PricesInv, Saves PROVE PricesInv'
  OBVIOUS
<1>1. /\ now \in Nat /\ now' = now /\ quote' = quote /\ config' = config
      /\ quote # None => quote.at \in Nat
  BY DEF PricesInv, PricesTypeOK, Saves
<1>2. /\ baseFeePerGasQueue' \in QueueType /\ Past(baseFeePerGasQueue', now)
      /\ maxFeePerGasQueue' \in QueueType /\ Past(maxFeePerGasQueue', now)
      /\ maxPriorityFeePerGasQueue' \in QueueType /\ Past(maxPriorityFeePerGasQueue', now)
  BY <1>1, SavedInKeeps DEF PricesInv, PricesTypeOK, Saves
<1>3. ASSUME quote # None
      PROVE  /\ Honours(maxFeePerGasQueue', quote.maxFeePerGas)
             /\ Honours(maxPriorityFeePerGasQueue', quote.maxPriorityFeePerGas)
  BY <1>1, <1>3, SavedInHonours DEF PricesInv, PricesTypeOK, Saves
<1>4. ASSUME quote # None
      PROVE  /\ Honours(maxFeePerGasQueue, quote.maxFeePerGas)'
             /\ Honours(maxPriorityFeePerGasQueue, quote.maxPriorityFeePerGas)'
  BY <1>1, <1>3, <1>4 DEF Honours, PerUnit
<1> QED BY <1>1, <1>2, <1>4 DEF PricesInv, PricesTypeOK, Past

LEMMA TickKeeps == PricesInv /\ Tick => PricesInv'
<1> SUFFICES ASSUME PricesInv, Tick PROVE PricesInv'
  OBVIOUS
<1>1. /\ now \in Nat /\ now' = now + 1 /\ UNCHANGED <<config, queues, quote>>
      /\ quote # None => quote.at \in Nat
  BY DEF PricesInv, PricesTypeOK, Tick
<1>2. ASSUME NEW q \in QueueType, Past(q, now)
      PROVE  Past(q, now')
  <2>1. \A i \in 1..Len(q) : q[i].timestamp \in Nat
    <3>1. \A i \in 1..Len(q) : q[i] \in Saved
      BY DEF QueueType
    <3> QED BY <3>1 DEF Saved
  <2> QED BY <1>1, <1>2, <2>1 DEF Past
<1>3. ASSUME NEW q, NEW quoted, quote # None, Honours(q, quoted)
      PROVE  quoted > 0 /\ now' - quote.at < HonouredFor =>
                \E bound \in Nat : PerUnit(bound) =< quoted /\ Kept(q, quote.at, bound)
  <2>1. HonouredFor \in Int
    BY TimedQueueAssumption DEF HonouredFor
  <2>2. now' - quote.at < HonouredFor => now - quote.at < HonouredFor
    BY <1>1, <1>3, <2>1
  <2> QED BY <1>3, <2>2 DEF Honours
<1>4. ASSUME quote # None
      PROVE  /\ Honours(maxFeePerGasQueue, quote.maxFeePerGas)'
             /\ Honours(maxPriorityFeePerGasQueue, quote.maxPriorityFeePerGas)'
  BY <1>1, <1>3, <1>4 DEF Honours, PerUnit, PricesInv, queues
<1>5. PricesTypeOK' /\ (quote # None => quote.at =< now')
  BY <1>1 DEF PricesInv, PricesTypeOK, queues
<1>6. Past(baseFeePerGasQueue, now') /\ Past(maxFeePerGasQueue, now')
      /\ Past(maxPriorityFeePerGasQueue, now')
  BY <1>2 DEF PricesInv, PricesTypeOK
<1> QED BY <1>1, <1>4, <1>5, <1>6 DEF PricesInv, queues, Past

\* What KnownPrices has are prices, and what getGasPrice does to the queues.
LEMMA KnownPriceType ==
    ASSUME PricesInv, NEW price \in KnownPrices
    PROVE  price \in GasPriceParameters
<1>1. config \in Configs
  BY DEF PricesInv, PricesTypeOK
<1>2. CASE ~ config.refreshes
  BY <1>1, <1>2, NetworkPriceType DEF KnownPrices
<1>3. CASE config.refreshes
  <2>1. /\ maxFeePerGasQueue # <<>> /\ maxPriorityFeePerGasQueue # <<>>
        /\ price = Price(last(maxFeePerGasQueue).value, last(maxPriorityFeePerGasQueue).value)
    BY <1>3 DEF KnownPrices, getLatestValue
  <2>2. last(maxFeePerGasQueue).value \in Nat /\ last(maxPriorityFeePerGasQueue).value \in Nat
    BY <2>1, ValuesType DEF PricesInv, PricesTypeOK
  <2> QED BY <2>1, <2>2 DEF Price, GasPriceParameters
<1> QED BY <1>2, <1>3

LEMMA GetGasPriceSaves ==
    ASSUME NEW price \in GasPriceParameters, getGasPrice(price)
    PROVE  /\ SavedIn(maxFeePerGasQueue, maxFeePerGasQueue')
           /\ SavedIn(maxPriorityFeePerGasQueue, maxPriorityFeePerGasQueue')
<1>1. price.maxFeePerGas \in Nat /\ price.maxPriorityFeePerGas \in Nat
  BY DEF GasPriceParameters
<1> QED BY <1>1 DEF getGasPrice, SavePrice, SavedIn

\* What was quoted of one fee: of the queue's last value, or of one that has
\* just been saved.
LEMMA QuotedNow ==
    ASSUME NEW q \in QueueType, now \in Nat, Past(q, now), NEW fee \in Nat,
           NEW multiplier \in Nat, multiplier >= 100, NEW s,
           \/ q # <<>> /\ fee = last(q).value /\ s = q
           \/ s = saveValue(q, fee, now),
           NEW quoted, quoted = scaleBigIntByPercent(PerUnit(fee), multiplier), quoted > 0
    PROVE  \E bound \in Nat : PerUnit(bound) =< quoted /\ Kept(s, now, bound)
<1>1. PerUnit(fee) \in Nat /\ quoted >= PerUnit(fee)
  BY PerUnits, Scaled
<1>2. fee # 0
  <2> SUFFICES ASSUME fee = 0 PROVE FALSE
    OBVIOUS
  <2>1. PerUnit(fee) = 0
    BY PerUnits
  <2>2. quoted = (0 * multiplier) \div 100
    BY <2>1 DEF scaleBigIntByPercent
  <2>3. 0 * multiplier = 0
    OBVIOUS
  <2>4. quoted = 0
    BY <2>2, <2>3
  <2> QED BY <2>4
<1>3. Kept(s, now, fee)
  BY <1>2, SaveStarts, LatestKept
<1> QED BY <1>1, <1>3

LEMMA QuoteKeeps == PricesInv /\ pimlico_getUserOperationGasPrice => PricesInv'
<1> SUFFICES ASSUME PricesInv, pimlico_getUserOperationGasPrice PROVE PricesInv'
  OBVIOUS
<1>1. /\ now \in Nat /\ now' = now /\ config' = config /\ config \in Configs
      /\ maxFeePerGasQueue \in QueueType /\ Past(maxFeePerGasQueue, now)
      /\ maxPriorityFeePerGasQueue \in QueueType /\ Past(maxPriorityFeePerGasQueue, now)
  BY DEF PricesInv, PricesTypeOK, pimlico_getUserOperationGasPrice
<1>2. PICK price \in KnownPrices, multiplier \in multipliers :
        /\ getGasPrice(price)
        /\ quote' =
            [maxFeePerGas |->
                 scaleBigIntByPercent(PerUnit(price.maxFeePerGas), multiplier),
             maxPriorityFeePerGas |->
                 scaleBigIntByPercent(PerUnit(price.maxPriorityFeePerGas), multiplier),
             at |-> now]
  BY DEF pimlico_getUserOperationGasPrice
<1>3. /\ price \in GasPriceParameters
      /\ price.maxFeePerGas \in Nat /\ price.maxPriorityFeePerGas \in Nat
      /\ multiplier \in Nat /\ multiplier >= 100
  BY KnownPriceType, GasPricesAssumption DEF GasPriceParameters
<1>4. /\ SavedIn(maxFeePerGasQueue, maxFeePerGasQueue')
      /\ SavedIn(maxPriorityFeePerGasQueue, maxPriorityFeePerGasQueue')
      /\ UNCHANGED baseFeePerGasQueue
  BY <1>2, <1>3, GetGasPriceSaves DEF pimlico_getUserOperationGasPrice
<1>5. /\ maxFeePerGasQueue' \in QueueType /\ Past(maxFeePerGasQueue', now)
      /\ maxPriorityFeePerGasQueue' \in QueueType /\ Past(maxPriorityFeePerGasQueue', now)
  BY <1>1, <1>4, SavedInKeeps
<1>6. /\ \/ /\ maxFeePerGasQueue # <<>> /\ maxFeePerGasQueue' = maxFeePerGasQueue
            /\ price.maxFeePerGas = last(maxFeePerGasQueue).value
         \/ maxFeePerGasQueue' = saveValue(maxFeePerGasQueue, price.maxFeePerGas, now)
      /\ \/ /\ maxPriorityFeePerGasQueue # <<>>
            /\ maxPriorityFeePerGasQueue' = maxPriorityFeePerGasQueue
            /\ price.maxPriorityFeePerGas = last(maxPriorityFeePerGasQueue).value
         \/ maxPriorityFeePerGasQueue' =
                saveValue(maxPriorityFeePerGasQueue, price.maxPriorityFeePerGas, now)
  <2>1. CASE config.refreshes
    <3>1. /\ maxFeePerGasQueue # <<>> /\ maxPriorityFeePerGasQueue # <<>>
          /\ price = Price(last(maxFeePerGasQueue).value,
                           last(maxPriorityFeePerGasQueue).value)
      BY <1>2, <2>1 DEF KnownPrices, getLatestValue
    <3> QED BY <1>2, <2>1, <3>1 DEF getGasPrice, Price
  <2>2. CASE ~ config.refreshes
    BY <1>2, <2>2 DEF getGasPrice, SavePrice
  <2> QED BY <2>1, <2>2
<1>7. /\ quote'.maxFeePerGas = scaleBigIntByPercent(PerUnit(price.maxFeePerGas), multiplier)
      /\ quote'.maxPriorityFeePerGas =
            scaleBigIntByPercent(PerUnit(price.maxPriorityFeePerGas), multiplier)
      /\ quote'.at = now
  BY <1>2
<1>8. quote' \in [maxFeePerGas : Nat, maxPriorityFeePerGas : Nat, at : Nat]
  <2>1. PerUnit(price.maxFeePerGas) \in Nat /\ PerUnit(price.maxPriorityFeePerGas) \in Nat
    BY <1>3, PerUnits
  <2>2. /\ scaleBigIntByPercent(PerUnit(price.maxFeePerGas), multiplier) \in Nat
        /\ scaleBigIntByPercent(PerUnit(price.maxPriorityFeePerGas), multiplier) \in Nat
    BY <1>3, <2>1, Scaled
  <2> QED BY <1>1, <1>2, <2>2
<1>9. Honours(maxFeePerGasQueue, quote.maxFeePerGas)'
  <2>1. quote'.maxFeePerGas > 0 =>
          \E bound \in Nat : /\ PerUnit(bound) =< quote'.maxFeePerGas
                             /\ Kept(maxFeePerGasQueue', now, bound)
    BY <1>1, <1>3, <1>6, <1>7, QuotedNow
  <2> QED BY <1>1, <1>7, <2>1 DEF Honours, PerUnit
<1>10. Honours(maxPriorityFeePerGasQueue, quote.maxPriorityFeePerGas)'
  <2>1. quote'.maxPriorityFeePerGas > 0 =>
          \E bound \in Nat : /\ PerUnit(bound) =< quote'.maxPriorityFeePerGas
                             /\ Kept(maxPriorityFeePerGasQueue', now, bound)
    BY <1>1, <1>3, <1>6, <1>7, QuotedNow
  <2> QED BY <1>1, <1>7, <2>1 DEF Honours, PerUnit
<1>11. PricesTypeOK' /\ Past(baseFeePerGasQueue', now)
  BY <1>1, <1>4, <1>5, <1>8 DEF PricesInv, PricesTypeOK
<1> QED BY <1>1, <1>5, <1>7, <1>9, <1>10, <1>11 DEF PricesInv, Past

LEMMA TimersKeep == PricesInv /\ (tryUpdateGasPrice \/ updateBaseFee) => PricesInv'
<1> SUFFICES ASSUME PricesInv, tryUpdateGasPrice \/ updateBaseFee PROVE Saves
  BY SavesKeep
<1>1. CASE tryUpdateGasPrice
  <2>1. PICK price \in NetworkPrices[config] : SavePrice(price)
    BY <1>1 DEF tryUpdateGasPrice
  <2>2. price.maxFeePerGas \in Nat /\ price.maxPriorityFeePerGas \in Nat
    BY <2>1, NetworkPriceType DEF PricesInv, PricesTypeOK, GasPriceParameters
  <2> QED BY <1>1, <2>1, <2>2 DEF tryUpdateGasPrice, SavePrice, Saves, SavedIn
<1>2. CASE updateBaseFee
  BY <1>2, GasPricesAssumption DEF updateBaseFee, Saves, SavedIn
<1> QED BY <1>1, <1>2

LEMMA PricesInitInv == PricesInit => PricesInv
<1> SUFFICES ASSUME PricesInit PROVE PricesInv
  OBVIOUS
<1>1. /\ config \in Configs /\ now = 0 /\ quote = None
  BY DEF PricesInit
<1>2. <<>> \in QueueType /\ Past(<<>>, 0)
  BY DEF QueueType, Past
<1>3. ASSUME NEW v \in Nat
      PROVE  saveValue(<<>>, v, 0) \in QueueType /\ Past(saveValue(<<>>, v, 0), 0)
  BY <1>2, SaveType
<1>4. PICK price \in NetworkPrices[config] :
        /\ maxFeePerGasQueue = saveValue(<<>>, price.maxFeePerGas, now)
        /\ maxPriorityFeePerGasQueue = saveValue(<<>>, price.maxPriorityFeePerGas, now)
  BY DEF PricesInit
<1>5. price.maxFeePerGas \in Nat /\ price.maxPriorityFeePerGas \in Nat
  BY <1>1, <1>4, NetworkPriceType DEF GasPriceParameters
<1>6. baseFeePerGasQueue \in QueueType /\ Past(baseFeePerGasQueue, 0)
  BY <1>1, <1>2, <1>3, GasPricesAssumption DEF PricesInit
<1> QED BY <1>1, <1>3, <1>4, <1>5, <1>6 DEF PricesInv, PricesTypeOK

LEMMA PricesNextInv == PricesInv /\ [PricesNext]_priceVars => PricesInv'
<1>1. PricesInv /\ UNCHANGED priceVars => Saves
  BY DEF priceVars, queues, Saves, SavedIn
<1> QED BY <1>1, SavesKeep, TickKeeps, TimersKeep, QuoteKeeps DEF PricesNext

\* The clock, the queues and the quotes are what they are taken for.
THEOREM PricesTypeCorrect == PricesSpec => []PricesTypeOK
<1>1. PricesInv => PricesTypeOK
  BY DEF PricesInv
<1> QED BY <1>1, PricesInitInv, PricesNextInv, PTL DEF PricesSpec

-----------------------------------------------------------------------------
(* The prices, with the estimates that use them.                           *)

LEMMA OracleAnswerType ==
    ASSUME NEW a \in OracleAnswers
    PROVE  /\ config.chainType = "op-stack" =>
                a["l1Fee"] \in OracleValues["l1Fee"] /\ a["baseFee"] \in OracleValues["baseFee"]
           /\ \A n \in SavedNames : a[n] \in OracleValues[n]
           /\ \A n \in Asked : OracleValues[n] \subseteq Nat
<1>1. OracleValues \in [Asked -> SUBSET Nat]
  BY GasEstimationAssumption
<1>2. config.chainType = "op-stack" => SavedNames = {}
  BY DEF SavedNames
<1> QED BY <1>1, <1>2 DEF OracleAnswers

LEMMA EstimatingSaves == PricesInv /\ eth_estimateUserOperationGas => Saves
<1> SUFFICES ASSUME PricesInv, eth_estimateUserOperationGas PROVE Saves
  OBVIOUS
<1>1. PICK own \in OpFees, a \in OracleAnswers :
        /\ baseFeePerGasQueue' =
               IF config.chainType = "op-stack" /\ fetchesBaseFee
               THEN saveValue(baseFeePerGasQueue, a["baseFee"], now)
               ELSE baseFeePerGasQueue
        /\ \E price \in {own} \cup KnownPrices : PricedBy(own, price)
  BY DEF eth_estimateUserOperationGas
<1>2. config.chainType = "op-stack" => a["baseFee"] \in Nat
  BY OracleAnswerType DEF Asked
<1>3. PICK price : PricedBy(own, price)
  BY <1>1
<1>4. /\ SavedIn(maxFeePerGasQueue, maxFeePerGasQueue')
      /\ SavedIn(maxPriorityFeePerGasQueue, maxPriorityFeePerGasQueue')
  BY <1>3, KnownPriceType, GetGasPriceSaves DEF PricedBy, SavedIn
<1> QED BY <1>1, <1>2, <1>4 DEF Saves, SavedIn, eth_estimateUserOperationGas

LEMMA EstimationPrices == PricesInv /\ [EstimationNext]_estimationVars => PricesInv'
<1>1. UNCHANGED estimationVars => UNCHANGED priceVars
  BY DEF estimationVars
<1> QED BY <1>1, PricesNextInv, EstimatingSaves, SavesKeep DEF EstimationNext

\* A price is accepted if the queues have kept what it was quoted from.
LEMMA QuoteAcceptable == PricesInv => QuotesHonoured
<1> SUFFICES ASSUME PricesInv, quote # None,
                    quote.maxFeePerGas > 0, quote.maxPriorityFeePerGas > 0,
                    now - quote.at < HonouredFor
             PROVE  Acceptable(quote)
  BY DEF QuotesHonoured
<1>1. ASSUME NEW q \in QueueType, NEW quoted \in Nat, quoted > 0, Honours(q, quoted)
      PROVE  q # <<>> /\ quoted >= PerUnit(getMinValue(q))
  <2>1. PICK bound \in Nat : PerUnit(bound) =< quoted /\ Kept(q, quote.at, bound)
    BY <1>1 DEF Honours
  <2>2. q # <<>> /\ getMinValue(q) \in Nat /\ getMinValue(q) =< bound
    BY <2>1, KeptMin
  <2>3. /\ PerUnit(getMinValue(q)) \in Nat /\ PerUnit(bound) \in Nat
        /\ PerUnit(getMinValue(q)) =< PerUnit(bound)
    BY <2>2, PerUnits
  <2> QED BY <2>1, <2>2, <2>3
<1>2. quote.maxFeePerGas \in Nat /\ quote.maxPriorityFeePerGas \in Nat
  BY DEF PricesInv, PricesTypeOK
<1>3. maxFeePerGasQueue # <<>> /\ quote.maxFeePerGas >= PerUnit(getMinValue(maxFeePerGasQueue))
  BY <1>1, <1>2 DEF PricesInv, PricesTypeOK
<1>4. /\ maxPriorityFeePerGasQueue # <<>>
      /\ quote.maxPriorityFeePerGas >= PerUnit(getMinValue(maxPriorityFeePerGasQueue))
  BY <1>1, <1>2 DEF PricesInv, PricesTypeOK
<1> QED BY <1>3, <1>4 DEF Acceptable

\* For any configuration, prices of the node, size of the queues and times:
\* what pimlico_getUserOperationGasPrice quoted is accepted by
\* validateGasPrice until the queues' other places can all have been taken.
THEOREM QuotesKept == EstimationSpec => []QuotesHonoured
<1>1. EstimationInit => PricesInv
  BY PricesInitInv DEF EstimationInit
<1> QED BY <1>1, EstimationPrices, QuoteAcceptable, PTL DEF EstimationSpec

-----------------------------------------------------------------------------
(* preVerificationGas.                                                     *)

\* The oracles' fees and rates are not 0.  saveValue keeps no 0, so that an
\* estimate made from one would be forgotten at once.
PositiveAnswers == \A n \in Asked \ {"l1Fee"} : 0 \notin OracleValues[n]

FeesOK(fees) == fees \in GasPriceParameters /\ fees.maxFeePerGas > 0

LEMMA OptimismFalls ==
    ASSUME NEW fees, FeesOK(fees), NEW l1Fee \in Nat,
           NEW low \in Nat \ {0}, NEW high \in Nat, low =< high
    PROVE  /\ calcOptimismPreVerificationGas(fees, l1Fee, high) \in Nat
           /\ calcOptimismPreVerificationGas(fees, l1Fee, low) \in Nat
           /\ calcOptimismPreVerificationGas(fees, l1Fee, high)
                =< calcOptimismPreVerificationGas(fees, l1Fee, low)
<1> DEFINE d == minBigInt(fees.maxFeePerGas, low + fees.maxPriorityFeePerGas)
           e == minBigInt(fees.maxFeePerGas, high + fees.maxPriorityFeePerGas)
<1>1. d \in Nat \ {0} /\ e \in Nat /\ d =< e
  BY DEF FeesOK, GasPriceParameters, minBigInt
<1> HIDE DEF d, e
<1>2. e \in Nat \ {0}
  BY <1>1
<1>3. l1Fee \div e \in Nat /\ l1Fee \div d \in Nat /\ l1Fee \div e =< l1Fee \div d
  <2> DEFINE n == l1Fee
  <2>1. n \in Nat /\ n =< n
    OBVIOUS
  <2> HIDE DEF n
  <2>2. n \div e \in Nat /\ n \div d \in Nat /\ n \div e =< n \div d
    BY <1>1, <1>2, <2>1, Quotients
  <2> QED BY <2>2 DEF n
<1>4. staticFee \in Nat
  BY GasEstimationAssumption
<1>5. staticFee + l1Fee \div e \in Nat /\ staticFee + l1Fee \div d \in Nat
      /\ staticFee + l1Fee \div e =< staticFee + l1Fee \div d
  BY <1>3, <1>4
<1> QED BY <1>5 DEF calcOptimismPreVerificationGas, d, e

LEMMA MantleGrows ==
    ASSUME NEW fees, FeesOK(fees),
           NEW v \in [MantleNames -> Nat], NEW w \in [MantleNames -> Nat],
           \A n \in MantleNames : v[n] =< w[n]
    PROVE  /\ calcMantlePreVerificationGas(fees, v) \in Nat
           /\ calcMantlePreVerificationGas(fees, w) \in Nat
           /\ calcMantlePreVerificationGas(fees, v) =< calcMantlePreVerificationGas(fees, w)
<1> DEFINE a(u) == u.rollupDataGasAndOverhead * u.l1GasPrice
           b(u) == a(u) * u.tokenRatio
           c(u) == b(u) * u.scalar
           f == fees.maxFeePerGas
           q(u) == c(u) \div rollUpDivisor
           r(u) == q(u) \div f
<1>0. /\ \A n \in MantleNames : v[n] \in Nat /\ w[n] \in Nat
      /\ {"tokenRatio", "scalar", "rollupDataGasAndOverhead", "l1GasPrice"} = MantleNames
  BY DEF MantleNames
<1>1. /\ v.rollupDataGasAndOverhead \in Nat /\ w.rollupDataGasAndOverhead \in Nat
      /\ v.rollupDataGasAndOverhead =< w.rollupDataGasAndOverhead
      /\ v.l1GasPrice \in Nat /\ w.l1GasPrice \in Nat /\ v.l1GasPrice =< w.l1GasPrice
      /\ v.tokenRatio \in Nat /\ w.tokenRatio \in Nat /\ v.tokenRatio =< w.tokenRatio
      /\ v.scalar \in Nat /\ w.scalar \in Nat /\ v.scalar =< w.scalar
  BY <1>0
<1>2. f \in Nat \ {0} /\ rollUpDivisor \in Nat \ {0} /\ staticFee \in Nat
  BY GasEstimationAssumption DEF FeesOK, GasPriceParameters
<1> HIDE DEF f
<1>3. a(v) \in Nat /\ a(w) \in Nat /\ a(v) =< a(w)
  BY <1>1, Products
<1> HIDE DEF a
<1>4. b(v) \in Nat /\ b(w) \in Nat /\ b(v) =< b(w)
  BY <1>1, <1>3, Products
<1> HIDE DEF b
<1>5. c(v) \in Nat /\ c(w) \in Nat /\ c(v) =< c(w)
  BY <1>1, <1>4, Products
<1> HIDE DEF c
<1>6. q(v) \in Nat /\ q(w) \in Nat /\ q(v) =< q(w)
  BY <1>2, <1>5, Quotients
<1> HIDE DEF q
<1>7. r(v) \in Nat /\ r(w) \in Nat /\ r(v) =< r(w)
  BY <1>2, <1>6, Quotients
<1> HIDE DEF r
<1>8. staticFee + r(v) \in Nat /\ staticFee + r(w) \in Nat
      /\ staticFee + r(v) =< staticFee + r(w)
  BY <1>2, <1>7
<1>9. /\ calcMantlePreVerificationGas(fees, v) = staticFee + r(v)
      /\ calcMantlePreVerificationGas(fees, w) = staticFee + r(w)
  BY DEF calcMantlePreVerificationGas, r, q, c, b, a, f
<1> QED BY <1>8, <1>9

\* An estimate on Arbitrum, from the fee of L1 and the one of L2.
ArbitrumGas(l1BaseFee, l2BaseFee) == staticFee + (l1Units * l1BaseFee) \div l2BaseFee

\* What is asked to validate: the gas of the oracle's answer, in L1's gas, at
\* the lowest fee of L1 and the highest of L2.
ArbitrumAsked(l1, l2, low, high) ==
    LET feesForL1 == (((l1Units * l1) \div l2) * l2) \div l1
    IN  staticFee + (feesForL1 * low) \div high

LEMMA ArbitrumBounded ==
    ASSUME NEW l1 \in Nat \ {0}, NEW l2 \in Nat \ {0},
           NEW low \in Nat, NEW high \in Nat \ {0},
           NEW l1BaseFee \in Nat, low =< l1BaseFee,
           NEW l2BaseFee \in Nat \ {0}, l2BaseFee =< high
    PROVE  /\ ArbitrumAsked(l1, l2, low, high) \in Nat
           /\ ArbitrumGas(l1BaseFee, l2BaseFee) \in Nat
           /\ ArbitrumAsked(l1, l2, low, high) =< ArbitrumGas(l1BaseFee, l2BaseFee)
<1> DEFINE p == l1Units * l1
           g == p \div l2
           h == g * l2
           f == h \div l1
           k == f * low
           m == l1Units * l1BaseFee
<1>1. p \in Nat /\ m \in Nat /\ l1Units \in Nat /\ staticFee \in Nat /\ p = l1 * l1Units
  BY GasEstimationAssumption
<1> HIDE DEF p
<1>2. g \in Nat /\ l2 * g =< p
  BY <1>1, Quotient
<1> HIDE DEF g
<1>3. h \in Nat /\ h =< p
  BY <1>1, <1>2
<1>4. h < l1 * l1Units + l1 /\ l1 * l1Units \in Nat
  BY <1>1, <1>3
<1> HIDE DEF h
<1>5. f \in Nat /\ f =< l1Units
  BY <1>1, <1>3, <1>4, QuotientAtMost, Quotient
<1> HIDE DEF f
<1>6. k \in Nat /\ k =< m
  BY <1>1, <1>5, Products
<1> HIDE DEF k, m
<1>7. k \div high \in Nat /\ m \div l2BaseFee \in Nat /\ k \div high =< m \div l2BaseFee
  BY <1>1, <1>6, Quotients
<1>8. staticFee + k \div high \in Nat /\ staticFee + m \div l2BaseFee \in Nat
      /\ staticFee + k \div high =< staticFee + m \div l2BaseFee
  BY <1>1, <1>7
<1> QED BY <1>8 DEF ArbitrumAsked, ArbitrumGas, k, f, h, g, p, m

\* What an estimate was made from is kept, in the queues q.
KeptSince(q) ==
    CASE config.chainType = "op-stack" ->
           /\ estimate.l2Fee \in Nat \ {0}
           /\ estimate.preVerificationGas
                >= calcOptimismPreVerificationGas(estimate.fees, estimate.l1Fee, estimate.l2Fee)
      [] config.chainType = "arbitrum" ->
           /\ estimate.l2Fee \in Nat \ {0}
           /\ \E fee \in Nat \ {0} :
                /\ estimate.preVerificationGas >= ArbitrumGas(fee, estimate.l2Fee)
                /\ now - estimate.at < HonouredFor => Kept(q["l1BaseFee"], estimate.at, fee)
      [] config.chainType = "mantle" ->
           \E v \in [MantleNames -> Nat] :
                /\ estimate.preVerificationGas >= calcMantlePreVerificationGas(estimate.fees, v)
                /\ now - estimate.at < HonouredFor =>
                     \A n \in MantleNames : Kept(q[n], estimate.at, v[n])
      [] OTHER -> estimate.preVerificationGas >= staticFee

OracleInv ==
    /\ oracle \in [OracleNames -> QueueType]
    /\ \A n \in OracleNames : Past(oracle[n], now)

EstimateType ==
    /\ FeesOK(estimate.fees)
    /\ estimate.l1Fee \in Nat
    /\ estimate.preVerificationGas \in Nat
    /\ estimate.version \in {"v0.6", "v0.7"}
    /\ estimate.cost \in Costs
    /\ estimate.at \in Nat /\ estimate.at =< now

EstimatesInv ==
    /\ PricesInv
    /\ OracleInv
    /\ Succeeded => EstimateType /\ KeptSince(oracle)

LEMMA EstimatesInitInv == EstimationInit => EstimatesInv
<1> SUFFICES ASSUME EstimationInit PROVE EstimatesInv
  OBVIOUS
<1>1. <<>> \in QueueType /\ Past(<<>>, now)
  BY DEF QueueType, Past
<1>2. OracleInv
  BY <1>1 DEF EstimationInit, OracleInv
<1> QED BY <1>2, PricesInitInv DEF EstimationInit, EstimatesInv, Succeeded

\* As time goes by.
LEMMA LaterKept ==
    ASSUME EstimatesInv, now' \in Nat, now =< now', UNCHANGED <<config, oracle, estimate>>,
           PricesInv'
    PROVE  EstimatesInv'
<1>1. now \in Nat /\ HonouredFor \in Int
  BY TimedQueueAssumption DEF EstimatesInv, PricesInv, PricesTypeOK, HonouredFor
<1>2. ASSUME NEW n \in OracleNames PROVE Past(oracle[n], now')
  <2>1. oracle[n] \in QueueType /\ Past(oracle[n], now)
    BY DEF EstimatesInv, OracleInv
  <2>2. \A i \in 1..Len(oracle[n]) : oracle[n][i] \in Saved
    BY <2>1 DEF QueueType
  <2>3. \A i \in 1..Len(oracle[n]) : oracle[n][i].timestamp \in Nat
    BY <2>2 DEF Saved
  <2> QED BY <1>1, <2>1, <2>3 DEF Past
<1>3. OracleInv'
  BY <1>2 DEF EstimatesInv, OracleInv, Past
<1>4. ASSUME Succeeded PROVE EstimateType' /\ KeptSince(oracle)'
  <2>1. EstimateType /\ KeptSince(oracle) /\ estimate.at \in Nat
    BY <1>4 DEF EstimatesInv, EstimateType
  <2>2. EstimateType'
    BY <1>1, <2>1 DEF EstimateType, FeesOK
  <2>3. now' - estimate.at < HonouredFor => now - estimate.at < HonouredFor
    BY <1>1, <2>1
  <2>4. KeptSince(oracle)'
    BY <2>1, <2>3 DEF KeptSince, calcOptimismPreVerificationGas, ArbitrumGas,
       calcMantlePreVerificationGas, Kept
  <2> QED BY <2>2, <2>4
<1>5. Succeeded' => Succeeded
  BY DEF Succeeded
<1> QED BY <1>3, <1>4, <1>5 DEF EstimatesInv

\* Another estimate saves what the oracles answer now.
LEMMA SavingKeeps ==
    ASSUME EstimatesInv, NEW a \in OracleAnswers
    PROVE  /\ Saving(a) \in [OracleNames -> QueueType]
           /\ \A n \in OracleNames : Past(Saving(a)[n], now)
           /\ \A n \in OracleNames, at \in Nat, bound \in Nat :
                at =< now /\ now - at < HonouredFor /\ Kept(oracle[n], at, bound)
                => Kept(Saving(a)[n], at, bound)
<1>1. now \in Nat
  BY DEF EstimatesInv, PricesInv, PricesTypeOK
<1>2. ASSUME NEW n \in OracleNames
      PROVE  /\ Saving(a)[n] \in QueueType /\ Past(Saving(a)[n], now)
             /\ \A at \in Nat, bound \in Nat :
                  at =< now /\ now - at < HonouredFor /\ Kept(oracle[n], at, bound)
                  => Kept(Saving(a)[n], at, bound)
  <2>1. oracle[n] \in QueueType /\ Past(oracle[n], now)
    BY DEF EstimatesInv, OracleInv
  <2>2. CASE n \in SavedNames
    <3>1. a[n] \in Nat
      BY <2>2, OracleAnswerType DEF Asked
    <3>2. Saving(a)[n] = saveValue(oracle[n], a[n], now)
      BY <2>2 DEF Saving
    <3> QED BY <1>1, <2>1, <3>1, <3>2, SaveType, SaveKeeps
  <2>3. CASE n \notin SavedNames
    BY <2>1, <2>3 DEF Saving
  <2> QED BY <2>2, <2>3
<1> QED BY <1>2 DEF Saving

\* A new estimate is more than what it is made from.
LEMMA StartsKept ==
    ASSUME PositiveAnswers, EstimatesInv, NEW a \in OracleAnswers,
           NEW price, FeesOK(price),
           NEW version \in {"v0.6", "v0.7"}, NEW c \in Costs,
           config' = config, now' = now, oracle' = Saving(a),
           estimate' = Answer("success", version, price, a, c)
    PROVE  EstimateType' /\ KeptSince(oracle)'
<1> DEFINE gas == scaleBigIntByPercent(Estimated(price, a), 110)
<1>1. /\ estimate'.fees = price /\ estimate'.version = version /\ estimate'.cost = c
      /\ estimate'.preVerificationGas = gas /\ estimate'.l1Fee = L1Fee(a)
      /\ estimate'.l2Fee = L2Fee(a) /\ estimate'.at = now
  BY DEF Answer
<1>2. now \in Nat /\ staticFee \in Nat /\ l1Units \in Nat
  BY GasEstimationAssumption DEF EstimatesInv, PricesInv, PricesTypeOK
<1>3. \A n \in SavedNames : a[n] \in Nat \ {0}
  BY OracleAnswerType DEF PositiveAnswers, Asked, SavedNames, OracleNames, ArbitrumNames,
     MantleNames
<1>4. \A x \in Nat : scaleBigIntByPercent(x, 110) \in Nat /\ scaleBigIntByPercent(x, 110) >= x
  BY Scaled
<1>5. ASSUME NEW n \in SavedNames, now - now < HonouredFor
      PROVE  Kept(Saving(a)[n], now, a[n])
  <2>1. n \in OracleNames /\ oracle[n] \in QueueType /\ Past(oracle[n], now)
    BY DEF SavedNames, OracleNames, ArbitrumNames, MantleNames, EstimatesInv, OracleInv
  <2>2. Saving(a)[n] = saveValue(oracle[n], a[n], now)
    BY <2>1 DEF Saving
  <2> QED BY <1>2, <1>3, <2>1, <2>2, SaveStarts
<1>6. CASE config.chainType = "op-stack"
  <2>1. a["l1Fee"] \in Nat /\ a["baseFee"] \in Nat \ {0}
    BY <1>6, OracleAnswerType DEF PositiveAnswers, Asked
  <2>2. getBaseFee(a) \in Nat \ {0}
    <3>1. baseFeePerGasQueue # <<>> => last(baseFeePerGasQueue).value \in Nat \ {0}
      BY ValuesType DEF EstimatesInv, PricesInv, PricesTypeOK
    <3> QED BY <2>1, <3>1 DEF getBaseFee, fetchesBaseFee, getLatestValue
  <2>3. /\ L1Fee(a) = a["l1Fee"] /\ L2Fee(a) = getBaseFee(a)
        /\ Estimated(price, a)
             = calcOptimismPreVerificationGas(price, a["l1Fee"], getBaseFee(a))
    BY <1>6 DEF L1Fee, L2Fee, Estimated
  <2>4. calcOptimismPreVerificationGas(price, a["l1Fee"], getBaseFee(a)) \in Nat
    BY <2>1, <2>2, OptimismFalls
  <2>5. gas \in Nat /\ gas >= calcOptimismPreVerificationGas(price, a["l1Fee"], getBaseFee(a))
    BY <1>4, <2>3, <2>4
  <2> HIDE DEF gas
  <2>6. EstimateType'
    BY <1>1, <1>2, <2>1, <2>3, <2>5 DEF EstimateType, FeesOK
  <2>7. KeptSince(oracle)'
    BY <1>1, <1>6, <2>2, <2>3, <2>5 DEF KeptSince, calcOptimismPreVerificationGas
  <2> QED BY <2>6, <2>7
<1>7. CASE config.chainType = "arbitrum"
  <2>1. SavedNames = {"l1BaseFee", "l2BaseFee"}
    BY <1>7 DEF SavedNames, ArbitrumNames
  <2>2. a["l1BaseFee"] \in Nat \ {0} /\ a["l2BaseFee"] \in Nat \ {0}
    BY <1>3, <2>1
  <2>3. /\ L1Fee(a) = 0 /\ L2Fee(a) = a["l2BaseFee"]
        /\ Estimated(price, a) = ArbitrumGas(a["l1BaseFee"], a["l2BaseFee"])
    BY <1>7 DEF L1Fee, L2Fee, Estimated, EstimatedArbitrum, gasForL1, ArbitrumGas
  <2>4. ArbitrumGas(a["l1BaseFee"], a["l2BaseFee"]) \in Nat
    <3>1. l1Units * a["l1BaseFee"] \in Nat
      BY <1>2, <2>2
    <3>2. (l1Units * a["l1BaseFee"]) \div a["l2BaseFee"] \in Nat
      BY <2>2, <3>1, Quotient
    <3> QED BY <1>2, <3>2 DEF ArbitrumGas
  <2>5. gas \in Nat /\ gas >= ArbitrumGas(a["l1BaseFee"], a["l2BaseFee"])
    BY <1>4, <2>3, <2>4
  <2> HIDE DEF gas
  <2>6. EstimateType'
    BY <1>1, <1>2, <2>3, <2>5 DEF EstimateType, FeesOK
  <2>7. now - now < HonouredFor => Kept(Saving(a)["l1BaseFee"], now, a["l1BaseFee"])
    BY <1>5, <2>1
  <2>8. KeptSince(oracle)'
    BY <1>1, <1>7, <2>2, <2>3, <2>5, <2>7 DEF KeptSince, ArbitrumGas, Kept
  <2> QED BY <2>6, <2>8
<1>8. CASE config.chainType = "mantle"
  <2>1. SavedNames = MantleNames
    BY <1>8 DEF SavedNames
  <2> DEFINE v == [n \in MantleNames |-> a[n]]
  <2>2. v \in [MantleNames -> Nat] /\ \A n \in MantleNames : v[n] = a[n]
    BY <1>3, <2>1
  <2>3. /\ v.rollupDataGasAndOverhead = a.rollupDataGasAndOverhead
        /\ v.l1GasPrice = a.l1GasPrice /\ v.tokenRatio = a.tokenRatio /\ v.scalar = a.scalar
    BY <2>2 DEF MantleNames
  <2> HIDE DEF v
  <2>4. /\ L1Fee(a) = 0 /\ L2Fee(a) = 0
        /\ Estimated(price, a) = calcMantlePreVerificationGas(price, v)
    BY <1>8, <2>3 DEF L1Fee, L2Fee, Estimated, calcMantlePreVerificationGas
  <2>5. calcMantlePreVerificationGas(price, v) \in Nat
    <3>1. \A n \in MantleNames : v[n] =< v[n]
      BY <2>2
    <3> QED BY <2>2, <3>1, MantleGrows
  <2>6. gas \in Nat /\ gas >= calcMantlePreVerificationGas(price, v)
    BY <1>4, <2>4, <2>5
  <2> HIDE DEF gas
  <2>7. EstimateType'
    BY <1>1, <1>2, <2>4, <2>6 DEF EstimateType, FeesOK
  <2>8. now - now < HonouredFor => \A n \in MantleNames : Kept(Saving(a)[n], now, v[n])
    BY <1>5, <2>1, <2>2
  <2>9. KeptSince(oracle)'
    BY <1>1, <1>8, <2>2, <2>6, <2>8 DEF KeptSince, calcMantlePreVerificationGas, Kept
  <2> QED BY <2>7, <2>9
<1>9. CASE config.chainType \notin {"op-stack", "arbitrum", "mantle"}
  <2>1. L1Fee(a) = 0 /\ Estimated(price, a) = staticFee
    BY <1>9 DEF L1Fee, Estimated
  <2>2. gas \in Nat /\ gas >= staticFee
    BY <1>2, <1>4, <2>1
  <2> HIDE DEF gas
  <2>3. EstimateType'
    BY <1>1, <1>2, <2>1, <2>2 DEF EstimateType, FeesOK
  <2>4. KeptSince(oracle)'
    BY <1>1, <1>9, <2>2 DEF KeptSince
  <2> QED BY <2>3, <2>4
<1> QED BY <1>6, <1>7, <1>8, <1>9

\* The last answer, once the oracles' values have been saved again.
LEMMA StaysKept ==
    ASSUME EstimatesInv, Succeeded, NEW a \in OracleAnswers,
           config' = config, now' = now, oracle' = Saving(a), estimate' = estimate
    PROVE  EstimateType' /\ KeptSince(oracle)'
<1>1. EstimateType /\ KeptSince(oracle)
  BY DEF EstimatesInv
<1>2. EstimateType'
  BY <1>1 DEF EstimateType, FeesOK
<1>3. \A n \in OracleNames, bound \in Nat :
         now - estimate.at < HonouredFor /\ Kept(oracle[n], estimate.at, bound)
         => Kept(Saving(a)[n], estimate.at, bound)
  BY <1>1, SavingKeeps DEF EstimateType
<1>4. "l1BaseFee" \in OracleNames /\ \A n \in MantleNames : n \in OracleNames
  BY DEF OracleNames, ArbitrumNames
<1>5. KeptSince(Saving(a))
  <2>1. CASE config.chainType = "arbitrum"
    BY <1>1, <1>3, <1>4, <2>1 DEF KeptSince
  <2>2. CASE config.chainType = "mantle"
    BY <1>1, <1>3, <1>4, <2>2 DEF KeptSince
  <2>3. CASE config.chainType \notin {"arbitrum", "mantle"}
    BY <1>1, <2>3 DEF KeptSince
  <2> QED BY <2>1, <2>2, <2>3
<1>6. KeptSince(oracle)'
  BY <1>5 DEF KeptSince, calcOptimismPreVerificationGas, ArbitrumGas,
     calcMantlePreVerificationGas, Kept
<1> QED BY <1>2, <1>6

LEMMA EstimatingKeeps ==
    PositiveAnswers /\ EstimatesInv /\ eth_estimateUserOperationGas => EstimatesInv'
<1> SUFFICES ASSUME PositiveAnswers, EstimatesInv, eth_estimateUserOperationGas
             PROVE  EstimatesInv'
  OBVIOUS
<1>1. PICK own \in OpFees, a \in OracleAnswers :
        /\ oracle' = Saving(a)
        /\ \E price \in {own} \cup KnownPrices :
            /\ PricedBy(own, price)
            /\ price.maxFeePerGas > 0
            /\ \/ UNCHANGED estimate
               \/ \E version \in {"v0.6", "v0.7"}, c \in Costs :
                    estimate' \in {Answer(r, version, price, a, c) : r \in ResultsOf[version]}
  BY DEF eth_estimateUserOperationGas
<1>2. PICK price \in {own} \cup KnownPrices :
        /\ price.maxFeePerGas > 0
        /\ \/ UNCHANGED estimate
           \/ \E version \in {"v0.6", "v0.7"}, c \in Costs :
                estimate' \in {Answer(r, version, price, a, c) : r \in ResultsOf[version]}
  BY <1>1
<1>3. config' = config /\ now' = now /\ PricesInv
  BY DEF eth_estimateUserOperationGas, EstimatesInv
<1>4. PricesInv'
  BY <1>3, EstimatingSaves, SavesKeep
<1>5. OracleInv'
  BY <1>1, <1>3, SavingKeeps DEF OracleInv, Past
<1>6. FeesOK(price)
  <2>1. own \in GasPriceParameters
    BY GasEstimationAssumption
  <2> QED BY <1>2, <1>3, <2>1, KnownPriceType DEF FeesOK
<1>7. ASSUME Succeeded' PROVE EstimateType' /\ KeptSince(oracle)'
  <2>1. CASE estimate' = estimate
    <3>1. Succeeded
      BY <1>7, <2>1 DEF Succeeded
    <3> QED BY <1>1, <1>3, <2>1, <3>1, StaysKept
  <2>2. ASSUME NEW version \in {"v0.6", "v0.7"}, NEW c \in Costs,
               NEW r \in ResultsOf[version], estimate' = Answer(r, version, price, a, c)
        PROVE  EstimateType' /\ KeptSince(oracle)'
    <3>1. r = "success"
      BY <1>7, <2>2 DEF Answer, Succeeded
    <3> QED BY <1>1, <1>3, <1>6, <2>2, <3>1, StartsKept
  <2> QED BY <1>2, <2>1, <2>2
<1> QED BY <1>4, <1>5, <1>7 DEF EstimatesInv

LEMMA EstimatesNextInv ==
    PositiveAnswers /\ EstimatesInv /\ [EstimationNext]_estimationVars => EstimatesInv'
<1> SUFFICES ASSUME PositiveAnswers, EstimatesInv, [EstimationNext]_estimationVars
             PROVE  EstimatesInv'
  OBVIOUS
<1>1. PricesInv /\ PricesInv'
  BY EstimationPrices DEF EstimatesInv
<1>2. CASE eth_estimateUserOperationGas
  BY <1>2, EstimatingKeeps
<1>3. CASE (PricesNext /\ UNCHANGED <<oracle, estimate>>) \/ UNCHANGED estimationVars
  <2>1. now \in Nat /\ now' \in Nat
    BY <1>1 DEF PricesInv, PricesTypeOK
  <2>2. UNCHANGED <<config, oracle, estimate>> /\ (now' = now \/ now' = now + 1)
    BY <1>3 DEF estimationVars, priceVars, PricesNext, Tick, tryUpdateGasPrice,
       updateBaseFee, pimlico_getUserOperationGasPrice
  <2>3. now =< now'
    BY <2>1, <2>2
  <2> QED BY <1>1, <2>1, <2>2, <2>3, LaterKept
<1> QED BY <1>2, <1>3 DEF EstimationNext

\* What is kept is enough.
LEMMA EnoughRequired ==
    ASSUME PositiveAnswers, EstimatesInv
    PROVE  EstimatesHonoured
<1> SUFFICES ASSUME Succeeded, now - estimate.at < HonouredFor,
                    NEW a \in OracleAnswers,
                    L1Fee(a) = estimate.l1Fee, HighestL2Fee(a) >= estimate.l2Fee
             PROVE  Required(estimate.fees, a) =< estimate.preVerificationGas
  BY DEF EstimatesHonoured
<1>1. EstimateType /\ KeptSince(oracle)
  BY DEF EstimatesInv
<1>2. FeesOK(estimate.fees) /\ estimate.l1Fee \in Nat /\ estimate.preVerificationGas \in Nat
  BY <1>1 DEF EstimateType
<1>3. now \in Nat /\ maxFee \in Nat /\ estimate.at \in Nat /\ estimate.at =< now
  BY <1>1, GasEstimationAssumption DEF EstimatesInv, PricesInv, PricesTypeOK, EstimateType
<1>4. CASE config.chainType = "op-stack"
  <2>1. /\ estimate.l2Fee \in Nat \ {0}
        /\ estimate.preVerificationGas
             >= calcOptimismPreVerificationGas(estimate.fees, estimate.l1Fee, estimate.l2Fee)
    BY <1>1, <1>4 DEF KeptSince
  <2>2. a["l1Fee"] = estimate.l1Fee /\ a["baseFee"] \in Nat
    BY <1>4, OracleAnswerType DEF L1Fee, Asked
  <2> DEFINE high == MaxOr(baseFeePerGasQueue, a["baseFee"])
  <2>3. high \in Nat
    BY <2>2, MaxValue DEF MaxOr, EstimatesInv, PricesInv, PricesTypeOK
  <2>4. estimate.l2Fee =< high
    BY <1>4, <2>1, <2>3 DEF HighestL2Fee
  <2>5. Required(estimate.fees, a)
          = calcOptimismPreVerificationGas(estimate.fees, estimate.l1Fee, high)
    BY <1>4, <2>2 DEF Required
  <2> HIDE DEF high
  <2>6. /\ calcOptimismPreVerificationGas(estimate.fees, estimate.l1Fee, high) \in Nat
        /\ calcOptimismPreVerificationGas(estimate.fees, estimate.l1Fee, estimate.l2Fee) \in Nat
        /\ calcOptimismPreVerificationGas(estimate.fees, estimate.l1Fee, high)
             =< calcOptimismPreVerificationGas(estimate.fees, estimate.l1Fee, estimate.l2Fee)
    BY <1>2, <2>1, <2>3, <2>4, OptimismFalls
  <2> QED BY <1>2, <2>1, <2>5, <2>6
<1>5. CASE config.chainType = "arbitrum"
  <2>1. PICK fee \in Nat \ {0} :
          /\ estimate.preVerificationGas >= ArbitrumGas(fee, estimate.l2Fee)
          /\ Kept(oracle["l1BaseFee"], estimate.at, fee)
    BY <1>1, <1>5 DEF KeptSince
  <2>2. SavedNames = {"l1BaseFee", "l2BaseFee"} /\ SavedNames \subseteq OracleNames
    BY <1>5 DEF SavedNames, ArbitrumNames, OracleNames
  <2>3. a["l1BaseFee"] \in Nat \ {0} /\ a["l2BaseFee"] \in Nat \ {0}
    BY <2>2, OracleAnswerType DEF PositiveAnswers, Asked, OracleNames, ArbitrumNames
  <2>4. /\ Saving(a)["l1BaseFee"] \in QueueType
        /\ Kept(Saving(a)["l1BaseFee"], estimate.at, fee)
    BY <1>3, <2>1, <2>2, SavingKeeps
  <2> DEFINE low == MinOr(Saving(a)["l1BaseFee"], 1)
             high == MaxOr(Saving(a)["l2BaseFee"], maxFee)
             l2 == estimate.l2Fee
  <2>5. low \in Nat /\ low =< fee
    BY <2>4, KeptMin DEF MinOr
  <2>6. Saving(a)["l2BaseFee"] \in QueueType
    BY <2>2, SavingKeeps
  <2>7. high \in Nat /\ high >= l2 /\ l2 \in Nat \ {0}
    BY <1>1, <1>3, <1>5, <2>6, MaxValue DEF HighestL2Fee, MaxOr, KeptSince
  <2>8. Required(estimate.fees, a) = ArbitrumAsked(a["l1BaseFee"], a["l2BaseFee"], low, high)
    BY <1>5, <2>3 DEF Required, ValidatedArbitrum, gasForL1, ArbitrumAsked
  <2> HIDE DEF low, high, l2
  <2>9. high \in Nat \ {0} /\ l2 =< high /\ l2 \in Nat \ {0} /\ fee \in Nat
    BY <2>7
  <2>10. /\ ArbitrumAsked(a["l1BaseFee"], a["l2BaseFee"], low, high) \in Nat
         /\ ArbitrumGas(fee, l2) \in Nat
         /\ ArbitrumAsked(a["l1BaseFee"], a["l2BaseFee"], low, high) =< ArbitrumGas(fee, l2)
    BY <2>3, <2>5, <2>9, ArbitrumBounded
  <2> QED BY <1>2, <2>1, <2>8, <2>10 DEF l2
<1>6. CASE config.chainType = "mantle"
  <2>1. PICK v \in [MantleNames -> Nat] :
          /\ estimate.preVerificationGas >= calcMantlePreVerificationGas(estimate.fees, v)
          /\ \A n \in MantleNames : Kept(oracle[n], estimate.at, v[n])
    BY <1>1, <1>6 DEF KeptSince
  <2> DEFINE u == getMinMantleOracleValues(oracle)
  <2>2. ASSUME NEW n \in MantleNames
        PROVE  u[n] \in Nat /\ u[n] =< v[n]
    <3>1. oracle[n] \in QueueType /\ v[n] \in Nat
      BY DEF EstimatesInv, OracleInv, OracleNames
    <3>2. /\ oracle[n] # <<>> /\ getMinValue(oracle[n]) \in Nat
          /\ getMinValue(oracle[n]) =< v[n]
      BY <2>1, <3>1, KeptMin
    <3> QED BY <3>2 DEF getMinMantleOracleValues, MinOr
  <2>3. u \in [MantleNames -> Nat]
    BY <2>2 DEF getMinMantleOracleValues
  <2>4. Required(estimate.fees, a) = calcMantlePreVerificationGas(estimate.fees, u)
    BY <1>6 DEF Required
  <2> HIDE DEF u
  <2>5. /\ calcMantlePreVerificationGas(estimate.fees, u) \in Nat
        /\ calcMantlePreVerificationGas(estimate.fees, v) \in Nat
        /\ calcMantlePreVerificationGas(estimate.fees, u)
             =< calcMantlePreVerificationGas(estimate.fees, v)
    BY <1>2, <2>2, <2>3, MantleGrows
  <2> QED BY <1>2, <2>1, <2>4, <2>5
<1>7. CASE config.chainType \notin {"op-stack", "arbitrum", "mantle"}
  BY <1>1, <1>7 DEF KeptSince, Required
<1> QED BY <1>4, <1>5, <1>6, <1>7

\* For any configuration, prices, oracles whose answers are not 0, size of the
\* queues and times: the preVerificationGas that was estimated is enough for
\* validatePreVerificationGas until the queues' other places can all have been
\* taken, if the highest fee of L2 that is known has not fallen.
THEOREM EstimatesKept ==
    ASSUME PositiveAnswers
    PROVE  EstimationSpec => []EstimatesHonoured
<1>1. EstimatesInv /\ [EstimationNext]_estimationVars => EstimatesInv'
  BY EstimatesNextInv
<1>2. EstimatesInv => EstimatesHonoured
  BY EnoughRequired
<1> QED BY <1>1, <1>2, EstimatesInitInv, PTL DEF EstimationSpec

-----------------------------------------------------------------------------
(* The limits, and what an operation with them must pay.                   *)

LEMMA ExactQuotient ==
    ASSUME NEW n \in Nat, NEW d \in Nat \ {0}
    PROVE  d * n \in Nat /\ (d * n) \div d = n
<1> DEFINE p == d * n
           q == p \div d
<1>1. p \in Nat /\ q \in Nat /\ p < d * q + d
  BY Quotient
<1>2. q =< n
  BY <1>1, QuotientAtMost
<1> HIDE DEF q
<1>3. CASE q < n
  <2>1. d * (q + 1) =< d * n
    BY <1>1, <1>3, Products
  <2>2. d * (q + 1) = d * q + d
    BY <1>1
  <2> QED BY <1>1, <2>1, <2>2
<1> QED BY <1>1, <1>2, <1>3 DEF q

LEMMA Tenth ==
    \A value \in Nat : /\ scaleBigIntByPercent(value, 110) \in Nat
                       /\ scaleBigIntByPercent(value, 110) >= value
                       /\ 10 * scaleBigIntByPercent(value, 110) =< 11 * value
BY DEF scaleBigIntByPercent

\* The gas of the call itself that a simulation shows.
FoundGas(fees, r) ==
    IF r.gasUsed # None THEN r.gasUsed ELSE (r.paid \div fees.maxFeePerGas) - r.preOpGas

LEMMA FoundLimits ==
    ASSUME NEW fees, NEW preVerificationGas, NEW r, FoundGas(fees, r) \in Nat
    PROVE  LET l == calcVerificationGasAndCallGasLimit(fees, preVerificationGas, r)
               limit == maxBigInt(FoundGas(fees, r), 9000) + 71000
           IN  /\ l.verificationGasLimit
                    = scaleBigIntByPercent(r.preOpGas - preVerificationGas, 150)
               /\ l.callGasLimit \in Nat
               /\ l.callGasLimit >= limit
               /\ 10 * l.callGasLimit =< 11 * limit
<1> DEFINE l == calcVerificationGasAndCallGasLimit(fees, preVerificationGas, r)
           limit == maxBigInt(FoundGas(fees, r), 9000) + 71000
<1>1. limit \in Nat /\ maxBigInt(FoundGas(fees, r), 9000) + 21000 + 50000 = limit
  BY DEF maxBigInt
<1>2. /\ l.verificationGasLimit = scaleBigIntByPercent(r.preOpGas - preVerificationGas, 150)
      /\ l.callGasLimit \in {limit, scaleBigIntByPercent(limit, 110)}
  BY <1>1 DEF calcVerificationGasAndCallGasLimit, FoundGas
<1> HIDE DEF limit, l
<1>3. l.callGasLimit \in Nat /\ l.callGasLimit >= limit /\ 10 * l.callGasLimit =< 11 * limit
  BY <1>1, <1>2, Tenth
<1> QED BY <1>2, <1>3 DEF limit, l

\* The limits that are estimated for an operation that costs c.
LEMMA LimitsType ==
    ASSUME callGasLimitMultiplier >= 100,
           NEW version \in {"v0.6", "v0.7"}, NEW fees, FeesOK(fees),
           NEW preVerificationGas \in Nat, NEW c \in Cost
    PROVE  LET l == limits(version, fees, preVerificationGas, c)
           IN
           /\ l.verificationGasLimit
                = scaleBigIntByPercent(c.verification + c.paymasterVerification, 150)
           /\ l.callGasLimit \in Nat /\ l.callGasLimit >= 80000
           /\ l.paymasterVerificationGasLimit \in Nat
           /\ l.paymasterPostOpGasLimit \in Nat
<1> DEFINE verification == c.verification + c.paymasterVerification
           r == executionResult(version, fees, preVerificationGas, c)
           found == calcVerificationGasAndCallGasLimit(fees, preVerificationGas, r)
           l == limits(version, fees, preVerificationGas, c)
<1>1. /\ verification \in Nat /\ c.call \in Nat
      /\ c.paymasterVerification \in Nat /\ c.paymasterPostOp \in Nat
      /\ c.verification \in Nat
  BY DEF Cost
<1>2. r.preOpGas = preVerificationGas + verification
  BY <1>1 DEF executionResult
<1>3. FoundGas(fees, r) = c.call
  <2>1. CASE version = "v0.6"
    <3> DEFINE gas == r.preOpGas + c.call
               f == fees.maxFeePerGas
    <3>1. r.gasUsed = None /\ r.paid = gas * f
      BY <2>1 DEF executionResult
    <3>2. gas \in Nat /\ f \in Nat \ {0} /\ r.preOpGas \in Nat
      BY <1>1, <1>2 DEF FeesOK, GasPriceParameters
    <3> HIDE DEF f, r
    <3>3. gas - r.preOpGas = c.call
      BY <1>1, <3>2
    <3> HIDE DEF gas
    <3>4. gas * f = f * gas /\ (f * gas) \div f = gas
      BY <3>2, ExactQuotient
    <3> QED BY <3>1, <3>3, <3>4 DEF FoundGas, f
  <2>2. CASE version = "v0.7"
    BY <1>1, <2>2, GasPricesAssumption DEF FoundGas, executionResult
  <2> QED BY <2>1, <2>2
<1> HIDE DEF verification, r
<1>4. /\ found.verificationGasLimit = scaleBigIntByPercent(verification, 150)
      /\ found.callGasLimit \in Nat /\ found.callGasLimit >= 80000
  <2>1. r.preOpGas - preVerificationGas = verification
    BY <1>1, <1>2
  <2>2. /\ found.verificationGasLimit = scaleBigIntByPercent(verification, 150)
        /\ found.callGasLimit \in Nat
        /\ found.callGasLimit >= maxBigInt(c.call, 9000) + 71000
    BY <1>1, <1>3, <2>1, FoundLimits
  <2> HIDE DEF found
  <2> QED BY <1>1, <2>2 DEF maxBigInt
<1> DEFINE onBase == found.callGasLimit + (IF config.chain = "base" THEN 10000 ELSE 0)
           atLeast == IF config.chain \in {"base", "optimism"}
                      THEN maxBigInt(onBase, 120000) ELSE onBase
           paymaster(gas) ==
               IF version = "v0.6" \/ ~ c.paymaster THEN 0
               ELSE scaleBigIntByPercent(maxBigInt(gas, 1), paymasterGasLimitMultiplier)
<1>5. /\ l.verificationGasLimit = found.verificationGasLimit
      /\ l.callGasLimit = IF version = "v0.6"
                          THEN scaleBigIntByPercent(atLeast, callGasLimitMultiplier)
                          ELSE atLeast
      /\ l.paymasterVerificationGasLimit = paymaster(c.paymasterVerification)
      /\ l.paymasterPostOpGasLimit = paymaster(c.paymasterPostOp)
  BY DEF limits, found, r
<1> HIDE DEF found
<1>6. atLeast \in Nat /\ atLeast >= 80000
  BY <1>4 DEF maxBigInt
<1>7. ASSUME NEW gas \in Nat PROVE paymaster(gas) \in Nat
  <2>1. maxBigInt(gas, 1) \in Nat /\ paymasterGasLimitMultiplier \in Nat
    BY GasEstimationAssumption DEF maxBigInt
  <2> QED BY <2>1, Scaled
<1> HIDE DEF atLeast, paymaster, l
<1>8. l.callGasLimit \in Nat /\ l.callGasLimit >= 80000
  <2>1. callGasLimitMultiplier \in Nat
    BY GasEstimationAssumption
  <2>2. \A x \in Nat : /\ scaleBigIntByPercent(x, callGasLimitMultiplier) \in Nat
                       /\ scaleBigIntByPercent(x, callGasLimitMultiplier) >= x
    BY <2>1, Scaled
  <2> QED BY <1>5, <1>6, <2>2
<1> QED BY <1>1, <1>4, <1>5, <1>7, <1>8 DEF verification, l

\* What must be paid grows by a tenth, and by what is added, at most: four
\* times the gas covers that.
LEMMA FourTimes ==
    ASSUME callGasLimitMultiplier >= 100, Succeeded, EstimateType,
           estimate.fees.maxFeePerGas >= 4
    PROVE  LET l == limits(estimate.version, estimate.fees, estimate.preVerificationGas,
                           estimate.cost)
           IN  requiredPreFund(estimate, l) =< prefund(estimate, l)
<1> DEFINE e == estimate
           c == e.cost
           l == limits(e.version, e.fees, e.preVerificationGas, c)
           f == e.fees.maxFeePerGas
           P == e.preVerificationGas
           x == c.verification + c.paymasterVerification
           L == l.callGasLimit
           G == l.verificationGasLimit
           rest == l.paymasterVerificationGasLimit + l.paymasterPostOpGasLimit
           k == IF e.version = "v0.6" /\ c.paymaster THEN 3 ELSE 1
           m == IF e.version = "v0.6" THEN 3 ELSE 1
           gas == L + P + G * k + l.paymasterVerificationGasLimit + l.paymasterPostOpGasLimit
           r == [preOpGas |-> P + c.verification + c.paymasterVerification,
                 paid |-> prefund(e, l), gasUsed |-> None]
           found == calcVerificationGasAndCallGasLimit(e.fees, P, r)
<1>1. /\ FeesOK(e.fees) /\ f \in Nat \ {0} /\ f >= 4
      /\ P \in Nat /\ c \in Cost /\ e.version \in {"v0.6", "v0.7"}
  BY GasEstimationAssumption DEF EstimateType, FeesOK, GasPriceParameters
<1>2. x \in Nat /\ c.verification \in Nat /\ c.paymasterVerification \in Nat
  BY <1>1 DEF Cost
<1>3. /\ G = scaleBigIntByPercent(x, 150) /\ L \in Nat /\ L >= 80000
      /\ l.paymasterVerificationGasLimit \in Nat /\ l.paymasterPostOpGasLimit \in Nat
  <2> HIDE DEF e, c, l, P, x
  <2> SUFFICES /\ l.verificationGasLimit = scaleBigIntByPercent(x, 150)
               /\ l.callGasLimit \in Nat /\ l.callGasLimit >= 80000
               /\ l.paymasterVerificationGasLimit \in Nat /\ l.paymasterPostOpGasLimit \in Nat
    OBVIOUS
  <2> USE DEF l, P, x
  <2> QED BY <1>1, LimitsType
<1>4. prefund(e, l) = f * gas
  BY DEF prefund
<1>5. requiredPreFund(e, l) = found.callGasLimit + found.verificationGasLimit * m + P
  BY DEF requiredPreFund
<1>6. rest \in Nat /\ k \in {1, 3} /\ m \in {1, 3}
  BY <1>3
<1>7. G \in Nat /\ G >= x /\ 2 * G =< 3 * x
  <2> HIDE DEF x, G
  <2> QED BY <1>2, <1>3 DEF scaleBigIntByPercent
<1>8. r.preOpGas = P + x /\ r.paid = f * gas /\ r.gasUsed = None
  <2>1. P + c.verification + c.paymasterVerification = P + x
    BY <1>1, <1>2
  <2> QED BY <1>4, <2>1
<1> HIDE DEF r, found, l, L, G
<1>9. gas \in Nat /\ gas = L + P + G * k + rest
  BY <1>1, <1>3, <1>6, <1>7
<1> HIDE DEF gas, rest, k, m, x, f, P
<1>10. G * k \in Nat /\ G * k >= G /\ G * m \in Nat /\ G * m =< 3 * G
  BY <1>6, <1>7
<1> DEFINE g == gas - (P + x)
<1>11. g \in Nat /\ g >= L
  BY <1>1, <1>2, <1>3, <1>6, <1>7, <1>9, <1>10
<1>12. FoundGas(e.fees, r) = g
  <2>1. (f * gas) \div f = gas
    BY <1>1, <1>9, ExactQuotient
  <2> QED BY <1>8, <2>1 DEF FoundGas, f
<1>13. r.preOpGas - P = x
  BY <1>1, <1>2, <1>8
<1> HIDE DEF g, e
<1>14. /\ found.verificationGasLimit = scaleBigIntByPercent(x, 150)
       /\ found.callGasLimit \in Nat
       /\ 10 * found.callGasLimit =< 11 * (maxBigInt(g, 9000) + 71000)
  BY <1>11, <1>12, <1>13, FoundLimits DEF found
<1>15. maxBigInt(g, 9000) = g
  BY <1>3, <1>11 DEF maxBigInt
<1> DEFINE t == found.callGasLimit
           u == G * k
           w == G * m
<1>16. t \in Nat /\ 10 * t =< 11 * (g + 71000)
  BY <1>14, <1>15
<1>17. 4 * gas =< f * gas /\ f * gas \in Nat
  BY <1>1, <1>9, Products
<1>18. g = gas - (P + x) /\ gas = L + P + u + rest /\ u >= G /\ u \in Nat
       /\ w =< 3 * G /\ w \in Nat
  BY <1>9, <1>10 DEF g
<1> HIDE DEF t, u, w
<1>19. t + w + P =< 4 * gas
  BY <1>1, <1>2, <1>3, <1>6, <1>7, <1>9, <1>11, <1>16, <1>18
<1>20. t + w + P \in Nat
  BY <1>1, <1>16, <1>18
<1>21. requiredPreFund(e, l) = t + w + P
  BY <1>3, <1>5, <1>14 DEF t, w
<1> HIDE DEF found
<1>22. requiredPreFund(e, l) =< prefund(e, l)
  BY <1>4, <1>9, <1>17, <1>19, <1>20, <1>21
<1> QED BY <1>22 DEF e, l, P, c

\* An operation that uses the estimate pays for its own limits: for any prices
\* and costs, if the limit of v0.6's calls is not scaled down.
THEOREM EstimatesFunded ==
    ASSUME PositiveAnswers, callGasLimitMultiplier >= 100
    PROVE  EstimationSpec => []EstimatedOpsFunded
<1>1. EstimatesInv /\ [EstimationNext]_estimationVars => EstimatesInv'
  BY EstimatesNextInv
<1>2. EstimatesInv => EstimatedOpsFunded
  BY FourTimes DEF EstimatesInv, EstimatedOpsFunded
<1> QED BY <1>1, <1>2, EstimatesInitInv, PTL DEF EstimationSpec

-----------------------------------------------------------------------------
(* The times of an operation that is accepted.                             *)

LEMMA Larger ==
    ASSUME NEW a \in Nat, NEW b \in Nat
    PROVE  /\ Max({a, b}) \in Nat /\ Max({a, b}) >= a /\ Max({a, b}) >= b
           /\ Min({a, b}) \in Nat /\ Min({a, b}) =< a /\ Min({a, b}) =< b
<1>1. \E x \in {a, b} : \A y \in {a, b} : x >= y
  <2>1. CASE a >= b
    BY <2>1
  <2>2. CASE b >= a
    BY <2>2
  <2> QED BY <2>1, <2>2
<1>2. \E x \in {a, b} : \A y \in {a, b} : x =< y
  <2>1. CASE a >= b
    BY <2>1
  <2>2. CASE b >= a
    BY <2>2
  <2> QED BY <2>1, <2>2
<1>3. Max({a, b}) \in {a, b} /\ \A y \in {a, b} : Max({a, b}) >= y
  BY <1>1 DEF Max
<1>4. Min({a, b}) \in {a, b} /\ \A y \in {a, b} : Min({a, b}) =< y
  BY <1>2 DEF Min
<1> QED BY <1>3, <1>4

\* The merged times are within those of both.
LEMMA MergedWithin ==
    ASSUME window \in [account : Windows, paymaster : Windows],
           NEW w \in {window.account, window.paymaster}
    PROVE  /\ mergeValidationData.signed => w.signed
           /\ mergeValidationData.validAfter \in Nat
           /\ mergeValidationData.validUntil \in Nat
           /\ w.validAfter \in Nat /\ w.validUntil \in Nat
           /\ w.validAfter =< mergeValidationData.validAfter
           /\ w.validUntil # 0 => mergeValidationData.validUntil =< w.validUntil
<1> DEFINE a == window.account
           b == window.paymaster
           until(x) == IF x.validUntil = 0 THEN maxUint48 ELSE x.validUntil
<1>1. a \in Window /\ b \in Window /\ maxUint48 \in Nat
  BY ValidationAssumption
<1>2. /\ a.validAfter \in Nat /\ a.validUntil \in Nat /\ until(a) \in Nat
      /\ b.validAfter \in Nat /\ b.validUntil \in Nat /\ until(b) \in Nat
  BY <1>1 DEF Window
<1>3. ASSUME NEW x \in Window
      PROVE  /\ parseValidationData(x).signed = x.signed
             /\ parseValidationData(x).validAfter = x.validAfter
             /\ parseValidationData(x).validUntil = until(x)
  BY DEF parseValidationData, Window
<1>4. /\ mergeValidationData.signed = (a.signed /\ b.signed)
      /\ mergeValidationData.validAfter = Max({a.validAfter, b.validAfter})
      /\ mergeValidationData.validUntil = Min({until(a), until(b)})
  BY <1>1, <1>3 DEF mergeValidationData
<1> HIDE DEF until
<1>5. /\ mergeValidationData.validAfter \in Nat /\ mergeValidationData.validUntil \in Nat
      /\ mergeValidationData.validAfter >= a.validAfter
      /\ mergeValidationData.validAfter >= b.validAfter
      /\ mergeValidationData.validUntil =< until(a)
      /\ mergeValidationData.validUntil =< until(b)
  BY <1>2, <1>4, Larger
<1> QED BY <1>2, <1>4, <1>5 DEF until

\* An operation is valid at the time t, as AcceptedInTime has it.
Timely(t) ==
    \A w \in {window.account, window.paymaster} :
        /\ w.signed
        /\ mode = "safe" \/ op.version = "v0.7" \/ expirationCheck =>
            LET from == IF mode = "safe" THEN t - 5 ELSE t
                until == IF mode = "safe" THEN t + 30 ELSE t + 5
            IN  w.validAfter =< from /\ (w.validUntil # 0 => w.validUntil >= until)

TimeInv ==
    /\ clock \in Nat
    /\ window \in [account : Windows, paymaster : Windows]
    /\ phase \in {"tracing", "hashing", "retracing"} => mode = "safe"
    /\ \A t \in accepted : Timely(t)

LEMMA InTime ==
    ASSUME TimeInv
    PROVE  /\ mode = "safe" /\ inTimeSafe => Timely(clock)
           /\ mode # "safe" /\ inTimeUnsafe => Timely(clock)
<1>1. \A w \in {window.account, window.paymaster} :
        /\ mergeValidationData.signed => w.signed
        /\ mergeValidationData.validAfter \in Nat
        /\ mergeValidationData.validUntil \in Nat
        /\ w.validAfter \in Nat /\ w.validUntil \in Nat
        /\ w.validAfter =< mergeValidationData.validAfter
        /\ w.validUntil # 0 => mergeValidationData.validUntil =< w.validUntil
  BY MergedWithin DEF TimeInv
<1>2. clock \in Nat
  BY DEF TimeInv
<1>3. ASSUME mode = "safe", inTimeSafe PROVE Timely(clock)
  BY <1>1, <1>2, <1>3 DEF inTimeSafe, Timely
<1>4. ASSUME mode # "safe", inTimeUnsafe PROVE Timely(clock)
  <2>1. CASE op.version = "v0.6" /\ ~ expirationCheck
    BY <1>1, <1>4, <2>1 DEF inTimeUnsafe, Timely
  <2>2. CASE ~ (op.version = "v0.6" /\ ~ expirationCheck)
    BY <1>1, <1>2, <1>4, <2>2 DEF inTimeUnsafe, Timely
  <2> QED BY <2>1, <2>2
<1> QED BY <1>3, <1>4

LEMMA TimeNextInv == TimeInv /\ [Next]_vars => TimeInv'
<1> SUFFICES ASSUME TimeInv, [Next]_vars PROVE TimeInv'
  OBVIOUS
<1>1. UNCHANGED fixed
  BY DEF Next, vars, CallEntity, Execute, Return, Revert, NoSender, Traced, Hashed, Rechecked,
     Retraced, ValidatedUnsafely, Upgrade, Wait
<1>2. \A t : Timely(t) => Timely(t)'
  BY <1>1 DEF fixed, Timely
<1>3. ASSUME clock' = clock \/ clock' = clock + 10,
             phase' \in {"tracing", "hashing", "retracing"} => mode = "safe",
             accepted' = accepted \/ (accepted' = accepted \cup {clock} /\ Timely(clock))
      PROVE  TimeInv'
  BY <1>1, <1>2, <1>3 DEF TimeInv, fixed
<1>4. CASE CallEntity \/ NoSender
  BY <1>3, <1>4 DEF CallEntity, NoSender, validator, evm, TimeInv
<1>5. CASE Return \/ Revert \/ \E i \in program : Execute(i)
  <2>1. /\ clock' = clock /\ accepted' = accepted /\ phase = "tracing"
        /\ phase' \in {"failed", phase}
    BY <1>5 DEF Execute, Return, Revert, Reverted, validator
  <2> QED BY <1>3, <2>1 DEF TimeInv
<1>6. CASE Traced
  <2>1. /\ mode = "safe" /\ clock' = clock
        /\ accepted' # accepted => accepted' = accepted \cup {clock} /\ inTimeSafe
    BY <1>6 DEF Traced, TimeInv
  <2> QED BY <1>3, <2>1, InTime
<1>7. CASE Hashed
  <2>1. /\ mode = "safe" /\ clock' = clock /\ phase' \in {"untimely", "accepted"}
        /\ accepted' # accepted => accepted' = accepted \cup {clock} /\ inTimeSafe
    BY <1>7 DEF Hashed, TimeInv
  <2> QED BY <1>3, <2>1, InTime
<1>8. CASE Rechecked
  BY <1>3, <1>8 DEF Rechecked, validator
<1>9. CASE Retraced
  <2>1. /\ mode = "safe" /\ clock' = clock
        /\ accepted' # accepted => accepted' = accepted \cup {clock} /\ inTimeSafe
    BY <1>9 DEF Retraced, TimeInv
  <2> QED BY <1>3, <2>1, InTime
<1>10. CASE ValidatedUnsafely
  <2>1. /\ mode # "safe" /\ clock' = clock
        /\ phase' \in {"failed", "untimely", "accepted", "accepted again"}
        /\ accepted' # accepted => accepted' = accepted \cup {clock} /\ inTimeUnsafe
    BY <1>10 DEF ValidatedUnsafely
  <2> QED BY <1>3, <2>1, InTime
<1>11. CASE Upgrade \/ Wait
  BY <1>3, <1>11 DEF Upgrade, Wait, TimeInv
<1>12. CASE UNCHANGED vars
  BY <1>3, <1>12 DEF vars, validator, TimeInv
<1> QED BY <1>4, <1>5, <1>6, <1>7, <1>8, <1>9, <1>10, <1>11, <1>12 DEF Next

\* Whatever the account and the paymaster answer, in each mode and each time
\* that an operation is accepted: it is valid then, with the margin of the
\* mode.
THEOREM AcceptedTimely == Spec => []AcceptedInTime
<1>1. ASSUME Init PROVE TimeInv
  <2>1. /\ clock = 100 /\ accepted = {}
        /\ window \in [account : Windows, paymaster : Windows]
        /\ phase = IF mode = "safe" THEN "tracing" ELSE "simulating"
    BY <1>1 DEF Init
  <2> QED BY <2>1 DEF TimeInv
<1>2. TimeInv => AcceptedInTime
  BY DEF TimeInv, Timely, AcceptedInTime
<1> QED BY <1>1, <1>2, TimeNextInv, PTL DEF Spec

-----------------------------------------------------------------------------
(* What the collector keeps of the steps it is shown.                      *)

IsSeq(q) == \E S : q \in Seq(S)

LEMMA SequenceGrows ==
    ASSUME NEW q, IsSeq(q), NEW x
    PROVE  /\ Len(q) \in Nat /\ DOMAIN q = 1..Len(q)
           /\ IsSeq(Append(q, x)) /\ Len(Append(q, x)) = Len(q) + 1
           /\ \A i \in 1..Len(q) : Append(q, x)[i] = q[i]
           /\ Append(q, x)[Len(q) + 1] = x
<1>1. PICK S : q \in Seq(S)
  BY DEF IsSeq
<1>2. q \in Seq(S \cup {x}) /\ x \in S \cup {x}
  BY <1>1
<1>3. /\ Append(q, x) \in Seq(S \cup {x}) /\ Len(q) \in Nat /\ DOMAIN q = 1..Len(q)
      /\ Len(Append(q, x)) = Len(q) + 1
      /\ \A i \in 1..Len(q) : Append(q, x)[i] = q[i]
      /\ Append(q, x)[Len(q) + 1] = x
  BY <1>2
<1> QED BY <1>3 DEF IsSeq

\* The sequence with another element at i.
WithElement(q, i, x) == [q EXCEPT ![i] = x]

LEMMA SequenceChanges ==
    ASSUME NEW q, IsSeq(q), NEW x, NEW i \in 1..Len(q)
    PROVE  /\ IsSeq(WithElement(q, i, x)) /\ Len(WithElement(q, i, x)) = Len(q)
           /\ \A j \in 1..Len(q) : WithElement(q, i, x)[j] = IF j = i THEN x ELSE q[j]
<1>1. PICK S : q \in Seq(S)
  BY DEF IsSeq
<1> DEFINE T == S \cup {x}
<1>2. q \in Seq(T) /\ x \in T
  BY <1>1
<1> HIDE DEF T
<1>3. /\ WithElement(q, i, x) \in Seq(T) /\ Len(WithElement(q, i, x)) = Len(q)
      /\ \A j \in 1..Len(q) : WithElement(q, i, x)[j] = IF j = i THEN x ELSE q[j]
  BY <1>2, ExceptSeq DEF WithElement
<1> QED BY <1>3 DEF IsSeq

LevelFields ==
    {"topLevelMethodSig", "opcodes", "reads", "writes", "contractSize", "extCodeAccessInfo",
     "oog"}

TraceFields == {"callsFromEntryPoint", "keccak", "calls", "lastOp", "lastThreeOpcodes", "thrown"}

Collected(c) ==
    /\ DOMAIN c = TraceFields
    /\ IsSeq(c.callsFromEntryPoint) /\ IsSeq(c.calls)
    /\ \A i \in 1..Len(c.callsFromEntryPoint) : DOMAIN c.callsFromEntryPoint[i] = LevelFields

\* What the step s of a contract does to its level l.
Grows(l, m, s) ==
    /\ DOMAIN m = LevelFields
    /\ l.contractSize \subseteq m.contractSize
    /\ l.writes \subseteq m.writes
    /\ s.opcode \in Calls \cup ExtCode /\ s.address # "precompile" =>
         \E x \in m.contractSize : x.address = s.address
    /\ s.opcode = "SSTORE" => [address |-> s.owner, slot |-> s.slot] \in m.writes
    /\ \A r \in m.reads :
         \/ r \in l.reads
         \/ /\ r = [address |-> s.owner, slot |-> s.slot, value |-> s.value]
            /\ [address |-> s.owner, slot |-> s.slot] \notin l.writes

LEMMA LevelGrows ==
    ASSUME NEW l, DOMAIN l = LevelFields, NEW recent, NEW lastOp, NEW s
    PROVE  Grows(l, withAccess(withOpcode(withContractSize(withExtCodeAccess(l, recent), s),
                                          lastOp, s), s), s)
<1> DEFINE same(x, y) == y.reads = x.reads /\ y.writes = x.writes /\ DOMAIN y = LevelFields
           a == withExtCodeAccess(l, recent)
           b == withContractSize(a, s)
           d == withOpcode(b, lastOp, s)
           m == withAccess(d, s)
<1>1. same(l, a) /\ a.contractSize = l.contractSize
  BY DEF withExtCodeAccess, LevelFields
<1> HIDE DEF a
<1>2. /\ same(a, b) /\ a.contractSize \subseteq b.contractSize
      /\ s.opcode \in Calls \cup ExtCode /\ s.address # "precompile" =>
           \E x \in b.contractSize : x.address = s.address
  <2>1. CASE /\ s.opcode \in Calls \cup ExtCode
             /\ s.address # "precompile"
             /\ \A x \in a.contractSize : x.address # s.address
    <3> DEFINE new == [address |-> s.address, empty |-> ~ s.hasCode]
    <3>1. b = [a EXCEPT !.contractSize = a.contractSize \cup {new}]
      BY <2>1 DEF withContractSize
    <3>2. new.address = s.address
      OBVIOUS
    <3> HIDE DEF new, b
    <3> QED BY <1>1, <3>1, <3>2 DEF LevelFields
  <2>2. CASE ~ (/\ s.opcode \in Calls \cup ExtCode
                /\ s.address # "precompile"
                /\ \A x \in a.contractSize : x.address # s.address)
    <3>1. b = a
      BY <2>2 DEF withContractSize
    <3> QED BY <1>1, <2>2, <3>1
  <2> QED BY <2>1, <2>2
<1> HIDE DEF b
<1>3. same(b, d) /\ d.contractSize = b.contractSize
  BY <1>2 DEF withOpcode, LevelFields
<1> HIDE DEF d
<1>4. /\ DOMAIN m = LevelFields /\ m.contractSize = d.contractSize
      /\ d.writes \subseteq m.writes
      /\ s.opcode = "SSTORE" => [address |-> s.owner, slot |-> s.slot] \in m.writes
      /\ \A r \in m.reads :
           \/ r \in d.reads
           \/ /\ r = [address |-> s.owner, slot |-> s.slot, value |-> s.value]
              /\ [address |-> s.owner, slot |-> s.slot] \notin d.writes
  BY <1>3 DEF withAccess, LevelFields
<1> HIDE DEF m
<1>5. Grows(l, m, s)
  BY <1>1, <1>2, <1>3, <1>4 DEF Grows
<1> QED BY <1>5 DEF m, d, b, a

SizedIn(c, address) ==
    \E i \in 1..Len(c.callsFromEntryPoint) :
        \E x \in c.callsFromEntryPoint[i].contractSize : x.address = address

Noted(c, address, slot) ==
    \E i \in 1..Len(c.callsFromEntryPoint) :
        [address |-> address, slot |-> slot] \in c.callsFromEntryPoint[i].writes

\* What was read after it had been written lies behind a level that wrote
\* something in the same contract.
Honest(c) ==
    \A i \in 1..Len(c.callsFromEntryPoint) : \A r \in c.callsFromEntryPoint[i].reads :
        \/ r.value = 0
        \/ \E j \in 1..(i - 1) : \E w \in c.callsFromEntryPoint[j].writes : w.address = r.address

\* What the step s may do to the collector's levels.
Follows(c, d, s) ==
    /\ Collected(d)
    /\ Len(c.callsFromEntryPoint) =< Len(d.callsFromEntryPoint)
    /\ \A i \in 1..Len(c.callsFromEntryPoint) :
         /\ c.callsFromEntryPoint[i].contractSize \subseteq d.callsFromEntryPoint[i].contractSize
         /\ c.callsFromEntryPoint[i].writes \subseteq d.callsFromEntryPoint[i].writes
    /\ \A i \in 1..Len(d.callsFromEntryPoint) : \A r \in d.callsFromEntryPoint[i].reads :
         \/ i \in 1..Len(c.callsFromEntryPoint) /\ r \in c.callsFromEntryPoint[i].reads
         \/ /\ i = Len(c.callsFromEntryPoint)
            /\ r = [address |-> s.owner, slot |-> s.slot, value |-> s.value]
            /\ [address |-> s.owner, slot |-> s.slot] \notin c.callsFromEntryPoint[i].writes

LEMMA FollowsKeeps ==
    ASSUME NEW c, Collected(c), NEW d, NEW s, Follows(c, d, s)
    PROVE  /\ \A address : SizedIn(c, address) => SizedIn(d, address)
           /\ \A address, slot : Noted(c, address, slot) => Noted(d, address, slot)
           /\ Honest(c) /\ (s.value # 0 => Noted(c, s.owner, s.slot)) => Honest(d)
<1> DEFINE n == Len(c.callsFromEntryPoint)
           m == Len(d.callsFromEntryPoint)
<1>1. n \in Nat /\ m \in Nat /\ n =< m
  BY SequenceGrows DEF Collected, Follows
<1>2. \A i \in 1..n : i \in 1..m
  <2> HIDE DEF n, m
  <2> QED BY <1>1
<1>3. \A address : SizedIn(c, address) => SizedIn(d, address)
  BY <1>2 DEF Follows, SizedIn
<1>4. \A address, slot : Noted(c, address, slot) => Noted(d, address, slot)
  BY <1>2 DEF Follows, Noted
<1>5. ASSUME Honest(c), s.value # 0 => Noted(c, s.owner, s.slot),
             NEW i \in 1..m, NEW r \in d.callsFromEntryPoint[i].reads
      PROVE  \/ r.value = 0
             \/ \E j \in 1..(i - 1) :
                  \E w \in d.callsFromEntryPoint[j].writes : w.address = r.address
  <2>1. CASE i \in 1..n /\ r \in c.callsFromEntryPoint[i].reads
    <3>1. CASE r.value # 0
      <4>1. PICK j \in 1..(i - 1) :
              \E w \in c.callsFromEntryPoint[j].writes : w.address = r.address
        BY <1>5, <2>1, <3>1 DEF Honest
      <4>2. j \in 1..n
        <5> HIDE DEF n
        <5> QED BY <1>1, <2>1
      <4> QED BY <4>1, <4>2 DEF Follows
    <3> QED BY <3>1
  <2>2. CASE /\ i = n
             /\ r = [address |-> s.owner, slot |-> s.slot, value |-> s.value]
             /\ [address |-> s.owner, slot |-> s.slot] \notin c.callsFromEntryPoint[i].writes
    <3>1. r.value = s.value /\ r.address = s.owner
      BY <2>2
    <3>2. CASE s.value # 0
      <4>1. PICK j \in 1..n :
              [address |-> s.owner, slot |-> s.slot] \in c.callsFromEntryPoint[j].writes
        BY <1>5, <3>2 DEF Noted
      <4>2. j # i
        BY <2>2, <4>1
      <4>3. j \in 1..(i - 1)
        <5> HIDE DEF n
        <5> QED BY <1>1, <2>2, <4>2
      <4>4. [address |-> s.owner, slot |-> s.slot] \in d.callsFromEntryPoint[j].writes
        BY <4>1 DEF Follows
      <4>5. [address |-> s.owner, slot |-> s.slot].address = r.address
        BY <3>1
      <4> QED BY <4>3, <4>4, <4>5
    <3> QED BY <3>1, <3>2
  <2> QED BY <1>5, <2>1, <2>2 DEF Follows
<1> QED BY <1>3, <1>4, <1>5 DEF Honest

\* The trace once the opcode has been noted, before its level is looked at.
LEMMA StepFollows ==
    ASSUME NEW top \in Nat, NEW c, Collected(c), NEW s, s.depth \in Nat,
           NEW d, d = stepFrom(top, c, s)
    PROVE  /\ Collected(d)
           /\ ~ d.thrown =>
                /\ ~ c.thrown
                /\ Follows(c, d, s)
                /\ s.depth = top /\ s.opcode \in {"CALL", "STATICCALL"}
                     => Len(d.callsFromEntryPoint) > 0
                /\ s.depth > top /\ Len(c.callsFromEntryPoint) > 0 =>
                     /\ s.opcode \in Calls \cup ExtCode /\ s.address # "precompile"
                          => SizedIn(d, s.address)
                     /\ s.opcode = "SSTORE" => Noted(d, s.owner, s.slot)
<1> DEFINE q == c.callsFromEntryPoint
           n == Len(q)
           recent == IF s.opcode \in Returning THEN <<>> ELSE lastThree(c, s)
           calls == IF s.depth = top /\ s.opcode \in Returning
                    THEN Append(c.calls, [type |-> s.opcode, data |-> s.data]) ELSE c.calls
           oogLevel == [q[n] EXCEPT !.oog = TRUE]
           p == IF s.oog THEN WithElement(q, n, oogLevel) ELSE q
           noted == [c EXCEPT !.lastThreeOpcodes = recent, !.callsFromEntryPoint = p,
                              !.calls = calls]
<1>0. n \in Nat /\ IsSeq(q) /\ DOMAIN q = 1..n
      /\ \A i \in 1..n : DOMAIN q[i] = LevelFields
  BY SequenceGrows DEF Collected
<1>1. d = IF s.depth < top \/ c.thrown THEN c
          ELSE IF n = 0 /\ needsLevel(top, s) THEN [c EXCEPT !.thrown = TRUE]
          ELSE IF s.depth = top THEN topLevel(noted, s)
          ELSE IF n = 0 THEN [noted EXCEPT !.lastOp = s.opcode]
          ELSE belowTop(noted, s, recent)
  BY DEF stepFrom, WithElement
<1>2. IsSeq(calls)
  BY SequenceGrows DEF Collected
<1> HIDE DEF recent, calls
<1>3. ASSUME n > 0 \/ ~ s.oog
      PROVE  /\ IsSeq(p) /\ Len(p) = n
             /\ \A i \in 1..n : /\ DOMAIN p[i] = LevelFields
                                /\ p[i].reads = q[i].reads /\ p[i].writes = q[i].writes
                                /\ p[i].contractSize = q[i].contractSize
  <2>1. CASE s.oog
    <3>1. n \in 1..n
      <4> HIDE DEF n
      <4> QED BY <1>0, <1>3, <2>1
    <3>2. /\ DOMAIN oogLevel = LevelFields /\ oogLevel.reads = q[n].reads
          /\ oogLevel.writes = q[n].writes /\ oogLevel.contractSize = q[n].contractSize
      BY <1>0, <3>1 DEF LevelFields
    <3> HIDE DEF oogLevel
    <3>3. /\ IsSeq(p) /\ Len(p) = n
          /\ \A i \in 1..n : p[i] = IF i = n THEN oogLevel ELSE q[i]
      BY <1>0, <2>1, <3>1, SequenceChanges
    <3> HIDE DEF p, n
    <3> QED BY <1>0, <3>2, <3>3
  <2>2. CASE ~ s.oog
    BY <1>0, <2>2
  <2> QED BY <2>1, <2>2
<1> HIDE DEF p
<1>4. /\ DOMAIN noted = TraceFields /\ noted.callsFromEntryPoint = p
      /\ noted.calls = calls /\ noted.thrown = c.thrown
  BY DEF Collected, TraceFields
<1> HIDE DEF noted
<1>5. CASE s.depth < top \/ c.thrown
  <2>1. d = c /\ Collected(d)
    BY <1>1, <1>5
  <2>2. s.depth < top => n =< n /\ ~ (s.depth = top) /\ ~ (s.depth > top)
    <3> HIDE DEF n
    <3> QED BY <1>0
  <2> QED BY <1>5, <2>1, <2>2 DEF Follows
<1>6. CASE ~ (s.depth < top \/ c.thrown) /\ n = 0 /\ needsLevel(top, s)
  <2>1. d = [c EXCEPT !.thrown = TRUE]
    BY <1>1, <1>6
  <2>2. DOMAIN d = TraceFields /\ d.callsFromEntryPoint = q /\ d.calls = c.calls /\ d.thrown
    BY <2>1 DEF Collected, TraceFields
  <2>3. Collected(d)
    BY <2>2 DEF Collected
  <2> QED BY <2>2, <2>3
<1>7. ASSUME ~ (s.depth < top \/ c.thrown), ~ (n = 0 /\ needsLevel(top, s))
      PROVE  n > 0 \/ ~ s.oog
  <2> HIDE DEF n
  <2> QED BY <1>0, <1>7 DEF needsLevel
<1>8. CASE /\ ~ (s.depth < top \/ c.thrown) /\ ~ (n = 0 /\ needsLevel(top, s))
           /\ s.depth = top
  <2>1. d = topLevel(noted, s)
    BY <1>1, <1>8
  <2>2. /\ DOMAIN d = TraceFields /\ d.calls = calls
        /\ d.callsFromEntryPoint = IF s.opcode \in {"CALL", "STATICCALL"}
                                   THEN Append(p, Level(s.method)) ELSE p
    BY <1>4, <2>1 DEF topLevel, TraceFields
  <2>3. /\ DOMAIN Level(s.method) = LevelFields /\ Level(s.method).reads = {}
    BY DEF Level, LevelFields
  <2> DEFINE new == Level(s.method)
  <2> HIDE DEF new
  <2>4. /\ IsSeq(p) /\ Len(p) = n
        /\ \A i \in 1..n : /\ DOMAIN p[i] = LevelFields
                           /\ p[i].reads = q[i].reads /\ p[i].writes = q[i].writes
                           /\ p[i].contractSize = q[i].contractSize
    BY <1>3, <1>7, <1>8
  <2>5. CASE s.opcode \in {"CALL", "STATICCALL"}
    <3>1. /\ d.callsFromEntryPoint = Append(p, new)
          /\ DOMAIN new = LevelFields /\ new.reads = {}
      BY <2>2, <2>3, <2>5 DEF new
    <3>2. /\ IsSeq(Append(p, new)) /\ Len(Append(p, new)) = n + 1
          /\ \A i \in 1..n : Append(p, new)[i] = p[i]
          /\ Append(p, new)[n + 1] = new
      BY <2>4, SequenceGrows
    <3>3. \A i \in 1..(n + 1) : i \in 1..n \/ i = n + 1
      <4> HIDE DEF n
      <4> QED BY <1>0
    <3>4. Collected(d)
      BY <1>2, <2>2, <2>4, <3>1, <3>2, <3>3 DEF Collected
    <3>5. Follows(c, d, s)
      <4>1. n =< n + 1 /\ n + 1 > 0
        <5> HIDE DEF n
        <5> QED BY <1>0
      <4> QED BY <2>4, <3>1, <3>2, <3>3, <3>4, <4>1 DEF Follows
    <3>6. n + 1 > 0 /\ ~ (s.depth > top)
      <4> HIDE DEF n
      <4> QED BY <1>0, <1>8
    <3> QED BY <1>8, <3>1, <3>2, <3>4, <3>5, <3>6
  <2>6. CASE s.opcode \notin {"CALL", "STATICCALL"}
    <3>1. d.callsFromEntryPoint = p
      BY <2>2, <2>6
    <3>2. n =< n /\ ~ (s.depth > top)
      <4> HIDE DEF n
      <4> QED BY <1>0, <1>8
    <3>3. Collected(d)
      BY <1>2, <2>2, <2>4, <3>1 DEF Collected
    <3>4. Follows(c, d, s)
      BY <2>4, <3>1, <3>2, <3>3 DEF Follows
    <3> QED BY <1>8, <2>6, <3>2, <3>3, <3>4
  <2> QED BY <2>5, <2>6
<1>9. CASE /\ ~ (s.depth < top \/ c.thrown) /\ ~ (n = 0 /\ needsLevel(top, s))
           /\ s.depth # top /\ n = 0
  <2>1. d = [noted EXCEPT !.lastOp = s.opcode]
    BY <1>1, <1>9
  <2>2. DOMAIN d = TraceFields /\ d.calls = calls /\ d.callsFromEntryPoint = p
    BY <1>4, <2>1 DEF TraceFields
  <2>3. IsSeq(p) /\ Len(p) = n
    BY <1>3, <1>7, <1>9
  <2>4. n =< n /\ ~ (n > 0) /\ \A i \in 1..n : FALSE
    <3> HIDE DEF n
    <3> QED BY <1>0, <1>9
  <2>5. Collected(d)
    BY <1>2, <2>2, <2>3, <2>4 DEF Collected
  <2>6. Follows(c, d, s)
    BY <2>2, <2>3, <2>4, <2>5 DEF Follows
  <2> QED BY <1>9, <2>4, <2>5, <2>6
<1>10. CASE /\ ~ (s.depth < top \/ c.thrown) /\ ~ (n = 0 /\ needsLevel(top, s))
            /\ s.depth # top /\ n # 0
  <2> DEFINE level == p[n]
             m == withAccess(withOpcode(withContractSize(withExtCodeAccess(level, recent), s),
                                        noted.lastOp, s), s)
  <2>0. n \in 1..n /\ n > 0
    <3> HIDE DEF n
    <3> QED BY <1>0, <1>10
  <2>1. d = belowTop(noted, s, recent)
    BY <1>1, <1>10
  <2>4. /\ IsSeq(p) /\ Len(p) = n
        /\ \A i \in 1..n : /\ DOMAIN p[i] = LevelFields
                           /\ p[i].reads = q[i].reads /\ p[i].writes = q[i].writes
                           /\ p[i].contractSize = q[i].contractSize
    BY <1>3, <1>7, <1>10
  <2>5. Grows(level, m, s)
    BY <2>0, <2>4, LevelGrows
  <2> HIDE DEF m
  <2>2. /\ DOMAIN d = TraceFields /\ d.calls = calls
        /\ d.callsFromEntryPoint = WithElement(p, n, m)
    BY <1>4, <2>1, <2>4 DEF belowTop, TraceFields, WithElement, m
  <2>6. /\ IsSeq(WithElement(p, n, m)) /\ Len(WithElement(p, n, m)) = n
        /\ \A i \in 1..n : WithElement(p, n, m)[i] = IF i = n THEN m ELSE p[i]
    BY <2>0, <2>4, SequenceChanges
  <2>7. Collected(d)
    BY <1>2, <2>2, <2>4, <2>5, <2>6 DEF Collected, Grows
  <2>8. n =< n
    <3> HIDE DEF n
    <3> QED BY <1>0
  <2>9. Follows(c, d, s)
    BY <2>0, <2>2, <2>4, <2>5, <2>6, <2>7, <2>8 DEF Follows, Grows
  <2>10. s.opcode \in Calls \cup ExtCode /\ s.address # "precompile" => SizedIn(d, s.address)
    BY <2>0, <2>2, <2>5, <2>6 DEF SizedIn, Grows
  <2>11. s.opcode = "SSTORE" => Noted(d, s.owner, s.slot)
    BY <2>0, <2>2, <2>5, <2>6 DEF Noted, Grows
  <2> QED BY <1>10, <2>7, <2>9, <2>10, <2>11
<1> QED BY <1>5, <1>6, <1>8, <1>9, <1>10

LEMMA SequenceFront ==
    ASSUME NEW q, IsSeq(q), q # <<>>
    PROVE  /\ Len(q) \in Nat /\ Len(q) > 0
           /\ IsSeq(Front(q)) /\ Len(Front(q)) = Len(q) - 1
           /\ \A i \in 1..(Len(q) - 1) : Front(q)[i] = q[i]
           /\ Len(q) = 1 => Front(q) = <<>>
<1>1. PICK S : q \in Seq(S)
  BY DEF IsSeq
<1>2. Len(q) \in Nat /\ Len(q) > 0
  BY <1>1
<1> DEFINE f == SubSeq(q, 1, Len(q) - 1)
<1>3. /\ f \in Seq(S) /\ Len(f) = Len(q) - 1
      /\ \A i \in 1..(Len(q) - 1) : f[i] = q[i]
  BY <1>1, <1>2
<1> HIDE DEF f
<1>4. Len(q) = 1 => f = <<>>
  BY <1>2, <1>3
<1>5. Front(q) = f
  BY DEF Front, f
<1> QED BY <1>2, <1>3, <1>4, <1>5 DEF IsSeq

LEMMA SequenceEmpty ==
    ASSUME NEW q, IsSeq(q)
    PROVE  q = <<>> <=> Len(q) = 0
<1>1. PICK S : q \in Seq(S)
  BY DEF IsSeq
<1> QED BY <1>1

\* The calls that are noted do not change the levels.
SameLevels(c, d) ==
    /\ Collected(d)
    /\ d.callsFromEntryPoint = c.callsFromEntryPoint /\ d.thrown = c.thrown

LEMMA CallsNoted ==
    ASSUME NEW c, Collected(c)
    PROVE  /\ \A frame : SameLevels(c, enter(c, frame))
           /\ \A type, data : /\ SameLevels(c, exit(c, type, data))
                              /\ Last(exit(c, type, data).calls).type = type
<1>1. ASSUME NEW x, NEW d, d = [c EXCEPT !.calls = Append(c.calls, x)]
      PROVE  SameLevels(c, d) /\ Last(d.calls) = x
  <2>1. /\ DOMAIN d = TraceFields /\ d.callsFromEntryPoint = c.callsFromEntryPoint
        /\ d.thrown = c.thrown /\ d.calls = Append(c.calls, x)
    BY <1>1 DEF Collected, TraceFields
  <2>2. /\ IsSeq(c.calls) /\ IsSeq(Append(c.calls, x))
        /\ Len(Append(c.calls, x)) = Len(c.calls) + 1
        /\ Append(c.calls, x)[Len(c.calls) + 1] = x
    BY SequenceGrows DEF Collected
  <2> QED BY <2>1, <2>2 DEF SameLevels, Collected, Last
<1>2. ASSUME NEW frame PROVE SameLevels(c, enter(c, frame))
  BY <1>1 DEF enter
<1>3. ASSUME NEW type, NEW data
      PROVE  SameLevels(c, exit(c, type, data)) /\ Last(exit(c, type, data).calls).type = type
  <2> DEFINE x == [type |-> type, data |-> data]
  <2>1. x.type = type
    OBVIOUS
  <2> HIDE DEF x
  <2>2. SameLevels(c, exit(c, type, data)) /\ Last(exit(c, type, data).calls) = x
    BY <1>1 DEF exit, x
  <2> QED BY <2>1, <2>2
<1> QED BY <1>2, <1>3

\* The depth at which the collector expects the entry point.
Top == IF op.version = "v0.6" /\ importedTracer = "V06" THEN 1 ELSE 3

LEMMA StepIs ==
    ASSUME op \in Operations, NEW c, NEW s
    PROVE  /\ step(c, s) = stepFrom(Top, c, s) /\ Top \in Nat
           /\ Seeing => Top = EntryPointDepth
           /\ ~ Seeing => op.version = "v0.6" /\ Top = 3 /\ EntryPointDepth = 1
<1>1. op.version \in {"v0.6", "v0.7"}
  BY ValidationAssumption DEF Operation
<1> QED BY <1>1 DEF step, stepV06, stepV07, Top, Seeing, EntryPointDepth

\* All that has been written and not reverted.
WrittenNoted(places, c) == \A p \in places : Noted(c, p[1], p[2])

\* What the collector knows of c, it knows of d.
Keeps(c, d) ==
    /\ ~ c.thrown
    /\ Len(c.callsFromEntryPoint) =< Len(d.callsFromEntryPoint)
    /\ \A address : SizedIn(c, address) => SizedIn(d, address)
    /\ \A address, slot : Noted(c, address, slot) => Noted(d, address, slot)
    /\ WrittenNoted(written, c) /\ Honest(c) => Honest(d)

LEMMA ShownKeeps ==
    ASSUME op \in Operations, NEW c, Collected(c),
           NEW i, NEW owner, NEW below \in Nat,
           NEW d, d = step(c, Shown(i, owner, below))
    PROVE  /\ Collected(d)
           /\ ~ d.thrown =>
                /\ Keeps(c, d)
                /\ Seeing /\ below = 0 /\ i.opcode = "CALL" => Len(d.callsFromEntryPoint) > 0
                /\ Seeing /\ below > 0 /\ Len(c.callsFromEntryPoint) > 0 =>
                     /\ i.opcode \in Calls \cup ExtCode /\ HasCode(i.to) => SizedIn(d, i.to)
                     /\ i.opcode = "SSTORE" => Noted(d, owner, i.slot)
           /\ ~ Seeing /\ below = 0 => d = c
<1> DEFINE s == Shown(i, owner, below)
<1>1. /\ s.opcode = i.opcode /\ s.address = i.to /\ s.owner = owner /\ s.slot = i.slot
      /\ s.depth = EntryPointDepth + below
      /\ s.value = IF <<owner, i.slot>> \in written THEN 1 ELSE 0
  BY DEF Shown
<1>2. EntryPointDepth \in Nat /\ s.depth \in Nat
  BY <1>1 DEF EntryPointDepth
<1> HIDE DEF s
<1>3. d = stepFrom(Top, c, s) /\ Top \in Nat
  BY StepIs DEF s
<1>4. /\ Seeing => Top = EntryPointDepth
      /\ ~ Seeing => Top = 3 /\ EntryPointDepth = 1
  BY StepIs
<1>5. /\ Collected(d)
      /\ ~ d.thrown =>
           /\ ~ c.thrown
           /\ Follows(c, d, s)
           /\ s.depth = Top /\ s.opcode \in {"CALL", "STATICCALL"}
                => Len(d.callsFromEntryPoint) > 0
           /\ s.depth > Top /\ Len(c.callsFromEntryPoint) > 0 =>
                /\ s.opcode \in Calls \cup ExtCode /\ s.address # "precompile"
                     => SizedIn(d, s.address)
                /\ s.opcode = "SSTORE" => Noted(d, s.owner, s.slot)
  BY <1>2, <1>3, StepFollows
<1>6. ASSUME ~ d.thrown PROVE Keeps(c, d)
  <2>1. /\ Follows(c, d, s) /\ ~ c.thrown
        /\ Len(c.callsFromEntryPoint) =< Len(d.callsFromEntryPoint)
    BY <1>5, <1>6 DEF Follows
  <2>2. /\ \A address : SizedIn(c, address) => SizedIn(d, address)
        /\ \A address, slot : Noted(c, address, slot) => Noted(d, address, slot)
        /\ Honest(c) /\ (s.value # 0 => Noted(c, s.owner, s.slot)) => Honest(d)
    BY <2>1, FollowsKeeps
  <2>3. WrittenNoted(written, c) => (s.value # 0 => Noted(c, s.owner, s.slot))
    BY <1>1 DEF WrittenNoted
  <2> QED BY <2>1, <2>2, <2>3 DEF Keeps
<1>7. ASSUME ~ d.thrown, Seeing, below = 0, i.opcode = "CALL"
      PROVE  Len(d.callsFromEntryPoint) > 0
  BY <1>1, <1>2, <1>4, <1>5, <1>7
<1>8. ASSUME ~ d.thrown, Seeing, below > 0, Len(c.callsFromEntryPoint) > 0
      PROVE  /\ i.opcode \in Calls \cup ExtCode /\ HasCode(i.to) => SizedIn(d, i.to)
             /\ i.opcode = "SSTORE" => Noted(d, owner, i.slot)
  <2>1. s.depth > Top
    BY <1>1, <1>2, <1>4, <1>8
  <2> QED BY <1>1, <1>5, <1>8, <2>1 DEF HasCode
<1>9. ~ Seeing /\ below = 0 => d = c
  <2>1. ~ Seeing /\ below = 0 => s.depth < Top
    BY <1>1, <1>4
  <2> QED BY <1>3, <2>1 DEF stepFrom
<1> QED BY <1>5, <1>6, <1>7, <1>8, <1>9

LEMMA SeenKeeps ==
    ASSUME op \in Operations, NEW c, Collected(c),
           NEW i, NEW owner, NEW below \in Nat,
           NEW d, d = Seen(c, i, owner, below)
    PROVE  /\ Collected(d)
           /\ ~ d.thrown =>
                /\ Keeps(c, d)
                /\ Seeing /\ below = 0 /\ i.opcode = "CALL" => Len(d.callsFromEntryPoint) > 0
                /\ Seeing /\ below > 0 /\ Len(c.callsFromEntryPoint) > 0 =>
                     /\ i.opcode \in Calls \cup ExtCode /\ HasCode(i.to) => SizedIn(d, i.to)
                     /\ i.opcode = "SSTORE" => Noted(d, owner, i.slot)
           /\ ~ Seeing /\ below = 0 => d = c
<1> DEFINE pushed == IF Pushes(i.opcode) THEN step(c, Shown(Plain("PUSH"), owner, below)) ELSE c
<1>1. d = step(pushed, Shown(i, owner, below))
  BY DEF Seen
<1>2. CASE Pushes(i.opcode)
  <2>1. pushed = step(c, Shown(Plain("PUSH"), owner, below))
    BY <1>2
  <2> HIDE DEF pushed
  <2>2. /\ Collected(pushed) /\ (~ pushed.thrown => Keeps(c, pushed))
        /\ ~ Seeing /\ below = 0 => pushed = c
    BY <2>1, ShownKeeps
  <2>3. /\ Collected(d)
        /\ ~ d.thrown =>
             /\ Keeps(pushed, d)
             /\ Seeing /\ below = 0 /\ i.opcode = "CALL" => Len(d.callsFromEntryPoint) > 0
             /\ Seeing /\ below > 0 /\ Len(pushed.callsFromEntryPoint) > 0 =>
                  /\ i.opcode \in Calls \cup ExtCode /\ HasCode(i.to) => SizedIn(d, i.to)
                  /\ i.opcode = "SSTORE" => Noted(d, owner, i.slot)
        /\ ~ Seeing /\ below = 0 => d = pushed
    BY <1>1, <2>2, ShownKeeps
  <2>4. /\ Len(c.callsFromEntryPoint) \in Nat /\ Len(pushed.callsFromEntryPoint) \in Nat
        /\ Len(d.callsFromEntryPoint) \in Nat
    BY <2>2, <2>3, SequenceGrows DEF Collected
  <2>5. ASSUME Keeps(c, pushed), Keeps(pushed, d)
        PROVE  Keeps(c, d) /\ Len(c.callsFromEntryPoint) =< Len(pushed.callsFromEntryPoint)
    <3>1. WrittenNoted(written, c) => WrittenNoted(written, pushed)
      BY <2>5 DEF Keeps, WrittenNoted
    <3> QED BY <2>4, <2>5, <3>1 DEF Keeps
  <2>6. ~ d.thrown => ~ pushed.thrown
    BY <2>3 DEF Keeps
  <2> QED BY <2>2, <2>3, <2>4, <2>5, <2>6
<1>3. CASE ~ Pushes(i.opcode)
  <2>1. d = step(c, Shown(i, owner, below))
    BY <1>1, <1>3
  <2> QED BY <2>1, ShownKeeps
<1> QED BY <1>2, <1>3

\* What the collector knows of the frames fs, of the places that have been
\* written, also by frames that may still be reverted to, and of the contracts
\* that were run or looked at.
Knows(c, fs, places, contracts) ==
    /\ fs # <<>> => Len(c.callsFromEntryPoint) > 0
    /\ \A address \in contracts : SizedIn(c, address)
    /\ WrittenNoted(places, c)
    /\ \A k \in 1..Len(fs) : WrittenNoted(fs[k].written, c)
    /\ Honest(c)

\* A collector that does not expect the entry point where it is never sees it
\* return, and the last it noted is an entity's return.
TraceInv ==
    /\ op \in Operations
    /\ IsSeq(frames)
    /\ Collected(trace)
    /\ phase = "tracing" /\ frames # <<>> => calling # <<>>
    /\ phase = "tracing" /\ ~ trace.thrown /\ Seeing => Knows(trace, frames, written, ran)
    /\ phase = "tracing" /\ ~ trace.thrown /\ ~ Seeing /\ frames = <<>> /\ calling = <<>> =>
         Last(trace.calls).type = "RETURN"
    /\ phase = "hashing" => Honest(trace) /\ \A address \in ran : SizedIn(trace, address)

\* What is known of c is known of d as well, if it keeps it.
LEMMA KnowsKeeps ==
    ASSUME NEW c, NEW d, Keeps(c, d), Collected(c), Collected(d),
           NEW fs, NEW contracts, Knows(c, fs, written, contracts)
    PROVE  Knows(d, fs, written, contracts)
<1>1. /\ Len(c.callsFromEntryPoint) \in Nat /\ Len(d.callsFromEntryPoint) \in Nat
      /\ Len(c.callsFromEntryPoint) =< Len(d.callsFromEntryPoint)
  BY SequenceGrows DEF Keeps, Collected
<1>2. fs # <<>> => Len(d.callsFromEntryPoint) > 0
  BY <1>1 DEF Knows
<1>3. \A places : WrittenNoted(places, c) => WrittenNoted(places, d)
  BY DEF Keeps, WrittenNoted
<1>4. \A address \in contracts : SizedIn(d, address)
  BY DEF Keeps, Knows
<1>5. Honest(d)
  BY DEF Keeps, Knows
<1> QED BY <1>2, <1>3, <1>4, <1>5 DEF Knows

LEMMA SameKnown ==
    ASSUME NEW c, NEW d, SameLevels(c, d)
    PROVE  /\ \A fs, places, contracts :
                Knows(c, fs, places, contracts) => Knows(d, fs, places, contracts)
           /\ d.thrown = c.thrown /\ Collected(d)
           /\ Len(d.callsFromEntryPoint) = Len(c.callsFromEntryPoint)
           /\ \A address : SizedIn(c, address) => SizedIn(d, address)
           /\ \A address, slot : Noted(c, address, slot) => Noted(d, address, slot)
BY DEF SameLevels, Knows, WrittenNoted, SizedIn, Noted, Honest

LEMMA NoTraceKnows ==
    /\ Collected(NoTrace) /\ ~ NoTrace.thrown
    /\ Len(NoTrace.callsFromEntryPoint) = 0
    /\ Honest(NoTrace)
<1>1. <<>> \in Seq({}) /\ Len(<<>>) = 0
  OBVIOUS
<1>2. IsSeq(<<>>)
  BY <1>1 DEF IsSeq
<1>3. /\ NoTrace.callsFromEntryPoint = <<>> /\ NoTrace.calls = <<>> /\ ~ NoTrace.thrown
      /\ DOMAIN NoTrace = TraceFields
  BY DEF NoTrace, TraceFields
<1> QED BY <1>1, <1>2, <1>3 DEF Collected, Honest

LEMMA TraceInitInv == Init => TraceInv
<1> SUFFICES ASSUME Init PROVE TraceInv
  OBVIOUS
<1>1. /\ op \in Operations /\ frames = <<>> /\ calling = PresentInOrder /\ written = {}
      /\ ran = {} /\ trace = StartedTrace
      /\ phase = IF mode = "safe" THEN "tracing" ELSE "simulating"
  BY DEF Init
<1>2. <<>> \in Seq({}) /\ Len(<<>>) = 0
  OBVIOUS
<1>3. IsSeq(<<>>)
  BY <1>2 DEF IsSeq
<1>4. calling # <<>>
  BY <1>1 DEF PresentInOrder
<1>5. /\ SameLevels(NoTrace, NoTrace)
      /\ \A frame : SameLevels(NoTrace, enter(NoTrace, frame))
      /\ \A frame, other : SameLevels(enter(NoTrace, frame), enter(enter(NoTrace, frame), other))
  BY NoTraceKnows, CallsNoted DEF SameLevels
<1>6. SameLevels(NoTrace, trace)
  BY <1>1, <1>5 DEF StartedTrace, SameLevels
<1>7. Knows(NoTrace, frames, written, ran)
  BY <1>1, <1>2, NoTraceKnows DEF Knows, WrittenNoted
<1>8. Knows(trace, frames, written, ran) /\ Collected(trace)
  BY <1>6, <1>7, SameKnown
<1> QED BY <1>1, <1>3, <1>4, <1>8 DEF TraceInv

\* The first steps that the collector sees of a call of the entry point.
LEMMA CalledKnows ==
    ASSUME TraceInv, CallEntity
    PROVE  /\ Collected(trace')
           /\ ~ trace'.thrown => ~ trace.thrown
           /\ ~ trace'.thrown /\ Seeing =>
                /\ Knows(trace', frames, written, ran)
                /\ Len(trace'.callsFromEntryPoint) > 0
<1> DEFINE e == Head(calling)
           call == Call(IF e = "factory" THEN "creator" ELSE e, MethodOf[e])
           create == Call("factory", "")
           seen == Seen(trace, call, "entryPoint", 0)
           called == enter(seen, Entering("CALL", "entryPoint", call))
           again == Seen(called, create, "creator", 1)
<1>1. /\ op \in Operations /\ Collected(trace) /\ phase = "tracing"
      /\ trace' = IF e = "factory" THEN enter(again, Entering("CALL", "creator", create))
                  ELSE called
      /\ ~ trace.thrown /\ Seeing => Knows(trace, frames, written, ran)
  BY DEF TraceInv, CallEntity
<1>2. call.opcode = "CALL"
  BY DEF Call, Plain
<1> HIDE DEF call, create
<1>3. /\ Collected(seen)
      /\ ~ seen.thrown => Keeps(trace, seen)
      /\ ~ seen.thrown /\ Seeing => Len(seen.callsFromEntryPoint) > 0
  BY <1>1, <1>2, SeenKeeps
<1>4. ~ seen.thrown => ~ trace.thrown
  BY <1>3 DEF Keeps
<1>5. ~ seen.thrown /\ Seeing => Knows(seen, frames, written, ran)
  BY <1>1, <1>3, <1>4, KnowsKeeps
<1> HIDE DEF seen
<1>6. SameLevels(seen, called)
  BY <1>3, CallsNoted
<1>7. /\ Collected(called) /\ called.thrown = seen.thrown
      /\ Len(called.callsFromEntryPoint) = Len(seen.callsFromEntryPoint)
      /\ ~ seen.thrown /\ Seeing => Knows(called, frames, written, ran)
  BY <1>5, <1>6, SameKnown
<1> HIDE DEF called
<1>8. CASE e # "factory"
  BY <1>1, <1>3, <1>4, <1>7, <1>8
<1>9. CASE e = "factory"
  <2>1. Collected(again) /\ (~ again.thrown => Keeps(called, again))
    BY <1>1, <1>7, SeenKeeps
  <2>2. /\ ~ again.thrown => ~ called.thrown
        /\ ~ again.thrown /\ Seeing => Knows(again, frames, written, ran)
    BY <1>7, <2>1, KnowsKeeps DEF Keeps
  <2>3. ~ again.thrown /\ Seeing => Len(again.callsFromEntryPoint) > 0
    <3>1. /\ Len(called.callsFromEntryPoint) \in Nat /\ Len(again.callsFromEntryPoint) \in Nat
      BY <1>7, <2>1, SequenceGrows DEF Collected
    <3> QED BY <1>3, <1>7, <2>1, <2>2, <3>1 DEF Keeps
  <2> HIDE DEF again
  <2>4. SameLevels(again, trace')
    BY <1>1, <1>9, <2>1, CallsNoted
  <2>5. /\ Collected(trace') /\ trace'.thrown = again.thrown
        /\ Len(trace'.callsFromEntryPoint) = Len(again.callsFromEntryPoint)
        /\ ~ again.thrown /\ Seeing => Knows(trace', frames, written, ran)
    BY <2>2, <2>4, SameKnown
  <2> QED BY <1>4, <1>7, <2>2, <2>3, <2>5
<1> QED BY <1>8, <1>9

LEMMA CallEntityKnows == TraceInv /\ CallEntity => TraceInv'
<1> SUFFICES ASSUME TraceInv, CallEntity PROVE TraceInv'
  OBVIOUS
<1>1. /\ Collected(trace')
      /\ ~ trace'.thrown => ~ trace.thrown
      /\ ~ trace'.thrown /\ Seeing =>
           /\ Knows(trace', frames, written, ran)
           /\ Len(trace'.callsFromEntryPoint) > 0
  BY CalledKnows
<1>2. /\ op' = op /\ phase' = phase /\ calling' = calling /\ written' = written /\ ran' = ran
      /\ phase = "tracing" /\ frames = <<>> /\ calling # <<>> /\ op \in Operations
      /\ frames' = IF Head(calling) = "factory"
                   THEN <<Frame("creator", "creator"), Frame("factory", "factory")>>
                   ELSE <<Frame(Head(calling), Head(calling))>>
  BY DEF CallEntity, fixed, TraceInv
<1>3. \A x, y : <<x, y>> \in Seq({x, y}) /\ <<x>> \in Seq({x})
  OBVIOUS
<1>4. IsSeq(frames') /\ frames' # <<>>
  BY <1>2, <1>3 DEF IsSeq
<1>5. \A x, y : Frame(x, y).written = written
  BY DEF Frame
<1>6. \A k \in 1..Len(frames') : frames'[k].written = written
  <2>1. \A x, y : /\ \A k \in 1..Len(<<x, y>>) : <<x, y>>[k] \in {x, y}
                  /\ \A k \in 1..Len(<<x>>) : <<x>>[k] = x
    OBVIOUS
  <2>2. CASE Head(calling) = "factory"
    BY <1>2, <1>5, <2>1, <2>2
  <2>3. CASE Head(calling) # "factory"
    BY <1>2, <1>5, <2>1, <2>3
  <2> QED BY <2>2, <2>3
<1>7. ~ trace'.thrown /\ Seeing => Knows(trace', frames', written', ran')
  BY <1>1, <1>2, <1>6 DEF Knows
<1>8. Seeing' = Seeing
  BY <1>2 DEF Seeing
<1> QED BY <1>1, <1>2, <1>4, <1>7, <1>8 DEF TraceInv

\* A contract runs i: what it wrote and whatever it ran or looked at is noted.
LEMMA SeenKnows ==
    ASSUME TraceInv, phase = "tracing", frames # <<>>,
           NEW i, NEW c, c = Seen(trace, i, Running.owner, Len(frames))
    PROVE  /\ Collected(c)
           /\ ~ c.thrown => ~ trace.thrown
           /\ ~ c.thrown /\ Seeing =>
                /\ Knows(c, frames, written, ran)
                /\ i.opcode \in Calls \cup ExtCode /\ HasCode(i.to) => SizedIn(c, i.to)
                /\ i.opcode = "SSTORE" => Noted(c, Running.owner, i.slot)
<1> DEFINE n == Len(frames)
           owner == Running.owner
<1>1. /\ op \in Operations /\ Collected(trace) /\ n \in Nat /\ n > 0
      /\ ~ trace.thrown /\ Seeing => Knows(trace, frames, written, ran)
  BY SequenceFront DEF TraceInv
<1> HIDE DEF n, owner
<1>2. c = Seen(trace, i, owner, n)
  BY DEF n, owner
<1>3. /\ Collected(c)
      /\ ~ c.thrown =>
           /\ Keeps(trace, c)
           /\ Seeing /\ n > 0 /\ Len(trace.callsFromEntryPoint) > 0 =>
                /\ i.opcode \in Calls \cup ExtCode /\ HasCode(i.to) => SizedIn(c, i.to)
                /\ i.opcode = "SSTORE" => Noted(c, owner, i.slot)
  BY <1>1, <1>2, SeenKeeps
<1>4. ~ c.thrown => ~ trace.thrown
  BY <1>3 DEF Keeps
<1>5. ~ c.thrown /\ Seeing =>
        Knows(c, frames, written, ran) /\ Len(trace.callsFromEntryPoint) > 0
  BY <1>1, <1>3, <1>4, KnowsKeeps DEF Knows
<1> QED BY <1>1, <1>3, <1>4, <1>5 DEF owner

\* What was known when the frame that runs was entered, and still is.
LEMMA FrontKnown ==
    ASSUME TraceInv, frames # <<>>, NEW c, NEW contracts,
           Knows(c, frames, written, contracts)
    PROVE  /\ Knows(c, Front(frames), written, contracts)
           /\ Knows(c, Front(frames), Running.written, contracts)
<1> DEFINE n == Len(frames)
           front == Front(frames)
<1>1. n \in Nat /\ n > 0 /\ Len(front) = n - 1 /\ \A i \in 1..(n - 1) : front[i] = frames[i]
  BY SequenceFront DEF TraceInv
<1>2. Running = frames[n]
  BY DEF Running, Last
<1> HIDE DEF n, front
<1>3. n \in 1..n /\ \A k \in 1..Len(front) : k \in 1..n /\ front[k] = frames[k]
  BY <1>1
<1>4. \A k \in 1..n : WrittenNoted(frames[k].written, c)
  BY DEF Knows, n
<1>5. \A k \in 1..Len(front) : WrittenNoted(front[k].written, c)
  BY <1>3, <1>4
<1>6. WrittenNoted(Running.written, c)
  BY <1>2, <1>3, <1>4
<1>7. Knows(c, front, written, contracts) /\ Knows(c, front, Running.written, contracts)
  BY <1>5, <1>6 DEF Knows
<1> QED BY <1>7 DEF front

\* A frame fails.
LEMMA RevertedKnows ==
    ASSUME TraceInv, phase = "tracing", frames # <<>>, NEW c, Reverted(c), Collected(c),
           ~ c.thrown => ~ trace.thrown,
           ~ c.thrown /\ Seeing => Knows(c, frames, written, ran'),
           UNCHANGED <<fixed, calling>>
    PROVE  TraceInv'
<1>1. /\ trace' = exit(c, "REVERT", "") /\ written' = Running.written
      /\ frames' = Front(frames) /\ phase' \in {"failed", phase}
      /\ op' = op /\ calling' = calling /\ op \in Operations /\ calling # <<>>
  BY DEF Reverted, fixed, TraceInv
<1>2. IsSeq(frames')
  BY <1>1, SequenceFront DEF TraceInv
<1>3. SameLevels(c, trace')
  BY <1>1, CallsNoted
<1>4. Collected(trace') /\ trace'.thrown = c.thrown
  BY <1>3, SameKnown
<1>5. ~ trace'.thrown /\ Seeing => Knows(trace', frames', written', ran')
  <2>1. ~ c.thrown /\ Seeing => Knows(c, frames', written', ran')
    BY <1>1, FrontKnown
  <2> QED BY <1>3, <1>4, <2>1, SameKnown
<1>6. Seeing' = Seeing
  BY <1>1 DEF Seeing
<1> QED BY <1>1, <1>2, <1>4, <1>5, <1>6 DEF TraceInv

LEMMA RevertKnows == TraceInv /\ Revert => TraceInv'
<1> SUFFICES ASSUME TraceInv, Revert PROVE TraceInv'
  OBVIOUS
<1> DEFINE i == Plain("REVERT")
           c == Seen(trace, i, Running.owner, Len(frames))
<1>1. /\ phase = "tracing" /\ frames # <<>> /\ Reverted(c)
      /\ ran' = ran /\ UNCHANGED <<fixed, calling>>
  BY DEF Revert
<1> HIDE DEF i
<1>2. /\ Collected(c) /\ (~ c.thrown => ~ trace.thrown)
      /\ ~ c.thrown /\ Seeing => Knows(c, frames, written, ran)
  BY <1>1, SeenKnows
<1> HIDE DEF c
<1> QED BY <1>1, <1>2, RevertedKnows

LEMMA ReturnKnows == TraceInv /\ Return => TraceInv'
<1> SUFFICES ASSUME TraceInv, Return PROVE TraceInv'
  OBVIOUS
<1>1. /\ phase = "tracing" /\ frames # <<>> /\ calling # <<>> /\ op \in Operations
      /\ op' = op /\ phase' = phase /\ written' = written /\ ran' = ran
      /\ frames' = Front(frames)
      /\ calling' = IF Len(frames) = 1 THEN Tail(calling) ELSE calling
  BY DEF Return, fixed, TraceInv
<1>2. PICK opcode, data :
        LET c == IF Running.code \notin {"nobody", "precompile"}
                 THEN Seen(trace, Plain(opcode), Running.owner, Len(frames)) ELSE trace
        IN  trace' = exit(c, "RETURN", data)
  BY DEF Return
<1> DEFINE i == Plain(opcode)
           c == IF Running.code \notin {"nobody", "precompile"}
                THEN Seen(trace, i, Running.owner, Len(frames)) ELSE trace
<1> HIDE DEF i
<1>3. trace' = exit(c, "RETURN", data)
  BY <1>2 DEF i
<1>4. /\ Collected(c) /\ (~ c.thrown => ~ trace.thrown)
      /\ ~ c.thrown /\ Seeing => Knows(c, frames, written, ran)
  <2>1. CASE Running.code \notin {"nobody", "precompile"}
    BY <1>1, <2>1, SeenKnows
  <2>2. CASE Running.code \in {"nobody", "precompile"}
    BY <1>1, <2>2 DEF TraceInv
  <2> QED BY <2>1, <2>2
<1> HIDE DEF c
<1>5. SameLevels(c, trace') /\ Last(trace'.calls).type = "RETURN"
  BY <1>3, <1>4, CallsNoted
<1>6. Collected(trace') /\ trace'.thrown = c.thrown
  BY <1>5, SameKnown
<1>7. ~ trace'.thrown /\ Seeing => Knows(trace', frames', written', ran')
  <2>1. ~ c.thrown /\ Seeing => Knows(c, frames', written', ran')
    BY <1>1, <1>4, FrontKnown
  <2> QED BY <1>5, <1>6, <2>1, SameKnown
<1>8. IsSeq(frames') /\ (Len(frames) = 1 => frames' = <<>>)
  BY <1>1, SequenceFront DEF TraceInv
<1>9. frames' # <<>> => calling' # <<>>
  BY <1>1, <1>8
<1>10. Seeing' = Seeing
  BY <1>1 DEF Seeing
<1> QED BY <1>1, <1>5, <1>6, <1>7, <1>8, <1>9, <1>10 DEF TraceInv

LEMMA ExecuteKnows == TraceInv /\ (\E i \in program : Execute(i)) => TraceInv'
<1> SUFFICES ASSUME TraceInv, NEW i \in program, Execute(i) PROVE TraceInv'
  OBVIOUS
<1> DEFINE c == Seen(trace, i, Running.owner, Len(frames))
           into == IF i.opcode = "DELEGATECALL" THEN Running.owner ELSE i.to
<1>1. /\ phase = "tracing" /\ frames # <<>> /\ calling # <<>> /\ op \in Operations
      /\ op' = op /\ calling' = calling /\ UNCHANGED <<fixed, calling>>
      /\ ran' = IF i.opcode \in Calls \cup ExtCode /\ HasCode(i.to) THEN ran \cup {i.to} ELSE ran
  BY DEF Execute, fixed, TraceInv
<1>2. /\ Collected(c) /\ (~ c.thrown => ~ trace.thrown)
      /\ ~ c.thrown /\ Seeing =>
           /\ Knows(c, frames, written, ran)
           /\ i.opcode \in Calls \cup ExtCode /\ HasCode(i.to) => SizedIn(c, i.to)
           /\ i.opcode = "SSTORE" => Noted(c, Running.owner, i.slot)
  BY <1>1, SeenKnows
<1>3. /\ i.oog => Reverted(c)
      /\ ~ i.oog =>
           /\ frames' = IF i.opcode \in Calls THEN Append(frames, Frame(i.to, into)) ELSE frames
           /\ trace' = CASE i.opcode \in Calls -> enter(c, Entering(i.opcode, Running.owner, i))
                         [] i.opcode = "CREATE2" ->
                              exit(enter(c, Entering(i.opcode, Running.owner, i)), "RETURN", "")
                         [] OTHER -> c
           /\ written' = IF i.opcode = "SSTORE"
                         THEN written \cup {<<Running.owner, i.slot>>} ELSE written
           /\ phase' = phase
  BY DEF Execute
<1> HIDE DEF c, into
<1>4. ~ c.thrown /\ Seeing => Knows(c, frames, written, ran')
  <2>1. ASSUME ~ c.thrown, Seeing, NEW address \in ran' PROVE SizedIn(c, address)
    BY <1>1, <1>2, <2>1 DEF Knows
  <2> QED BY <1>2, <2>1 DEF Knows
<1>5. CASE i.oog
  BY <1>1, <1>2, <1>3, <1>4, <1>5, RevertedKnows
<1>6. CASE ~ i.oog
  <2>1. SameLevels(c, trace')
    <3>1. /\ SameLevels(c, c)
          /\ \A frame : SameLevels(c, enter(c, frame))
          /\ \A frame, type, data : SameLevels(enter(c, frame), exit(enter(c, frame), type, data))
      BY <1>2, CallsNoted DEF SameLevels
    <3>2. \A frame, type, data : SameLevels(c, exit(enter(c, frame), type, data))
      BY <3>1 DEF SameLevels
    <3> QED BY <1>3, <1>6, <3>1, <3>2
  <2>2. Collected(trace') /\ trace'.thrown = c.thrown
    BY <2>1, SameKnown
  <2>3. ~ c.thrown /\ Seeing => Knows(c, frames, written', ran')
    <3>1. ASSUME ~ c.thrown, Seeing PROVE WrittenNoted(written', c)
      <4>1. CASE i.opcode = "SSTORE"
        <5>1. written' = written \cup {<<Running.owner, i.slot>>}
          BY <1>3, <1>6, <4>1
        <5>2. Noted(c, Running.owner, i.slot) /\ WrittenNoted(written, c)
          BY <1>2, <3>1, <4>1 DEF Knows
        <5> QED BY <5>1, <5>2 DEF WrittenNoted
      <4>2. CASE i.opcode # "SSTORE"
        BY <1>2, <1>3, <1>6, <3>1, <4>2 DEF Knows
      <4> QED BY <4>1, <4>2
    <3> QED BY <1>4, <3>1 DEF Knows
  <2>4. CASE i.opcode \notin Calls
    <3>1. frames' = frames /\ IsSeq(frames)
      BY <1>3, <1>6, <2>4 DEF TraceInv
    <3>2. ~ trace'.thrown /\ Seeing => Knows(trace', frames', written', ran')
      BY <2>1, <2>2, <2>3, <3>1, SameKnown
    <3>3. Seeing' = Seeing
      BY <1>1 DEF Seeing
    <3> QED BY <1>1, <1>3, <1>6, <2>2, <3>1, <3>2, <3>3 DEF TraceInv
  <2>5. CASE i.opcode \in Calls
    <3> DEFINE f == Frame(i.to, into)
               n == Len(frames)
    <3>1. f.written = written
      BY DEF Frame
    <3> HIDE DEF f
    <3>2. frames' = Append(frames, f) /\ written' = written
      <4>1. i.opcode # "SSTORE"
        BY <2>5 DEF Calls
      <4> QED BY <1>3, <1>6, <2>5, <4>1 DEF f
    <3>3. /\ n \in Nat /\ IsSeq(frames') /\ Len(frames') = n + 1
          /\ \A k \in 1..n : frames'[k] = frames[k]
          /\ frames'[n + 1] = f
      BY <3>2, SequenceGrows DEF TraceInv
    <3> HIDE DEF n
    <3>4. \A k \in 1..Len(frames') : k \in 1..n \/ k = n + 1
      BY <3>3
    <3>5. ASSUME ~ c.thrown, Seeing PROVE Knows(c, frames', written', ran')
      <4>1. \A k \in 1..n : WrittenNoted(frames[k].written, c)
        BY <2>3, <3>5 DEF Knows, n
      <4>2. \A k \in 1..Len(frames') : WrittenNoted(frames'[k].written, c)
        BY <2>3, <3>1, <3>2, <3>3, <3>4, <3>5, <4>1 DEF Knows
      <4> QED BY <1>1, <2>3, <3>5, <4>2 DEF Knows
    <3>6. ~ trace'.thrown /\ Seeing => Knows(trace', frames', written', ran')
      BY <2>1, <2>2, <3>5, SameKnown
    <3>7. Seeing' = Seeing
      BY <1>1 DEF Seeing
    <3> QED BY <1>1, <1>3, <1>6, <2>2, <3>3, <3>6, <3>7 DEF TraceInv
  <2> QED BY <2>4, <2>5
<1> QED BY <1>5, <1>6

\* The trace that is parsed is one of a collector that saw the entry point.
LEMMA TracedKnows == TraceInv /\ Traced => TraceInv'
<1> SUFFICES ASSUME TraceInv, Traced PROVE TraceInv'
  OBVIOUS
<1> DEFINE result == Plain(IF op.version = "v0.6" THEN "REVERT" ELSE "RETURN")
           c == Seen(trace, result, "entryPoint", 0)
<1>1. /\ phase = "tracing" /\ frames = <<>> /\ calling = <<>> /\ op \in Operations
      /\ op' = op /\ frames' = frames /\ ran' = ran
      /\ Collected(trace) /\ IsSeq(frames)
      /\ trace' = IF op.version = "v0.6" THEN c ELSE exit(exit(c, "RETURN", ""), "REVERT", "")
      /\ phase' \in {"invalid", "untimely", "illegal", "hashing"}
      /\ phase' = "hashing" => ~ trace'.thrown /\ Last(trace'.calls).type = "REVERT"
  BY DEF Traced, FinishedTrace, fixed, evm, TraceInv
<1> HIDE DEF result
<1>2. /\ Collected(c) /\ (~ c.thrown => Keeps(trace, c))
      /\ ~ Seeing => c = trace
  BY <1>1, SeenKeeps
<1>3. ~ c.thrown => ~ trace.thrown
  BY <1>2 DEF Keeps
<1> HIDE DEF c
<1>4. SameLevels(c, trace')
  <2> DEFINE d == exit(c, "RETURN", "")
  <2>1. SameLevels(c, d)
    BY <1>2, CallsNoted
  <2>2. Collected(d)
    BY <2>1 DEF SameLevels
  <2> HIDE DEF d
  <2>3. SameLevels(d, exit(d, "REVERT", ""))
    BY <2>2, CallsNoted
  <2>4. SameLevels(c, c)
    BY <1>2 DEF SameLevels
  <2>5. trace' = c \/ trace' = exit(d, "REVERT", "")
    BY <1>1 DEF d
  <2> QED BY <2>1, <2>3, <2>4, <2>5 DEF SameLevels
<1>5. Collected(trace') /\ trace'.thrown = c.thrown
  BY <1>4, SameKnown
<1>6. ASSUME phase' = "hashing" PROVE Honest(trace') /\ \A address \in ran : SizedIn(trace', address)
  <2>1. ~ trace.thrown
    BY <1>1, <1>3, <1>5, <1>6
  <2>2. Seeing
    <3> SUFFICES ASSUME ~ Seeing PROVE FALSE
      OBVIOUS
    <3>1. trace' = trace
      BY <1>1, <1>2, StepIs
    <3>2. Last(trace.calls).type = "RETURN"
      BY <1>1, <2>1 DEF TraceInv
    <3> QED BY <1>1, <1>6, <3>1, <3>2
  <2>3. Knows(trace, frames, written, ran)
    BY <1>1, <2>1, <2>2 DEF TraceInv
  <2>4. Knows(c, frames, written, ran)
    BY <1>1, <1>2, <1>5, <1>6, <2>3, KnowsKeeps
  <2>5. Knows(trace', frames, written, ran)
    BY <1>4, <2>4, SameKnown
  <2> QED BY <2>5 DEF Knows
<1> QED BY <1>1, <1>5, <1>6 DEF TraceInv

LEMMA TraceNextInv == TraceInv /\ [Next]_vars => TraceInv'
<1> SUFFICES ASSUME TraceInv, [Next]_vars PROVE TraceInv'
  OBVIOUS
<1>1. ASSUME UNCHANGED <<op, frames, ran>>,
             \/ UNCHANGED <<calling, written, trace, phase>>
             \/ phase' \notin {"tracing", "hashing"} /\ Collected(trace')
      PROVE  TraceInv'
  BY <1>1 DEF TraceInv, Knows, Seeing
<1>2. Collected(trace) /\ Collected(NoTrace)
  BY NoTraceKnows DEF TraceInv
<1>3. CASE Hashed
  <2>1. /\ UNCHANGED <<op, frames, ran>> /\ trace' = NoTrace
        /\ phase' \in {"untimely", "accepted"}
    BY <1>3 DEF Hashed, Cleared, fixed
  <2> QED BY <1>1, <1>2, <2>1
<1>4. CASE NoSender \/ Rechecked \/ Retraced \/ ValidatedUnsafely
  <2>1. /\ UNCHANGED <<op, frames, ran, trace>> /\ phase' \notin {"tracing", "hashing"}
    BY <1>4 DEF NoSender, Rechecked, Retraced, ValidatedUnsafely, fixed, evm
  <2> QED BY <1>1, <1>2, <2>1
<1>5. CASE Upgrade \/ Wait \/ UNCHANGED vars
  <2>1. UNCHANGED <<op, frames, ran, calling, written, trace, phase>>
    BY <1>5 DEF Upgrade, Wait, vars, fixed, evm
  <2> QED BY <1>1, <2>1
<1> QED BY <1>3, <1>4, <1>5, CallEntityKnows, ExecuteKnows, ReturnKnows, RevertKnows, TracedKnows
        DEF Next

\* Whichever collector traces an operation, whatever its contracts run, in
\* however deep calls and however often they revert: what the storage map says
\* of a place is what was there before the operation.
THEOREM StorageMapTruthful == Spec => []StorageMapTrue
<1>1. TraceInv => StorageMapTrue
  <2> SUFFICES ASSUME TraceInv, phase = "hashing", NEW r \in storageMap(trace) PROVE r.value = 0
    BY DEF StorageMapTrue
  <2> DEFINE levels == trace.callsFromEntryPoint
  <2>1. DOMAIN levels = 1..Len(levels) /\ Honest(trace)
    BY SequenceGrows DEF TraceInv, Collected
  <2>2. PICK i \in DOMAIN levels :
          /\ r \in levels[i].reads
          /\ \A j \in 1..(i - 1) : \A access \in Accessed(levels[j]) : access.address # r.address
    BY DEF storageMap
  <2>3. \/ r.value = 0
        \/ \E j \in 1..(i - 1) : \E w \in levels[j].writes : w.address = r.address
    BY <2>1, <2>2 DEF Honest
  <2> QED BY <2>2, <2>3 DEF Accessed
<1> QED BY <1>1, TraceInitInv, TraceNextInv, PTL DEF Spec

\* The contracts whose code was run or looked at are among those that are
\* hashed, and what was hashed is what the operation was accepted with.
CodeInv ==
    /\ phase = "accepted" /\ mode = "safe" =>
         /\ ran \subseteq referenced.addresses
         /\ referenced.hash # Unknown =>
              referenced.hash = upgradedBefore \cap referenced.addresses
    /\ phase \in {"retracing", "accepted again"} /\ mode = "safe" =>
         (referenced.hash # Unknown => (upgradedWhenCompared \ upgradedBefore) \cap ran = {})

LEMMA ReferencedRan ==
    ASSUME TraceInv, phase = "hashing"
    PROVE  ran \subseteq contractAddresses(trace)
<1> DEFINE levels == trace.callsFromEntryPoint
<1>1. /\ DOMAIN levels = 1..Len(levels) /\ \A address \in ran : SizedIn(trace, address)
  BY SequenceGrows DEF TraceInv, Collected
<1>2. ASSUME NEW address \in ran PROVE address \in contractAddresses(trace)
  <2>1. PICK k \in 1..Len(levels) : \E x \in levels[k].contractSize : x.address = address
    BY <1>1 DEF SizedIn
  <2>2. levels[k] \in ToSet(levels)
    BY <1>1, <2>1 DEF ToSet
  <2> QED BY <2>1, <2>2 DEF contractAddresses
<1> QED BY <1>2

LEMMA CodeNextInv == TraceInv /\ TimeInv /\ CodeInv /\ [Next]_vars => CodeInv'
<1> SUFFICES ASSUME TraceInv, TimeInv, CodeInv, [Next]_vars PROVE CodeInv'
  OBVIOUS
<1>1. CASE \/ CallEntity \/ Return \/ Revert \/ NoSender \/ Traced
           \/ \E i \in program : Execute(i)
  <2>1. phase' \notin {"accepted", "retracing", "accepted again"}
    BY <1>1 DEF CallEntity, Execute, Return, Revert, Reverted, NoSender, Traced
  <2> QED BY <2>1 DEF CodeInv
<1>2. CASE Hashed
  <2> DEFINE addresses == contractAddresses(trace)
  <2>1. /\ phase = "hashing" /\ phase' \in {"untimely", "accepted"}
        /\ upgradedBefore' = upgraded /\ ran' = ran
        /\ \E hash \in {Unknown, upgraded \cap addresses} :
             referenced' = [hash |-> hash, addresses |-> addresses]
    BY <1>2 DEF Hashed, codeHashes, Cleared
  <2>2. ran \subseteq addresses
    BY <2>1, ReferencedRan
  <2> HIDE DEF addresses
  <2>3. /\ referenced'.addresses = addresses
        /\ referenced'.hash \in {Unknown, upgraded \cap addresses}
    BY <2>1
  <2>4. /\ ran' \subseteq referenced'.addresses
        /\ referenced'.hash # Unknown' =>
             referenced'.hash = upgradedBefore' \cap referenced'.addresses
    BY <2>1, <2>2, <2>3
  <2>5. phase' \notin {"retracing", "accepted again"}
    BY <2>1
  <2> QED BY <2>4, <2>5 DEF CodeInv
<1>3. CASE Rechecked
  <2>1. /\ phase = "accepted" /\ mode = "safe" /\ phase' \in {"retracing", "changed"}
        /\ phase' = "retracing" =>
             \/ referenced.addresses = {}
             \/ referenced.hash \in {Unknown, upgraded \cap referenced.addresses}
        /\ UNCHANGED <<referenced, upgraded, upgradedBefore, ran>>
        /\ upgradedWhenCompared' = upgraded
    BY <1>3 DEF Rechecked, codeHashes, validator, evm
  <2>2. ASSUME phase' = "retracing", referenced.hash # Unknown
        PROVE  (upgraded \ upgradedBefore) \cap ran = {}
    BY <2>1, <2>2 DEF CodeInv
  <2> QED BY <2>1, <2>2 DEF CodeInv
<1>4. CASE Retraced
  BY <1>4 DEF Retraced, CodeInv, fixed, evm
<1>5. CASE ValidatedUnsafely
  BY <1>5 DEF ValidatedUnsafely, CodeInv, fixed
<1>6. CASE Upgrade
  BY <1>6 DEF Upgrade, CodeInv, fixed, evm
<1>7. CASE Wait \/ UNCHANGED vars
  BY <1>7 DEF Wait, vars, CodeInv, fixed, evm, validator
<1> QED BY <1>1, <1>2, <1>3, <1>4, <1>5, <1>6, <1>7 DEF Next

\* Whatever contracts an operation runs or looks at, and whenever their code
\* changes: it is not accepted again unless, when the second validation compares
\* the hashes, the code of all of them is the code that was hashed when it was
\* accepted first, if the node told the hashes.
THEOREM CodeChangesNoticed == Spec => []CodeChangeNoticed
<1>1. ASSUME Init PROVE TraceInv /\ TimeInv /\ CodeInv
  <2>1. /\ TraceInv /\ phase \in {"tracing", "simulating"}
        /\ clock = 100 /\ accepted = {}
        /\ window \in [account : Windows, paymaster : Windows]
        /\ phase = "tracing" => mode = "safe"
    BY <1>1, TraceInitInv DEF Init
  <2> QED BY <2>1 DEF TimeInv, CodeInv
<1>2. CodeInv => CodeChangeNoticed
  BY DEF CodeInv, CodeChangeNoticed
<1> QED BY <1>1, <1>2, TraceNextInv, TimeNextInv, CodeNextInv, PTL DEF Spec

-----------------------------------------------------------------------------
(* parseCallStack.                                                         *)

NothingParsed == [stack |-> <<>>, out |-> <<>>]

parseCalls(calls) == FoldLeft(Parsing, NothingParsed, calls)

\* What is kept of a call that has returned.
OutOf(top, call) ==
    IF top.type \in {"CREATE", "CREATE2"}
    THEN [to |-> top.to, from |-> top.from, method |-> "", value |-> 0, return |-> ""]
    ELSE [to |-> top.to, from |-> top.from, method |-> top.method, value |-> top.value,
          return |-> IF call.type = "RETURN" THEN call.data ELSE ""]

\* g has what is known up to each call.
Parses(g, calls) ==
    /\ g[0] = NothingParsed
    /\ \A k \in 1..Len(calls) : g[k] = Parsing(g[k - 1], calls[k])

LEMMA ParseSteps ==
    ASSUME NEW calls, IsSeq(calls)
    PROVE  \E g : Parses(g, calls) /\ parseCalls(calls) = g[Len(calls)]
<1> DEFINE n == Len(calls)
           E == {calls[i] : i \in 1..n} \cup {TopCall}
           T == {OutOf(p[1], p[2]) : p \in E \X E}
           X == [stack : Seq(E), out : Seq(T)]
           base == NothingParsed
           parsing == [p \in (1..n) \X X |-> Parsing(p[2], calls[p[1]])]
           Body(g) == [U \in SUBSET DOMAIN calls |->
                          IF U = {} THEN base ELSE Parsing(g[U \ {Max(U)}], calls[Max(U)])]
           h == CHOOSE g : g = Body(g)
<1>0. parseCalls(calls) = h[DOMAIN calls]
  BY DEF parseCalls, FoldLeft, MapThenFoldSet
<1>1. n \in Nat /\ DOMAIN calls = 1..n /\ base \in X
  <2>1. n \in Nat /\ DOMAIN calls = 1..n
    BY SequenceGrows
  <2>2. base \in X
    <3> HIDE DEF E, T
    <3> QED BY DEF NothingParsed
  <2> QED BY <2>1, <2>2
<1>2. ASSUME NEW w \in X, NEW k \in 1..n
      PROVE  Parsing(w, calls[k]) \in X
  <2> DEFINE call == calls[k]
             top == IF w.stack = <<>> THEN TopCall ELSE Last(w.stack)
             front == IF w.stack = <<>> THEN <<>> ELSE Front(w.stack)
  <2>0. call \in E /\ TopCall \in E
    OBVIOUS
  <2>1. \A a, b \in E : OutOf(a, b) \in T
    <3>1. ASSUME NEW a \in E, NEW b \in E PROVE OutOf(a, b) \in T
      <4>1. <<a, b>> \in E \X E /\ <<a, b>>[1] = a /\ <<a, b>>[2] = b
        OBVIOUS
      <4> QED BY <4>1
    <3> QED BY <3>1
  <2> HIDE DEF E, T
  <2>2. w.stack \in Seq(E) /\ w.out \in Seq(T)
    OBVIOUS
  <2>3. front \in Seq(E) /\ top \in E
    <3>1. CASE w.stack = <<>>
      BY <2>0, <3>1
    <3>2. CASE w.stack # <<>>
      <4>1. Len(w.stack) \in Nat /\ Len(w.stack) > 0
        BY <2>2, <3>2
      <4>2. Last(w.stack) \in E /\ Front(w.stack) \in Seq(E)
        BY <2>2, <4>1 DEF Last, Front
      <4> QED BY <3>2, <4>2
    <3> QED BY <3>1, <3>2
  <2>4. Returned(w, call) = [stack |-> front, out |-> Append(w.out, OutOf(top, call))]
    BY DEF Returned, OutOf
  <2> HIDE DEF top, front, call
  <2>5. Returned(w, call) \in X
    <3>1. OutOf(top, call) \in T
      BY <2>0, <2>1, <2>3
    <3>2. Append(w.out, OutOf(top, call)) \in Seq(T)
      BY <2>2, <3>1
    <3> QED BY <2>3, <2>4, <3>2
  <2>6. [w EXCEPT !.stack = Append(@, call)] \in X
    <3>1. Append(w.stack, call) \in Seq(E)
      BY <2>0, <2>2
    <3> QED BY <3>1
  <2>7. Parsing(w, call) \in X
    BY <2>5, <2>6 DEF Parsing
  <2> QED BY <2>7 DEF call
<1> HIDE DEF X, base
<1>3. parsing \in [(1..n) \X X -> X]
  BY <1>2
<1>4. PICK g \in [SUBSET (1..n) -> X] : Folding(g, 1..n, base, LastOf(n), parsing)
  <2> HIDE DEF parsing, n
  <2> QED BY <1>1, <1>3, FoldOnSequenceExists
<1>5. g = Body(g)
  <2>1. \A U \in SUBSET (1..n) : U # {} => Max(U) \in 1..n /\ U \ {Max(U)} \in SUBSET (1..n)
    BY <1>1, LastPosition
  <2>2. \A U \in SUBSET (1..n) :
            g[U] = IF U = {} THEN base ELSE Parsing(g[U \ {Max(U)}], calls[Max(U)])
    <3> HIDE DEF n
    <3> QED BY <1>1, <1>4, <2>1 DEF Folding, LastOf
  <2> QED BY <1>1, <1>4, <2>2
<1>6. h = Body(h)
  <2> HIDE DEF Body
  <2> QED BY <1>5
<1>7. h[1..0] = base /\ \A k \in 1..n : h[1..k] = Parsing(h[1..(k-1)], calls[k])
  <2>1. \A k \in 1..n : /\ 1..k \in SUBSET (1..n) /\ 1..k # {}
                        /\ Max(1..k) = k /\ (1..k) \ {k} = 1..(k - 1)
    BY <1>1, LastOfFirst
  <2>2. \A U \in SUBSET (1..n) :
            h[U] = IF U = {} THEN base ELSE Parsing(h[U \ {Max(U)}], calls[Max(U)])
    <3> HIDE DEF h, n
    <3> QED BY <1>1, <1>6
  <2>3. 1..0 \in SUBSET (1..n) /\ 1..0 = {}
    OBVIOUS
  <2> HIDE DEF h, n
  <2> QED BY <2>1, <2>2, <2>3
<1> DEFINE f == [k \in 0..n |-> h[1..k]]
<1>8. /\ f[0] = base /\ f[n] = h[1..n]
      /\ \A k \in 1..n : f[k] = Parsing(f[k - 1], calls[k])
  <2> HIDE DEF h, n
  <2>1. \A k \in 1..n : k \in 0..n /\ k - 1 \in 0..n
    BY <1>1
  <2> QED BY <1>1, <1>7, <2>1
<1>9. parseCalls(calls) = f[n]
  BY <1>0, <1>1, <1>8
<1> HIDE DEF f, h
<1>10. Parses(f, calls)
  BY <1>8 DEF Parses, base
<1> QED BY <1>9, <1>10

\* One more call is parsed after all the others.
LEMMA ParsedAppended ==
    ASSUME NEW calls, IsSeq(calls), NEW x
    PROVE  parseCalls(Append(calls, x)) = Parsing(parseCalls(calls), x)
<1> DEFINE n == Len(calls)
           more == Append(calls, x)
<1>1. /\ n \in Nat /\ IsSeq(more) /\ Len(more) = n + 1
      /\ \A i \in 1..n : more[i] = calls[i]
      /\ more[n + 1] = x
  BY SequenceGrows
<1> HIDE DEF more
<1>2. PICK g : Parses(g, calls) /\ parseCalls(calls) = g[n]
  BY ParseSteps
<1>3. PICK h : Parses(h, more) /\ parseCalls(more) = h[Len(more)]
  BY <1>1, ParseSteps
<1> HIDE DEF n
<1> DEFINE P == {k \in 0..n : g[k] = h[k]}
<1>4. 0 \in P
  BY <1>1, <1>2, <1>3 DEF Parses
<1>5. ASSUME NEW k \in 1..n, k - 1 \in P PROVE k \in P
  <2>1. g[k] = Parsing(g[k - 1], calls[k])
    BY <1>2 DEF Parses, n
  <2>2. k \in 1..Len(more) /\ k \in 0..n
    BY <1>1
  <2>3. h[k] = Parsing(h[k - 1], more[k])
    BY <1>3, <2>2 DEF Parses
  <2> QED BY <1>1, <1>5, <2>1, <2>2, <2>3
<1>6. \A k \in 0..n : k \in P
  <2> HIDE DEF P
  <2> QED BY <1>1, <1>4, <1>5, UpTo
<1>7. g[n] = h[n]
  BY <1>1, <1>6
<1>8. n + 1 \in 1..Len(more) /\ (n + 1) - 1 = n
  BY <1>1
<1>9. h[n + 1] = Parsing(h[n], x)
  BY <1>1, <1>3, <1>8 DEF Parses
<1> QED BY <1>1, <1>2, <1>3, <1>7, <1>9 DEF more

LEMMA NothingToParse == parseCalls(<<>>) = NothingParsed
<1>1. <<>> \in Seq({}) /\ Len(<<>>) = 0
  OBVIOUS
<1>2. IsSeq(<<>>)
  BY <1>1 DEF IsSeq
<1>3. PICK g : Parses(g, <<>>) /\ parseCalls(<<>>) = g[Len(<<>>)]
  BY <1>2, ParseSteps
<1> QED BY <1>1, <1>3 DEF Parses

-----------------------------------------------------------------------------
(* The calls of an operation, as they are parsed.                          *)

\* The method whose first call the parser takes for the paymaster's, to see if it
\* returned a context.
Sought == "validatePaymasterUserOp"

\* The simulation's own calls, below those of the operation.
Base(userOp) == IF userOp.version = "v0.6" THEN 0 ELSE 2

\* The calls that the parser looks for by name.
IsSought(x) == x.to = "paymaster" /\ x.method = Sought
IsNamed(x) == x.to = "entryPoint" /\ x.method = "delegateAndRevert"

\* A call is as [OP-052] and [OP-061] want it; what it returned, as [EREP-050] does.
GoodCall(rule, x) ==
    /\ rule = "OP052" /\ x.to = "entryPoint" =>
         x.from = "entryPoint" \/ x.method \in {"0x", "depositTo"}
    /\ rule = "OP061" /\ x.to # "entryPoint" => x.value = 0

GoodReturn(rule, userOp, x) ==
    rule = "EREP050" /\ IsSought(x) /\ x.return = "context" => isStaked(userOp.paymaster)

\* Calls that have not returned, and those that have, follow the rule.
StackClean(rule, userOp, s) == \A k \in 1..Len(s) : k > Base(userOp) => GoodCall(rule, s[k])
OutClean(rule, userOp, s) ==
    \A k \in 1..Len(s) : GoodCall(rule, s[k]) /\ GoodReturn(rule, userOp, s[k])

CallsClean(rule, userOp, p) ==
    StackClean(rule, userOp, p.stack) /\ OutClean(rule, userOp, p.out)

\* What the calls tell of a rule, if other calls than the paymaster's own may be
\* taken for it.
Told(mistaken, rule) == rule = "EREP050" => "EREP050" \notin mistaken

Delegate == [type |-> "CALL", from |-> "simulations", to |-> "entryPoint",
             method |-> "delegateAndRevert", value |-> 0]
Simulate == [type |-> "DELEGATECALL", from |-> "entryPoint", to |-> "simulation",
             method |-> "simulateValidationLast", value |-> 0]

\* A call that has not returned is the one that is sought if it is the paymaster's
\* own, unless a contract made a call that may be taken for it.
CallIs(mistaken, x, own) ==
    /\ x.type \notin {"CREATE", "CREATE2"}
    /\ "OP052" \notin mistaken => ~ IsNamed(x)
    /\ "EREP050" \notin mistaken => (IsSought(x) <=> own)

\* n calls of the operation have not returned, the first of them the
\* paymaster's if paying.
StackInv(mistaken, userOp, s, n, paying) ==
    /\ IsSeq(s) /\ n \in Nat /\ Len(s) = Base(userOp) + n
    /\ \A k \in 1..Len(s) : k > Base(userOp) =>
         CallIs(mistaken, s[k], k = Base(userOp) + 1 /\ paying)
    /\ userOp.version = "v0.7" => s[1] = Delegate /\ s[2] = Simulate

\* The paymaster's call, if it is ended, is there once.
OutInv(mistaken, s, ended) ==
    /\ IsSeq(s)
    /\ \A k \in 1..Len(s) :
         /\ "OP052" \notin mistaken => ~ IsNamed(s[k])
         /\ "EREP050" \notin mistaken =>
              /\ IsSought(s[k]) => ended
              /\ \A j \in 1..Len(s) : IsSought(s[j]) /\ IsSought(s[k]) => j = k

\* The calls as parsed: n contracts run, the paymaster's own is the
\* first of them if it is paying, and it has returned once if it has ended.
CallsInv(mistaken, userOp, p, n, paying, ended) ==
    /\ DOMAIN p = {"stack", "out"}
    /\ StackInv(mistaken, userOp, p.stack, n, paying) /\ OutInv(mistaken, p.out, ended)

BaseIs(userOp) == Base(userOp) \in Nat /\ (userOp.version = "v0.7" => Base(userOp) = 2)

LEMMA BaseType == ASSUME NEW userOp PROVE BaseIs(userOp)
BY DEF BaseIs, Base

LEMMA StackPushed ==
    ASSUME NEW mistaken, NEW userOp, NEW s, NEW n, NEW paying \in BOOLEAN,
           StackInv(mistaken, userOp, s, n, paying),
           NEW x, NEW pays \in BOOLEAN, CallIs(mistaken, x, n = 0 /\ pays),
           n > 0 => pays = paying
    PROVE  /\ StackInv(mistaken, userOp, Append(s, x), n + 1, pays)
           /\ \A rule : StackClean(rule, userOp, Append(s, x))
                          <=> StackClean(rule, userOp, s) /\ GoodCall(rule, x)
<1> DEFINE m == Len(s)
           t == Append(s, x)
<1>1. /\ m \in Nat /\ IsSeq(t) /\ Len(t) = m + 1 /\ t[m + 1] = x
      /\ \A k \in 1..m : t[k] = s[k]
  BY SequenceGrows DEF StackInv
<1>2. n \in Nat /\ Base(userOp) \in Nat /\ m = Base(userOp) + n
      /\ (userOp.version = "v0.7" => Base(userOp) = 2)
  BY BaseType DEF StackInv, BaseIs
<1> HIDE DEF m, t
<1>3. \A k \in 1..(m + 1) : k \in 1..m \/ k = m + 1
  BY <1>1
<1>4. /\ m + 1 \in 1..(m + 1) /\ m + 1 > Base(userOp) /\ \A k \in 1..m : k \in 1..(m + 1)
      /\ m + 1 = Base(userOp) + 1 <=> n = 0
      /\ n = 0 => \A k \in 1..m : ~ k > Base(userOp)
  BY <1>1, <1>2
<1>5. \A k \in 1..m : k > Base(userOp) =>
        CallIs(mistaken, s[k], k = Base(userOp) + 1 /\ paying)
  BY DEF StackInv, m
<1>6. ASSUME NEW k \in 1..(m + 1), k > Base(userOp)
      PROVE  CallIs(mistaken, t[k], k = Base(userOp) + 1 /\ pays)
  <2>1. CASE k \in 1..m
    <3>1. n > 0 /\ pays = paying
      BY <1>2, <1>4, <1>6, <2>1
    <3>2. CallIs(mistaken, s[k], k = Base(userOp) + 1 /\ paying)
      BY <1>5, <1>6, <2>1
    <3> QED BY <1>1, <2>1, <3>1, <3>2
  <2>2. CASE k = m + 1
    <3>1. t[k] = x /\ (k = Base(userOp) + 1 <=> n = 0)
      BY <1>1, <1>4, <2>2
    <3> QED BY <3>1 DEF CallIs
  <2> QED BY <1>3, <2>1, <2>2
<1>7. userOp.version = "v0.7" => t[1] = Delegate /\ t[2] = Simulate
  <2>1. userOp.version = "v0.7" => s[1] = Delegate /\ s[2] = Simulate
    BY DEF StackInv
  <2>2. userOp.version = "v0.7" => 1 \in 1..m /\ 2 \in 1..m
    BY <1>1, <1>2
  <2> QED BY <1>1, <2>1, <2>2
<1>8. StackInv(mistaken, userOp, t, n + 1, pays)
  <2>1. n + 1 \in Nat /\ m + 1 = Base(userOp) + (n + 1)
    BY <1>2
  <2> QED BY <1>1, <1>6, <1>7, <2>1 DEF StackInv
<1>10. ASSUME NEW rule
       PROVE  StackClean(rule, userOp, t) <=> StackClean(rule, userOp, s) /\ GoodCall(rule, x)
  <2>1. (\A k \in 1..(m + 1) : k > Base(userOp) => GoodCall(rule, t[k]))
          <=> (\A k \in 1..m : k > Base(userOp) => GoodCall(rule, s[k])) /\ GoodCall(rule, x)
    BY <1>1, <1>3, <1>4
  <2> QED BY <1>1, <2>1 DEF StackClean, m
<1> QED BY <1>8, <1>10 DEF t

\* One more call has returned.
LEMMA OutGrows ==
    ASSUME NEW mistaken, NEW s, NEW ended \in BOOLEAN, OutInv(mistaken, s, ended), NEW o,
           NEW ends \in BOOLEAN, ended => ends,
           "OP052" \notin mistaken => ~ IsNamed(o),
           "EREP050" \notin mistaken => (IsSought(o) => ends /\ ~ ended)
    PROVE  OutInv(mistaken, Append(s, o), ends)
<1> DEFINE m == Len(s)
           t == Append(s, o)
<1>1. /\ m \in Nat /\ IsSeq(t) /\ Len(t) = m + 1 /\ t[m + 1] = o
      /\ \A k \in 1..m : t[k] = s[k]
  BY SequenceGrows DEF OutInv
<1>2. \A k \in 1..m :
        /\ "OP052" \notin mistaken => ~ IsNamed(s[k])
        /\ "EREP050" \notin mistaken =>
             /\ IsSought(s[k]) => ended
             /\ \A j \in 1..m : IsSought(s[j]) /\ IsSought(s[k]) => j = k
  BY DEF OutInv
<1> HIDE DEF m, t
<1>3. /\ \A k \in 1..(m + 1) : k \in 1..m \/ k = m + 1
      /\ m + 1 \in 1..(m + 1) /\ \A k \in 1..m : k \in 1..(m + 1)
  BY <1>1
<1>4. \A k \in 1..(m + 1) :
        /\ "OP052" \notin mistaken => ~ IsNamed(t[k])
        /\ "EREP050" \notin mistaken =>
             /\ IsSought(t[k]) => ends
             /\ \A j \in 1..(m + 1) : IsSought(t[j]) /\ IsSought(t[k]) => j = k
  BY <1>1, <1>2, <1>3
<1>5. OutInv(mistaken, t, ends)
  BY <1>1, <1>4 DEF OutInv
<1> QED BY <1>5 DEF t

LEMMA OutJudged ==
    ASSUME NEW rule, NEW userOp, NEW s, IsSeq(s), NEW o
    PROVE  OutClean(rule, userOp, Append(s, o))
             <=> OutClean(rule, userOp, s) /\ GoodCall(rule, o) /\ GoodReturn(rule, userOp, o)
<1> DEFINE m == Len(s)
           t == Append(s, o)
           good(x) == GoodCall(rule, x) /\ GoodReturn(rule, userOp, x)
<1>1. /\ m \in Nat /\ Len(t) = m + 1 /\ t[m + 1] = o
      /\ \A k \in 1..m : t[k] = s[k]
  BY SequenceGrows
<1> HIDE DEF m, t, good
<1>2. /\ \A k \in 1..(m + 1) : k \in 1..m \/ k = m + 1
      /\ m + 1 \in 1..(m + 1) /\ \A k \in 1..m : k \in 1..(m + 1)
  BY <1>1
<1>3. (\A k \in 1..(m + 1) : good(t[k])) <=> (\A k \in 1..m : good(s[k])) /\ good(o)
  BY <1>1, <1>2
<1> QED BY <1>1, <1>3 DEF OutClean, m, t, good

LEMMA StackPopped ==
    ASSUME NEW mistaken, NEW userOp, NEW s, NEW n, NEW paying \in BOOLEAN,
           StackInv(mistaken, userOp, s, n, paying), n > 0
    PROVE  /\ StackInv(mistaken, userOp, Front(s), n - 1, paying)
           /\ \A rule : StackClean(rule, userOp, s)
                          <=> StackClean(rule, userOp, Front(s)) /\ GoodCall(rule, Last(s))
           /\ CallIs(mistaken, Last(s), n = 1 /\ paying)
<1> DEFINE m == Len(s)
           t == Front(s)
           x == s[m]
<1>0. n \in Nat /\ Base(userOp) \in Nat /\ m = Base(userOp) + n
      /\ (userOp.version = "v0.7" => Base(userOp) = 2)
  BY BaseType DEF StackInv, BaseIs
<1>01. m > 0 /\ IsSeq(s) /\ s # <<>>
  <2>1. m > 0
    <3> HIDE DEF m
    <3> QED BY <1>0
  <2> QED BY <2>1, SequenceEmpty DEF StackInv
<1>1. /\ m \in Nat /\ IsSeq(t) /\ Len(t) = m - 1
      /\ \A k \in 1..(m - 1) : t[k] = s[k]
  BY <1>01, SequenceFront
<1>2. \A k \in 1..m : k > Base(userOp) =>
        CallIs(mistaken, s[k], k = Base(userOp) + 1 /\ paying)
  BY DEF StackInv
<1>3. Last(s) = x
  BY DEF Last
<1> HIDE DEF m, t
<1>4. /\ m \in 1..m /\ m > Base(userOp) /\ \A k \in 1..(m - 1) : k \in 1..m
      /\ \A k \in 1..m : k \in 1..(m - 1) \/ k = m
      /\ m = Base(userOp) + 1 <=> n = 1
  BY <1>0, <1>01, <1>1
<1>5. CallIs(mistaken, x, n = 1 /\ paying)
  <2>1. CallIs(mistaken, s[m], m = Base(userOp) + 1 /\ paying)
    BY <1>2, <1>4
  <2> QED BY <1>4, <2>1 DEF CallIs
<1>8. StackInv(mistaken, userOp, t, n - 1, paying)
  <2>1. n - 1 \in Nat /\ m - 1 = Base(userOp) + (n - 1)
    BY <1>0
  <2>2. userOp.version = "v0.7" => t[1] = Delegate /\ t[2] = Simulate
    <3>1. userOp.version = "v0.7" => s[1] = Delegate /\ s[2] = Simulate
      BY DEF StackInv
    <3>2. userOp.version = "v0.7" => 1 \in 1..(m - 1) /\ 2 \in 1..(m - 1)
      BY <1>0
    <3> QED BY <1>1, <3>1, <3>2
  <2>3. \A k \in 1..(m - 1) : k > Base(userOp) =>
          CallIs(mistaken, t[k], k = Base(userOp) + 1 /\ paying)
    BY <1>1, <1>2, <1>4
  <2> QED BY <1>1, <2>1, <2>2, <2>3 DEF StackInv
<1>11. ASSUME NEW rule
       PROVE  StackClean(rule, userOp, s) <=> StackClean(rule, userOp, t) /\ GoodCall(rule, x)
  <2>1. (\A k \in 1..m : k > Base(userOp) => GoodCall(rule, s[k]))
          <=> (\A k \in 1..(m - 1) : k > Base(userOp) => GoodCall(rule, t[k]))
              /\ GoodCall(rule, x)
    BY <1>1, <1>4
  <2> QED BY <1>1, <2>1 DEF StackClean, m
<1> QED BY <1>3, <1>5, <1>8, <1>11 DEF m, t

LEMMA ReturnedIs ==
    ASSUME NEW p, NEW r
    PROVE  /\ DOMAIN Returned(p, r) = {"stack", "out"}
           /\ p.stack # <<>> =>
                /\ Returned(p, r).stack = Front(p.stack)
                /\ Returned(p, r).out = Append(p.out, OutOf(Last(p.stack), r))
           /\ p.stack = <<>> =>
                /\ Returned(p, r).stack = <<>>
                /\ Returned(p, r).out = Append(p.out, OutOf(TopCall, r))
BY DEF Returned, OutOf

\* How a call returns, if it is the paymaster's own.
WellReturned(rule, userOp, own, type, data) ==
    rule = "EREP050" /\ own /\ type = "RETURN" /\ data = "context"
      => isStaked(userOp.paymaster)

\* A call returns: r is how.
LEMMA CallsPopped ==
    ASSUME NEW mistaken, NEW userOp, NEW p, NEW n, NEW paying \in BOOLEAN, NEW ended \in BOOLEAN,
           CallsInv(mistaken, userOp, p, n, paying, ended), n > 0, NEW r,
           NEW ends \in BOOLEAN, ended => ends, n = 1 /\ paying => ends /\ ~ ended
    PROVE  /\ CallsInv(mistaken, userOp, Returned(p, r), n - 1, paying, ends)
           /\ \A rule : Told(mistaken, rule) =>
                (CallsClean(rule, userOp, Returned(p, r)) <=>
                   /\ CallsClean(rule, userOp, p)
                   /\ WellReturned(rule, userOp, n = 1 /\ paying, r.type, r.data))
<1> DEFINE x == Last(p.stack)
           o == OutOf(x, r)
           q == Returned(p, r)
<1>1. StackInv(mistaken, userOp, p.stack, n, paying) /\ OutInv(mistaken, p.out, ended)
  BY DEF CallsInv
<1>0. p.stack # <<>>
  <2>1. IsSeq(p.stack) /\ n \in Nat /\ Len(p.stack) = Base(userOp) + n /\ Base(userOp) \in Nat
    BY <1>1, BaseType DEF StackInv, BaseIs
  <2>2. Len(p.stack) # 0
    BY <2>1
  <2> QED BY <2>1, <2>2, SequenceEmpty
<1>2. /\ StackInv(mistaken, userOp, Front(p.stack), n - 1, paying)
      /\ \A rule : StackClean(rule, userOp, p.stack)
                     <=> StackClean(rule, userOp, Front(p.stack)) /\ GoodCall(rule, x)
      /\ CallIs(mistaken, x, n = 1 /\ paying)
  BY <1>1, StackPopped
<1>4. /\ DOMAIN q = {"stack", "out"} /\ q.stack = Front(p.stack)
      /\ q.out = Append(p.out, o)
  BY <1>0, ReturnedIs
<1> HIDE DEF x, q
<1>3. /\ o.to = x.to /\ o.from = x.from /\ o.method = x.method /\ o.value = x.value
      /\ o.return = IF r.type = "RETURN" THEN r.data ELSE ""
  BY <1>2 DEF OutOf, CallIs
<1> HIDE DEF o
<1>5. OutInv(mistaken, Append(p.out, o), ends)
  <2>1. /\ "OP052" \notin mistaken => ~ IsNamed(o)
        /\ "EREP050" \notin mistaken => (IsSought(o) => ends /\ ~ ended)
    BY <1>2, <1>3 DEF CallIs, IsNamed, IsSought
  <2> QED BY <1>1, <2>1, OutGrows
<1>9. ASSUME NEW rule, Told(mistaken, rule)
      PROVE  CallsClean(rule, userOp, q) <=>
               /\ CallsClean(rule, userOp, p)
               /\ WellReturned(rule, userOp, n = 1 /\ paying, r.type, r.data)
  <2>1. OutClean(rule, userOp, Append(p.out, o))
          <=> OutClean(rule, userOp, p.out) /\ GoodCall(rule, o) /\ GoodReturn(rule, userOp, o)
    BY <1>1, OutJudged DEF OutInv
  <2>2. GoodCall(rule, o) <=> GoodCall(rule, x)
    BY <1>3 DEF GoodCall
  <2>3. rule = "EREP050" => (IsSought(o) <=> n = 1 /\ paying)
    BY <1>2, <1>3, <1>9 DEF Told, CallIs, IsSought
  <2>4. GoodReturn(rule, userOp, o) <=> WellReturned(rule, userOp, n = 1 /\ paying, r.type, r.data)
    BY <1>3, <2>3 DEF GoodReturn, WellReturned
  <2> QED BY <1>2, <1>4, <2>1, <2>2, <2>4 DEF CallsClean
<1>8. CallsInv(mistaken, userOp, q, n - 1, paying, ends)
  BY <1>2, <1>4, <1>5 DEF CallsInv
<1> QED BY <1>8, <1>9 DEF q

Pushed(p, x) == [p EXCEPT !.stack = Append(@, x)]

\* A call is made.
LEMMA CallsPushed ==
    ASSUME NEW mistaken, NEW userOp, NEW p, NEW n, NEW paying \in BOOLEAN, NEW ended \in BOOLEAN,
           CallsInv(mistaken, userOp, p, n, paying, ended), NEW x, NEW pays \in BOOLEAN,
           CallIs(mistaken, x, n = 0 /\ pays), n > 0 => pays = paying
    PROVE  /\ CallsInv(mistaken, userOp, Pushed(p, x), n + 1, pays, ended)
           /\ \A rule : CallsClean(rule, userOp, Pushed(p, x))
                          <=> CallsClean(rule, userOp, p) /\ GoodCall(rule, x)
<1> DEFINE q == Pushed(p, x)
<1>1. StackInv(mistaken, userOp, p.stack, n, paying) /\ OutInv(mistaken, p.out, ended)
  BY DEF CallsInv
<1>2. /\ StackInv(mistaken, userOp, Append(p.stack, x), n + 1, pays)
      /\ \A rule : StackClean(rule, userOp, Append(p.stack, x))
                     <=> StackClean(rule, userOp, p.stack) /\ GoodCall(rule, x)
  BY <1>1, StackPushed
<1>3. DOMAIN q = {"stack", "out"} /\ q.stack = Append(p.stack, x) /\ q.out = p.out
  BY DEF Pushed, CallsInv
<1> HIDE DEF q
<1>4. /\ CallsInv(mistaken, userOp, q, n + 1, pays, ended)
      /\ \A rule : CallsClean(rule, userOp, q)
                     <=> CallsClean(rule, userOp, p) /\ GoodCall(rule, x)
  BY <1>1, <1>2, <1>3 DEF CallsInv, CallsClean
<1> QED BY <1>4 DEF q

\* A call, a return and a CREATE, as the collector notes them and they are parsed.
EnterSays(mistaken, userOp, c, n, paying, ended, type, from, i, pays) ==
    LET x == Entering(type, from, i)
        d == enter(c, x)
    IN  /\ CallsInv(mistaken, userOp, parseCalls(d.calls), n + 1, pays, ended)
        /\ \A rule : CallsClean(rule, userOp, parseCalls(d.calls))
                       <=> CallsClean(rule, userOp, parseCalls(c.calls)) /\ GoodCall(rule, x)

\* The simulation of a call, and what is parsed of it.
LEMMA EnterParsed ==
    ASSUME NEW mistaken, NEW userOp, NEW c, Collected(c), NEW n, NEW paying \in BOOLEAN,
           NEW ended \in BOOLEAN, CallsInv(mistaken, userOp, parseCalls(c.calls), n, paying, ended),
           NEW type \in Calls, NEW from, NEW i, NEW pays \in BOOLEAN,
           n > 0 => pays = paying, CallIs(mistaken, Entering(type, from, i), n = 0 /\ pays)
    PROVE  EnterSays(mistaken, userOp, c, n, paying, ended, type, from, i, pays)
<1> DEFINE x == Entering(type, from, i)
           p == parseCalls(c.calls)
           d == enter(c, x)
           q == Pushed(p, x)
<1>1. /\ x.type = type /\ CallIs(mistaken, x, n = 0 /\ pays)
      /\ x = [type |-> x.type, from |-> x.from, to |-> x.to, method |-> x.method,
              value |-> x.value]
  BY DEF Entering
<1>2. DOMAIN c = TraceFields /\ IsSeq(c.calls)
  BY DEF Collected
<1> HIDE DEF x
<1>3. d.calls = Append(c.calls, x)
  BY <1>1, <1>2 DEF enter, TraceFields
<1>4. x.type \notin Returning
  BY <1>1 DEF Calls, Returning
<1>5. parseCalls(Append(c.calls, x)) = Parsing(p, x)
  BY <1>2, ParsedAppended
<1>6. Parsing(p, x) = q
  BY <1>4 DEF Parsing, Pushed
<1> HIDE DEF p, d
<1>7. CallsInv(mistaken, userOp, p, n, paying, ended)
  BY DEF p
<1>8. /\ CallsInv(mistaken, userOp, q, n + 1, pays, ended)
      /\ \A rule : CallsClean(rule, userOp, q)
                     <=> CallsClean(rule, userOp, p) /\ GoodCall(rule, x)
  BY <1>1, <1>7, CallsPushed
<1> HIDE DEF q
<1>9. /\ CallsInv(mistaken, userOp, parseCalls(d.calls), n + 1, pays, ended)
      /\ \A rule : CallsClean(rule, userOp, parseCalls(d.calls))
                     <=> CallsClean(rule, userOp, parseCalls(c.calls)) /\ GoodCall(rule, x)
  BY <1>3, <1>5, <1>6, <1>8 DEF p
<1> QED BY <1>9 DEF d, x, EnterSays

LEMMA ExitCalls ==
    ASSUME NEW c, Collected(c), NEW type \in Returning, NEW data
    PROVE  /\ exit(c, type, data).calls = Append(c.calls, [type |-> type, data |-> data])
           /\ parseCalls(exit(c, type, data).calls)
                = Returned(parseCalls(c.calls), [type |-> type, data |-> data])
<1> DEFINE x == [type |-> type, data |-> data]
           d == exit(c, type, data)
<1>1. DOMAIN c = TraceFields /\ IsSeq(c.calls)
  BY DEF Collected
<1>2. d.calls = Append(c.calls, x)
  BY <1>1 DEF exit, TraceFields
<1>3. x.type \in Returning
  OBVIOUS
<1> HIDE DEF x, d
<1>4. parseCalls(Append(c.calls, x)) = Parsing(parseCalls(c.calls), x)
  BY <1>1, ParsedAppended
<1>5. parseCalls(d.calls) = Returned(parseCalls(c.calls), x)
  BY <1>2, <1>3, <1>4 DEF Parsing
<1> QED BY <1>2, <1>5 DEF x, d

ExitSays(mistaken, userOp, c, n, paying, ended, type, data, ends) ==
    LET d == exit(c, type, data)
    IN  /\ CallsInv(mistaken, userOp, parseCalls(d.calls), n - 1, paying, ends)
        /\ \A rule : Told(mistaken, rule) =>
             (CallsClean(rule, userOp, parseCalls(d.calls)) <=>
                /\ CallsClean(rule, userOp, parseCalls(c.calls))
                /\ WellReturned(rule, userOp, n = 1 /\ paying, type, data))

LEMMA ExitParsed ==
    ASSUME NEW mistaken, NEW userOp, NEW c, Collected(c), NEW n, NEW paying \in BOOLEAN,
           NEW ended \in BOOLEAN, CallsInv(mistaken, userOp, parseCalls(c.calls), n, paying, ended),
           n > 0, NEW type \in Returning, NEW data,
           NEW ends \in BOOLEAN, ended => ends, n = 1 /\ paying => ends /\ ~ ended
    PROVE  ExitSays(mistaken, userOp, c, n, paying, ended, type, data, ends)
<1> DEFINE p == parseCalls(c.calls)
           r == [type |-> type, data |-> data]
           q == Returned(p, r)
<1>1. parseCalls(exit(c, type, data).calls) = q
  BY ExitCalls
<1>2. r.type = type /\ r.data = data
  OBVIOUS
<1> HIDE DEF p, r
<1>3. CallsInv(mistaken, userOp, p, n, paying, ended)
  BY DEF p
<1>4. /\ CallsInv(mistaken, userOp, q, n - 1, paying, ends)
      /\ \A rule : Told(mistaken, rule) =>
           (CallsClean(rule, userOp, q) <=>
              /\ CallsClean(rule, userOp, p)
              /\ WellReturned(rule, userOp, n = 1 /\ paying, r.type, r.data))
  BY <1>3, CallsPopped
<1> HIDE DEF q
<1> QED BY <1>1, <1>2, <1>4 DEF p, ExitSays

LEMMA FrontAppended ==
    ASSUME NEW q, IsSeq(q), NEW x
    PROVE  /\ Append(q, x) # <<>> /\ IsSeq(Append(q, x))
           /\ Front(Append(q, x)) = q /\ Last(Append(q, x)) = x
<1>1. PICK S : q \in Seq(S)
  BY DEF IsSeq
<1> DEFINE T == S \cup {x}
           t == Append(q, x)
<1>2. q \in Seq(T) /\ x \in T
  BY <1>1
<1> HIDE DEF T
<1>3. /\ t \in Seq(T) /\ Len(t) = Len(q) + 1 /\ Len(q) \in Nat
      /\ t[Len(q) + 1] = x /\ \A k \in 1..Len(q) : t[k] = q[k]
  BY <1>2
<1> HIDE DEF t
<1>4. Len(t) - 1 = Len(q) /\ t # <<>>
  BY <1>3
<1>5. Front(t) = SubSeq(t, 1, Len(q)) /\ Last(t) = x
  BY <1>3, <1>4 DEF Front, Last
<1>6. SubSeq(t, 1, Len(q)) = q
  BY <1>2, <1>3
<1> QED BY <1>3, <1>4, <1>5, <1>6 DEF t, IsSeq

CreateSays(mistaken, userOp, c, n, paying, ended, from, i) ==
    LET d == exit(enter(c, Entering("CREATE2", from, i)), "RETURN", "")
    IN  /\ CallsInv(mistaken, userOp, parseCalls(d.calls), n, paying, ended)
        /\ \A rule : CallsClean(rule, userOp, parseCalls(d.calls))
                       <=> CallsClean(rule, userOp, parseCalls(c.calls))

\* A contract is created.
LEMMA CreateParsed ==
    ASSUME NEW mistaken, NEW userOp, NEW c, Collected(c), NEW n, NEW paying \in BOOLEAN,
           NEW ended \in BOOLEAN, CallsInv(mistaken, userOp, parseCalls(c.calls), n, paying, ended),
           NEW from, NEW i, i.to # "entryPoint"
    PROVE  CreateSays(mistaken, userOp, c, n, paying, ended, from, i)
<1> DEFINE x == Entering("CREATE2", from, i)
           d == exit(enter(c, x), "RETURN", "")
           p == parseCalls(c.calls)
           b == enter(c, x)
           m == [p EXCEPT !.stack = Append(p.stack, x)]
           r == [type |-> "RETURN", data |-> ""]
           o == OutOf(x, r)
<1>1. /\ x.type = "CREATE2" /\ x.to = i.to /\ x.from = from
      /\ x = [type |-> x.type, from |-> x.from, to |-> x.to, method |-> x.method,
              value |-> x.value]
  BY DEF Entering
<1>2. /\ DOMAIN c = TraceFields /\ IsSeq(c.calls) /\ DOMAIN p = {"stack", "out"}
      /\ IsSeq(p.stack) /\ OutInv(mistaken, p.out, ended)
      /\ StackInv(mistaken, userOp, p.stack, n, paying)
  BY DEF Collected, CallsInv, StackInv
<1> HIDE DEF x
<1>3. b.calls = Append(c.calls, x)
  BY <1>1, <1>2 DEF enter, TraceFields
<1>4. parseCalls(Append(c.calls, x)) = Parsing(p, x)
  BY <1>2, ParsedAppended
<1>5. Parsing(p, x) = m
  BY <1>1 DEF Parsing, Returning
<1>6. Collected(b)
  BY CallsNoted DEF SameLevels
<1> HIDE DEF p, b
<1>7. m.stack = Append(p.stack, x) /\ m.out = p.out
  BY <1>2
<1> HIDE DEF m
<1>8. parseCalls(d.calls) = Returned(m, r)
  <2>1. parseCalls(exit(b, "RETURN", "").calls) = Returned(parseCalls(b.calls), r)
    BY <1>6, ExitCalls DEF Returning
  <2>2. d = exit(b, "RETURN", "")
    BY DEF b, x
  <2> QED BY <1>3, <1>4, <1>5, <2>1, <2>2
<1>9. m.stack # <<>> /\ Front(m.stack) = p.stack /\ Last(m.stack) = x
  BY <1>2, <1>7, FrontAppended
<1> DEFINE q == Returned(m, r)
<1>10. DOMAIN q = {"stack", "out"} /\ q.stack = p.stack /\ q.out = Append(p.out, o)
  BY <1>7, <1>9, ReturnedIs
<1> HIDE DEF q, r
<1>11. o.to = i.to /\ o.method = "" /\ o.value = 0
  BY <1>1 DEF OutOf
<1> HIDE DEF o
<1>12. OutInv(mistaken, Append(p.out, o), ended)
  <2>1. ~ IsNamed(o) /\ ~ IsSought(o)
    BY <1>11 DEF IsNamed, IsSought, Sought
  <2>2. OutInv(mistaken, p.out, ended)
    BY <1>2
  <2> QED BY <2>1, <2>2, OutGrows
<1>13. ASSUME NEW rule
       PROVE  OutClean(rule, userOp, Append(p.out, o)) <=> OutClean(rule, userOp, p.out)
  <2>1. GoodCall(rule, o) /\ GoodReturn(rule, userOp, o)
    BY <1>11 DEF GoodCall, GoodReturn, IsSought, Sought
  <2>2. OutClean(rule, userOp, Append(p.out, o))
          <=> OutClean(rule, userOp, p.out) /\ GoodCall(rule, o) /\ GoodReturn(rule, userOp, o)
    BY <1>2, OutJudged DEF OutInv
  <2> QED BY <2>1, <2>2
<1>14. /\ CallsInv(mistaken, userOp, q, n, paying, ended)
       /\ \A rule : CallsClean(rule, userOp, q) <=> CallsClean(rule, userOp, p)
  BY <1>2, <1>10, <1>12, <1>13 DEF CallsInv, CallsClean
<1>15. /\ CallsInv(mistaken, userOp, parseCalls(d.calls), n, paying, ended)
       /\ \A rule : CallsClean(rule, userOp, parseCalls(d.calls))
                      <=> CallsClean(rule, userOp, parseCalls(c.calls))
  BY <1>8, <1>14 DEF p, q
<1> QED BY <1>15 DEF CreateSays, d, x

\* What is known of the calls is known if more may be taken for others.
LEMMA CallsMore ==
    ASSUME NEW mistaken, NEW more, mistaken \subseteq more, NEW userOp, NEW p, NEW n, NEW paying,
           NEW ended, CallsInv(mistaken, userOp, p, n, paying, ended)
    PROVE  CallsInv(more, userOp, p, n, paying, ended)
<1>1. \A x, own : CallIs(mistaken, x, own) => CallIs(more, x, own)
  BY DEF CallIs
<1>2. StackInv(more, userOp, p.stack, n, paying)
  BY <1>1 DEF CallsInv, StackInv
<1>3. OutInv(more, p.out, ended)
  BY DEF CallsInv, OutInv
<1> QED BY <1>2, <1>3 DEF CallsInv

-----------------------------------------------------------------------------
(* The rules, said of a level, and what an instruction does to them.       *)

BannedOf(userOp, e) ==
    IF userOp.version = "v0.6" THEN bannedOpCodesV06
    ELSE bannedOpCodesV07 \ (IF isStaked(userOp[e]) THEN {"BALANCE", "SELFBALANCE"} ELSE {})

OpcodesClean(userOp, e, l) ==
    BagToSet(l.opcodes) \cap BannedOf(userOp, e) = {} /\ ~ tooManyCreate2(e, l)

Allowed(userOp, e, access, writes) ==
    \/ access.address \in {"account", "entryPoint"}
    \/ /\ Belongs(access.slot, "account")
       /\ userOp.factory = "absent" \/ (e = "account" /\ isStaked(userOp.factory))
    \/ /\ isStaked(userOp[e])
       /\ \/ access \notin writes \/ access.address = e
          \/ Belongs(access.slot, "account") \/ Belongs(access.slot, e)

AccessClean(userOp, e, l) == \A access \in Accessed(l) : Allowed(userOp, e, access, l.writes)

\* A level's opcodes, accesses, contracts' code and gas follow the rules.
LevelClean(userOp, e, l) ==
    /\ ~ l.oog
    /\ OpcodesClean(userOp, e, l)
    /\ AccessClean(userOp, e, l)
    /\ \A x \in l.contractSize : x.address # "nobody"
    /\ "entryPoint" \notin l.extCodeAccessInfo

\* A level of the collector's.
LevelOk(l, slots) ==
    /\ DOMAIN l = LevelFields /\ l.oog \in BOOLEAN
    /\ "CREATE2" \in DOMAIN l.opcodes => l.opcodes["CREATE2"] \in Nat \ {0}
    /\ \A access \in Accessed(l) :
         access.slot \in Slot /\ (access.slot.base = "keccak" => access.slot.of \in slots)
    /\ \A x \in l.contractSize : x.address # "account" => (x.empty <=> x.address = "nobody")

GasOf(lastOp, opcode) == IF lastOp = "GAS" /\ opcode \notin NamedCall THEN {"GAS"} ELSE {}
CountedOf(opcode) == IF opcode \in Unimportant \cup {"GAS"} THEN {} ELSE {opcode}

AddingTo(opcodes, lastOp, opcode) ==
    (opcodes (+) SetToBag(GasOf(lastOp, opcode))) (+) SetToBag(CountedOf(opcode))

Place(s) == [address |-> s.owner, slot |-> s.slot]

LevelAfter(l, recent, lastOp, s) ==
    withAccess(withOpcode(withContractSize(withExtCodeAccess(l, recent), s), lastOp, s), s)

Looked(recent) ==
    /\ Len(recent) > 1
    /\ recent[Len(recent) - 1].opcode \in ExtCode
    /\ ~ (/\ Len(recent) = 3 /\ recent[2].opcode = "EXTCODESIZE"
          /\ recent[3].opcode = "ISZERO")

NewSize(l, s) ==
    /\ s.opcode \in Calls \cup ExtCode /\ s.address # "precompile"
    /\ \A x \in l.contractSize : x.address # s.address

\* What a step does to each part of a level.
Parts(l, recent, lastOp, s, m) ==
    /\ DOMAIN m = LevelFields
    /\ m.topLevelMethodSig = l.topLevelMethodSig /\ m.oog = l.oog
    /\ m.opcodes = AddingTo(l.opcodes, lastOp, s.opcode)
    /\ m.extCodeAccessInfo =
         IF Looked(recent) THEN l.extCodeAccessInfo \cup {recent[Len(recent) - 1].address}
         ELSE l.extCodeAccessInfo
    /\ m.contractSize =
         IF NewSize(l, s)
         THEN l.contractSize \cup {[address |-> s.address, empty |-> ~ s.hasCode]}
         ELSE l.contractSize
    /\ m.writes = IF s.opcode = "SSTORE" THEN l.writes \cup {Place(s)} ELSE l.writes
    /\ Accessed(m) = IF s.opcode \in {"SLOAD", "SSTORE"} THEN Accessed(l) \cup {Place(s)}
                     ELSE Accessed(l)

\* What an opcode does to each part of a level.
LEMMA LevelParts ==
    ASSUME NEW l, DOMAIN l = LevelFields, NEW recent, NEW lastOp, NEW s
    PROVE  Parts(l, recent, lastOp, s, LevelAfter(l, recent, lastOp, s))
<1> DEFINE same(x, y) == /\ y.topLevelMethodSig = x.topLevelMethodSig /\ y.oog = x.oog
                         /\ DOMAIN y = LevelFields
           m == LevelAfter(l, recent, lastOp, s)
           a == withExtCodeAccess(l, recent)
           b == withContractSize(a, s)
           d == withOpcode(b, lastOp, s)
           more == {[address |-> s.address, empty |-> ~ s.hasCode]}
           read == [address |-> s.owner, slot |-> s.slot, value |-> s.value]
           known == \/ Place(s) \in l.writes
                    \/ \E r \in l.reads : r.address = s.owner /\ r.slot = s.slot
<1> HIDE DEF more
<1>1. /\ same(l, a) /\ a.contractSize = l.contractSize /\ a.opcodes = l.opcodes
      /\ a.reads = l.reads /\ a.writes = l.writes
      /\ a.extCodeAccessInfo =
           IF Looked(recent) THEN l.extCodeAccessInfo \cup {recent[Len(recent) - 1].address}
           ELSE l.extCodeAccessInfo
  BY DEF withExtCodeAccess, LevelFields, Looked
<1> HIDE DEF a
<1>2. /\ same(a, b) /\ b.opcodes = a.opcodes /\ b.reads = a.reads /\ b.writes = a.writes
      /\ b.extCodeAccessInfo = a.extCodeAccessInfo
      /\ b.contractSize = IF NewSize(l, s) THEN a.contractSize \cup more ELSE a.contractSize
  BY <1>1 DEF withContractSize, LevelFields, NewSize, more
<1> HIDE DEF b
<1>3. /\ same(b, d) /\ d.contractSize = b.contractSize /\ d.reads = b.reads /\ d.writes = b.writes
      /\ d.extCodeAccessInfo = b.extCodeAccessInfo
      /\ d.opcodes = AddingTo(b.opcodes, lastOp, s.opcode)
  BY <1>2 DEF withOpcode, LevelFields, AddingTo, GasOf, CountedOf
<1> HIDE DEF d
<1>4. m = withAccess(d, s)
  BY DEF LevelAfter, d, b, a
<1> HIDE DEF m
<1>5. /\ same(d, m) /\ m.contractSize = d.contractSize /\ m.opcodes = d.opcodes
      /\ m.extCodeAccessInfo = d.extCodeAccessInfo
      /\ m.writes = IF s.opcode = "SSTORE" THEN d.writes \cup {Place(s)} ELSE d.writes
      /\ m.reads = IF s.opcode = "SLOAD" /\ ~ known THEN d.reads \cup {read} ELSE d.reads
  BY <1>1, <1>2, <1>3, <1>4 DEF withAccess, LevelFields, Place
<1>6. Accessed(m) = IF s.opcode \in {"SLOAD", "SSTORE"} THEN Accessed(l) \cup {Place(s)}
                    ELSE Accessed(l)
  <2> DEFINE P(reads) == {[address |-> r.address, slot |-> r.slot] : r \in reads}
  <2>1. /\ d.reads = l.reads /\ d.writes = l.writes
        /\ Accessed(l) = l.writes \cup P(l.reads) /\ Accessed(m) = m.writes \cup P(m.reads)
    BY <1>1, <1>2, <1>3 DEF Accessed
  <2>2. P(l.reads \cup {read}) = P(l.reads) \cup {Place(s)}
    <3>1. read.address = s.owner /\ read.slot = s.slot
      OBVIOUS
    <3> HIDE DEF read
    <3> QED BY <3>1 DEF Place
  <2>3. known => Place(s) \in l.writes \cup P(l.reads)
    BY DEF Place
  <2> HIDE DEF P, known
  <2>4. CASE s.opcode = "SLOAD" /\ known
    BY <1>5, <2>1, <2>3, <2>4
  <2>5. CASE s.opcode = "SLOAD" /\ ~ known
    BY <1>5, <2>1, <2>2, <2>5
  <2>6. CASE s.opcode = "SSTORE"
    BY <1>5, <2>1, <2>6
  <2>7. CASE s.opcode \notin {"SLOAD", "SSTORE"}
    BY <1>5, <2>1, <2>7
  <2> QED BY <2>4, <2>5, <2>6, <2>7
<1> HIDE DEF known, read
<1>7. Parts(l, recent, lastOp, s, m)
  BY <1>1, <1>2, <1>3, <1>5, <1>6 DEF Parts, more
<1> QED BY <1>7 DEF m

LEMMA BagGrows ==
    ASSUME NEW b, NEW k
    PROVE  /\ DOMAIN (b (+) SetToBag(k)) = DOMAIN b \cup k
           /\ \A x \in DOMAIN b \cup k :
                (b (+) SetToBag(k))[x] = (IF x \in DOMAIN b THEN b[x] ELSE 0)
                                             + (IF x \in k THEN 1 ELSE 0)
BY DEF (+), SetToBag

\* CREATE2 is counted whenever it runs.
LEMMA Counting ==
    ASSUME NEW b, "CREATE2" \in DOMAIN b => b["CREATE2"] \in Nat \ {0},
           NEW lastOp, NEW opcode
    PROVE  /\ DOMAIN AddingTo(b, lastOp, opcode)
                = DOMAIN b \cup GasOf(lastOp, opcode) \cup CountedOf(opcode)
           /\ "CREATE2" \in DOMAIN AddingTo(b, lastOp, opcode)
                <=> "CREATE2" \in DOMAIN b \/ opcode = "CREATE2"
           /\ "CREATE2" \in DOMAIN AddingTo(b, lastOp, opcode) =>
                AddingTo(b, lastOp, opcode)["CREATE2"] =
                    (IF "CREATE2" \in DOMAIN b THEN b["CREATE2"] ELSE 0)
                        + (IF opcode = "CREATE2" THEN 1 ELSE 0)
<1> DEFINE g == GasOf(lastOp, opcode)
           k == CountedOf(opcode)
           c == b (+) SetToBag(g)
           d == c (+) SetToBag(k)
<1>1. "CREATE2" \notin g /\ ("CREATE2" \in k <=> opcode = "CREATE2")
  BY DEF GasOf, CountedOf, Unimportant
<1> HIDE DEF g, k
<1>2. /\ DOMAIN c = DOMAIN b \cup g
      /\ "CREATE2" \in DOMAIN b => c["CREATE2"] = b["CREATE2"] + 0
  BY <1>1, BagGrows
<1> HIDE DEF c
<1>3. /\ DOMAIN d = DOMAIN c \cup k
      /\ "CREATE2" \in DOMAIN c \cup k =>
           d["CREATE2"] = (IF "CREATE2" \in DOMAIN c THEN c["CREATE2"] ELSE 0)
                             + (IF "CREATE2" \in k THEN 1 ELSE 0)
  BY BagGrows
<1> HIDE DEF d
<1>4. "CREATE2" \in DOMAIN b => c["CREATE2"] = b["CREATE2"]
  BY <1>2
<1>5. AddingTo(b, lastOp, opcode) = d
  BY DEF AddingTo, d, c, g, k
<1>6. /\ DOMAIN d = DOMAIN b \cup g \cup k
      /\ "CREATE2" \in DOMAIN d <=> "CREATE2" \in DOMAIN b \/ opcode = "CREATE2"
      /\ "CREATE2" \in DOMAIN c <=> "CREATE2" \in DOMAIN b
  BY <1>1, <1>2, <1>3
<1>7. "CREATE2" \in DOMAIN d => d["CREATE2"] =
                    (IF "CREATE2" \in DOMAIN b THEN b["CREATE2"] ELSE 0)
                        + (IF opcode = "CREATE2" THEN 1 ELSE 0)
  BY <1>1, <1>3, <1>4, <1>6
<1> QED BY <1>5, <1>6, <1>7 DEF g, k

OpcodesSay(l, m, lastOp, opcode) ==
    /\ "CREATE2" \in DOMAIN m.opcodes => m.opcodes["CREATE2"] \in Nat \ {0}
    /\ "CREATE2" \in DOMAIN m.opcodes
         <=> "CREATE2" \in DOMAIN l.opcodes \/ opcode = "CREATE2"
    /\ OpcodesClean(op, Entity, m) <=>
         /\ OpcodesClean(op, Entity, l)
         /\ ~ Banned(opcode)
         /\ ~ (lastOp = "GAS" /\ opcode \notin NamedCall)
         /\ ~ (opcode = "CREATE2"
               /\ ~ (Entity = "factory" /\ "CREATE2" \notin DOMAIN l.opcodes))

\* What an instruction that is neither CREATE nor SELFDESTRUCT says of it.
LEMMA OpcodesExact ==
    ASSUME op \in Operations, NEW l, LevelOk(l, hashed), NEW m, NEW lastOp, NEW opcode,
           m.opcodes = AddingTo(l.opcodes, lastOp, opcode),
           opcode \notin {"CREATE", "SELFDESTRUCT"}
    PROVE  OpcodesSay(l, m, lastOp, opcode)
<1> DEFINE b == l.opcodes
           d == m.opcodes
           e == Entity
           n == IF "CREATE2" \in DOMAIN b THEN b["CREATE2"] ELSE 0
<1>1. "CREATE2" \in DOMAIN b => b["CREATE2"] \in Nat \ {0}
  BY DEF LevelOk
<1>3. /\ OpcodesClean(op, e, l) <=> /\ DOMAIN b \cap BannedOf(op, e) = {}
                                /\ ~ ("CREATE2" \in DOMAIN b
                                      /\ (e = "factory" => b["CREATE2"] > 1))
      /\ OpcodesClean(op, e, m) <=> /\ DOMAIN d \cap BannedOf(op, e) = {}
                                /\ ~ ("CREATE2" \in DOMAIN d
                                      /\ (e = "factory" => d["CREATE2"] > 1))
  BY DEF OpcodesClean, BagToSet, tooManyCreate2, BagIn
<1>4. op.version \in {"v0.6", "v0.7"}
  BY ValidationAssumption DEF Operation
<1>5. /\ "GAS" \in BannedOf(op, e) /\ "CREATE2" \notin BannedOf(op, e)
      /\ opcode \notin {"CREATE", "SELFDESTRUCT", "GAS"} =>
           (opcode \in BannedOf(op, e) <=> Banned(opcode))
      /\ ~ Banned("GAS")
      /\ opcode \in Unimportant => ~ Banned(opcode)
  BY <1>4 DEF BannedOf, Banned, bannedOpCodesV06, bannedOpCodesV07, Unimportant
<1>8. d = AddingTo(b, lastOp, opcode)
  OBVIOUS
<1> HIDE DEF b, d, e
<1>2. /\ DOMAIN d = DOMAIN b \cup GasOf(lastOp, opcode) \cup CountedOf(opcode)
      /\ "CREATE2" \in DOMAIN d <=> "CREATE2" \in DOMAIN b \/ opcode = "CREATE2"
      /\ "CREATE2" \in DOMAIN d => d["CREATE2"] = n + (IF opcode = "CREATE2" THEN 1 ELSE 0)
  BY <1>1, <1>8, Counting
<1>6. DOMAIN d \cap BannedOf(op, e) = {} <=>
        /\ DOMAIN b \cap BannedOf(op, e) = {}
        /\ ~ Banned(opcode) /\ ~ (lastOp = "GAS" /\ opcode \notin NamedCall)
  BY <1>2, <1>5 DEF GasOf, CountedOf
<1>7. /\ "CREATE2" \in DOMAIN d => d["CREATE2"] \in Nat \ {0}
      /\ ~ ("CREATE2" \in DOMAIN d /\ (e = "factory" => d["CREATE2"] > 1)) <=>
           /\ ~ ("CREATE2" \in DOMAIN b /\ (e = "factory" => b["CREATE2"] > 1))
           /\ ~ (opcode = "CREATE2" /\ ~ (e = "factory" /\ "CREATE2" \notin DOMAIN b))
  BY <1>1, <1>2
<1> HIDE DEF n
<1> QED BY <1>2, <1>3, <1>6, <1>7 DEF b, d, e, OpcodesSay

AccessSays(l, m, s) ==
    AccessClean(op, Entity, m) <=>
        /\ AccessClean(op, Entity, l)
        /\ ~ (s.opcode \in {"SLOAD", "SSTORE"} /\ ~ MayAccess(s.opcode, s.slot, s.owner))

\* What it accesses.
LEMMA AccessExact ==
    ASSUME NEW l, NEW m, NEW s,
           m.writes = IF s.opcode = "SSTORE" THEN l.writes \cup {Place(s)} ELSE l.writes,
           Accessed(m) = IF s.opcode \in {"SLOAD", "SSTORE"} THEN Accessed(l) \cup {Place(s)}
                         ELSE Accessed(l)
    PROVE  AccessSays(l, m, s)
<1> DEFINE e == Entity
           place == Place(s)
<1>1. place.address = s.owner /\ place.slot = s.slot
  BY DEF Place
<1>2. l.writes \subseteq Accessed(l)
  BY DEF Accessed
<1> HIDE DEF place
<1>3. CASE s.opcode = "SLOAD"
  <2>1. m.writes = l.writes /\ Accessed(m) = Accessed(l) \cup {place}
    BY <1>3 DEF place
  <2>2. Allowed(op, e, place, l.writes) => MayAccess(s.opcode, s.slot, s.owner)
    BY <1>1, <1>3 DEF Allowed, MayAccess
  <2>3. MayAccess(s.opcode, s.slot, s.owner) /\ place \notin l.writes
          => Allowed(op, e, place, l.writes)
    BY <1>1, <1>3 DEF Allowed, MayAccess
  <2> HIDE DEF e
  <2>4. AccessClean(op, e, m) <=> AccessClean(op, e, l) /\ Allowed(op, e, place, l.writes)
    BY <2>1 DEF AccessClean
  <2>5. AccessClean(op, e, l) /\ place \in l.writes => Allowed(op, e, place, l.writes)
    BY <1>2 DEF AccessClean
  <2> QED BY <1>3, <2>2, <2>3, <2>4, <2>5 DEF e, AccessSays
<1>4. CASE s.opcode = "SSTORE"
  <2>1. m.writes = l.writes \cup {place} /\ Accessed(m) = Accessed(l) \cup {place}
    BY <1>4 DEF place
  <2>2. Allowed(op, e, place, m.writes) <=> MayAccess(s.opcode, s.slot, s.owner)
    BY <1>1, <1>4, <2>1 DEF Allowed, MayAccess
  <2>3. \A access : access # place =>
          (Allowed(op, e, access, m.writes) <=> Allowed(op, e, access, l.writes))
    BY <2>1 DEF Allowed
  <2>4. Allowed(op, e, place, m.writes) => Allowed(op, e, place, l.writes)
    BY <2>1 DEF Allowed
  <2> HIDE DEF e
  <2>5. AccessClean(op, e, m) <=> AccessClean(op, e, l) /\ Allowed(op, e, place, m.writes)
    BY <2>1, <2>3, <2>4 DEF AccessClean
  <2> QED BY <1>4, <2>2, <2>5 DEF e, AccessSays
<1>5. CASE s.opcode \notin {"SLOAD", "SSTORE"}
  BY <1>5 DEF AccessClean, AccessSays
<1> QED BY <1>3, <1>4, <1>5

\* The collector remembers that the opcode o was last, with the address t.
RecentIs(c, o, t) ==
    /\ c.lastOp = "GAS" <=> o = "GAS"
    /\ IsSeq(c.lastThreeOpcodes) /\ Len(c.lastThreeOpcodes) =< 3
    /\ o \in ExtCode =>
         /\ Len(c.lastThreeOpcodes) >= 2
         /\ c.lastThreeOpcodes[Len(c.lastThreeOpcodes)] = [opcode |-> o, address |-> t]
    /\ Len(c.lastThreeOpcodes) > 0
         /\ c.lastThreeOpcodes[Len(c.lastThreeOpcodes)].opcode \in ExtCode => o \in ExtCode

RecentAfter(c, s) == IF s.opcode \in Returning THEN <<>> ELSE lastThree(c, s)

LEMMA LastThree ==
    ASSUME NEW c, IsSeq(c.lastThreeOpcodes), Len(c.lastThreeOpcodes) =< 3, NEW s,
           NEW z, z = lastThree(c, s)
    PROVE  /\ IsSeq(z) /\ Len(z) \in 1..3
           /\ z[Len(z)] = [opcode |-> s.opcode, address |-> s.address]
           /\ Len(c.lastThreeOpcodes) > 0 =>
                /\ Len(z) >= 2
                /\ z[Len(z) - 1] = c.lastThreeOpcodes[Len(c.lastThreeOpcodes)]
           /\ Len(c.lastThreeOpcodes) >= 2 => Len(z) = 3
           /\ Len(c.lastThreeOpcodes) = 0 => Len(z) = 1
<1> DEFINE q == c.lastThreeOpcodes
           x == [opcode |-> s.opcode, address |-> s.address]
           t == Append(q, x)
<1>1. PICK S : q \in Seq(S)
  BY DEF IsSeq
<1> DEFINE T == S \cup {x}
<1> HIDE DEF x
<1>2. q \in Seq(T) /\ x \in T
  BY <1>1
<1> HIDE DEF T
<1>3. /\ t \in Seq(T) /\ Len(t) = Len(q) + 1 /\ Len(q) \in Nat
      /\ t[Len(q) + 1] = x /\ \A k \in 1..Len(q) : t[k] = q[k]
  BY <1>2
<1>4. z = IF Len(t) > 3 THEN Tail(t) ELSE t
  BY DEF lastThree, x
<1> HIDE DEF t
<1> DEFINE n == Len(q)
<1>5. n \in Nat /\ n =< 3
  BY <1>3
<1>6. CASE n = 3
  <2>1. z = Tail(t) /\ Len(t) = 4 /\ t # <<>>
    BY <1>3, <1>4, <1>6
  <2>2. z \in Seq(T) /\ Len(z) = 3 /\ z[3] = t[4] /\ z[2] = t[3]
    <3>1. \A w \in Seq(T) : w # <<>> =>
            /\ Tail(w) \in Seq(T) /\ Len(Tail(w)) = Len(w) - 1
            /\ \A k \in 1..(Len(w) - 1) : Tail(w)[k] = w[k + 1]
      OBVIOUS
    <3>2. t \in Seq(T) /\ t # <<>>
      BY <1>3, <2>1
    <3>3. Len(t) = 4
      BY <2>1
    <3>4. /\ z \in Seq(T) /\ Len(z) = Len(t) - 1
          /\ \A k \in 1..(Len(t) - 1) : z[k] = t[k + 1]
      BY <2>1, <3>1, <3>2
    <3>5. Len(t) - 1 = 3
      BY <3>3
    <3>6. Len(z) = 3 /\ \A k \in 1..3 : z[k] = t[k + 1]
      BY <3>4, <3>5
    <3>7. 3 \in 1..3 /\ 2 \in 1..3 /\ 3 + 1 = 4 /\ 2 + 1 = 3
      OBVIOUS
    <3> QED BY <3>4, <3>6, <3>7
  <2>3. t[4] = x /\ t[3] = q[3]
    BY <1>3, <1>6
  <2> QED BY <1>6, <2>2, <2>3 DEF IsSeq, x
<1>7. CASE n < 3
  <2>1. z = t
    BY <1>3, <1>4, <1>5, <1>7
  <2>2. n > 0 => n \in 1..n
    BY <1>5
  <2>3. /\ Len(z) = n + 1 /\ z[n + 1] = x /\ IsSeq(z)
        /\ n > 0 => z[n] = q[n]
    BY <1>3, <2>1, <2>2 DEF IsSeq
  <2> HIDE DEF n
  <2>4. /\ Len(z) \in 1..3 /\ (n > 0 => Len(z) >= 2 /\ Len(z) - 1 = n)
        /\ (n >= 2 => Len(z) = 3) /\ (n = 0 => Len(z) = 1)
    BY <1>5, <1>7, <2>3
  <2> QED BY <2>3, <2>4 DEF n, x
<1>8. n = 3 \/ n < 3
  <2> HIDE DEF n
  <2> QED BY <1>5
<1> QED BY <1>6, <1>7, <1>8

LEMMA RecentStep ==
    ASSUME NEW c, NEW o, NEW t, RecentIs(c, o, t), NEW s,
           s.opcode \in ExtCode => Len(c.lastThreeOpcodes) > 0,
           s.opcode \in Returning => o \notin ExtCode,
           NEW z, z = RecentAfter(c, s)
    PROVE  /\ Looked(z) <=> o \in ExtCode /\ ~ (o = "EXTCODESIZE" /\ s.opcode = "ISZERO")
           /\ Looked(z) => z[Len(z) - 1].address = t
           /\ s.opcode \notin Returning => Len(z) > 0
           /\ \A d : d.lastThreeOpcodes = z /\ d.lastOp = s.opcode
                       => RecentIs(d, s.opcode, s.address)
<1> DEFINE q == c.lastThreeOpcodes
           n == Len(q)
           x == [opcode |-> s.opcode, address |-> s.address]
           y == [opcode |-> o, address |-> t]
<1>1. /\ IsSeq(q) /\ n \in Nat /\ n =< 3
      /\ o \in ExtCode => n >= 2 /\ q[n] = y
      /\ n > 0 /\ q[n].opcode \in ExtCode => o \in ExtCode
  BY SequenceGrows DEF RecentIs
<1>2. x.opcode = s.opcode /\ y.opcode = o /\ y.address = t
  OBVIOUS
<1> HIDE DEF x, y
<1>3. CASE s.opcode \in Returning
  <2>1. z = <<>>
    BY <1>3 DEF RecentAfter
  <2>2. <<>> \in Seq({}) /\ Len(<<>>) = 0
    OBVIOUS
  <2>3. IsSeq(z) /\ Len(z) = 0
    BY <2>1, <2>2 DEF IsSeq
  <2>4. s.opcode \notin ExtCode /\ s.opcode # "GAS"
    BY <1>3 DEF Returning, ExtCode
  <2>5. ~ Looked(z)
    BY <2>3 DEF Looked
  <2>6. \A d : d.lastThreeOpcodes = z /\ d.lastOp = s.opcode => RecentIs(d, s.opcode, s.address)
    BY <2>3, <2>4 DEF RecentIs
  <2> QED BY <1>3, <2>5, <2>6
<1>4. CASE s.opcode \notin Returning
  <2>1. z = lastThree(c, s)
    BY <1>4 DEF RecentAfter
  <2>2. /\ IsSeq(z) /\ Len(z) \in 1..3 /\ z[Len(z)] = x
        /\ n > 0 => Len(z) >= 2 /\ z[Len(z) - 1] = q[n]
        /\ n >= 2 => Len(z) = 3
        /\ n = 0 => Len(z) = 1
    BY <1>1, <2>1, LastThree DEF x
  <2> HIDE DEF n, q
  <2>3. /\ Looked(z) <=> o \in ExtCode /\ ~ (o = "EXTCODESIZE" /\ s.opcode = "ISZERO")
        /\ Looked(z) => z[Len(z) - 1].address = t
    <3>1. CASE o \in ExtCode
      <4>1. n >= 2 /\ q[n] = y
        BY <1>1, <3>1
      <4>2. n > 0
        BY <1>1, <4>1
      <4>3. Len(z) = 3 /\ z[Len(z)] = x /\ z[Len(z) - 1] = y
        BY <2>2, <4>1, <4>2
      <4>4. z[3] = x /\ z[2] = y /\ Len(z) - 1 = 2 /\ Len(z) > 1
        BY <4>3
      <4> QED BY <1>2, <3>1, <4>3, <4>4 DEF Looked
    <3>2. CASE o \notin ExtCode
      <4>1. n > 0 => z[Len(z) - 1].opcode \notin ExtCode
        BY <1>1, <2>2, <3>2
      <4>2. n = 0 \/ n > 0
        BY <1>1
      <4>3. ASSUME n = 0 PROVE ~ (Len(z) > 1)
        <5>1. Len(z) = 1
          BY <2>2, <4>3
        <5> QED BY <5>1
      <4>4. ~ Looked(z)
        BY <4>1, <4>2, <4>3 DEF Looked
      <4> QED BY <3>2, <4>4
    <3> QED BY <3>1, <3>2
  <2>5. ASSUME NEW d, d.lastThreeOpcodes = z, d.lastOp = s.opcode
        PROVE  RecentIs(d, s.opcode, s.address)
    <3>1. Len(z) =< 3 /\ Len(z) > 0 /\ (s.opcode \in ExtCode => Len(z) >= 2)
      <4>1. s.opcode \in ExtCode => n > 0
        BY DEF q, n
      <4> QED BY <2>2, <4>1
    <3> QED BY <1>2, <2>2, <2>5, <3>1 DEF RecentIs, x
  <2>6. Len(z) > 0
    BY <2>2
  <2> QED BY <1>4, <2>3, <2>5, <2>6
<1> QED BY <1>3, <1>4

-----------------------------------------------------------------------------
(* One instruction, in its level.                                          *)

Flagged(l, oog) == IF oog THEN [l EXCEPT !.oog = TRUE] ELSE l

\* The rules about what i does after the opcode o, with the address t.
LevelBreaks(o, t, i, owner) ==
    \/ Banned(i.opcode)
    \/ o = "GAS" /\ i.opcode \notin NamedCall
    \/ i.oog
    \/ i.opcode = "CREATE2" /\ ~ (Entity = "factory" /\ ~ deployed)
    \/ i.opcode \in Calls \cup ExtCode /\ i.to = "nobody"
    \/ o \in ExtCode /\ t = "entryPoint" /\ ~ (o = "EXTCODESIZE" /\ i.opcode = "ISZERO")
    \/ i.opcode \in {"SLOAD", "SSTORE"} /\ ~ MayAccess(i.opcode, i.slot, owner)

\* i is an instruction, or something else that a contract of the operation runs.
Runs(i) ==
    /\ i.opcode \notin {"CREATE", "SELFDESTRUCT"}
    /\ i.opcode \in Calls \cup ExtCode => i.to # ""
    /\ i.slot \in Slot /\ i.oog \in BOOLEAN
    /\ i.opcode \in {"SLOAD", "SSTORE"} /\ i.slot.base = "keccak" => i.slot.of \in hashed

\* A step breaks a rule of its level exactly if its instruction does.
LEMMA LevelExact ==
    ASSUME op \in Operations, NEW l, LevelOk(l, hashed),
           Entity = "factory" => (deployed <=> "CREATE2" \in DOMAIN l.opcodes),
           NEW c, NEW o, NEW t, RecentIs(c, o, t), NEW i, Runs(i),
           i.opcode \in ExtCode => Len(c.lastThreeOpcodes) > 0,
           i.opcode \in Returning => o \notin ExtCode,
           NEW owner, NEW below, NEW s, s = Shown(i, owner, below),
           NEW m, m = LevelAfter(Flagged(l, s.oog), RecentAfter(c, s), c.lastOp, s)
    PROVE  /\ LevelOk(m, hashed)
           /\ m.topLevelMethodSig = l.topLevelMethodSig
           /\ "CREATE2" \in DOMAIN m.opcodes
                <=> "CREATE2" \in DOMAIN l.opcodes \/ i.opcode = "CREATE2"
           /\ LevelClean(op, Entity, m) <=>
                LevelClean(op, Entity, l) /\ ~ LevelBreaks(o, t, i, owner)
<1> DEFINE a == Flagged(l, s.oog)
           z == RecentAfter(c, s)
           e == Entity
           size == [address |-> s.address, empty |-> ~ s.hasCode]
<1>1. /\ s.opcode = i.opcode /\ s.address = i.to /\ s.owner = owner /\ s.slot = i.slot
      /\ s.oog = i.oog /\ s.hasCode = HasCode(i.to)
  BY DEF Shown
<1>2. /\ DOMAIN a = LevelFields /\ a.opcodes = l.opcodes /\ a.writes = l.writes
      /\ a.reads = l.reads /\ a.contractSize = l.contractSize
      /\ a.extCodeAccessInfo = l.extCodeAccessInfo
      /\ a.topLevelMethodSig = l.topLevelMethodSig
      /\ a.oog = (l.oog \/ i.oog)
  BY <1>1 DEF Flagged, LevelOk, LevelFields, Runs
<1>3. Accessed(a) = Accessed(l)
  BY <1>2 DEF Accessed
<1>4. /\ Looked(z) <=> o \in ExtCode /\ ~ (o = "EXTCODESIZE" /\ i.opcode = "ISZERO")
      /\ Looked(z) => z[Len(z) - 1].address = t
  BY <1>1, RecentStep
<1> HIDE DEF a, z
<1>5. m = LevelAfter(a, z, c.lastOp, s)
  BY DEF a, z
<1>6. /\ DOMAIN m = LevelFields
      /\ m.topLevelMethodSig = a.topLevelMethodSig /\ m.oog = a.oog
      /\ m.opcodes = AddingTo(a.opcodes, c.lastOp, s.opcode)
      /\ m.extCodeAccessInfo =
           IF Looked(z) THEN a.extCodeAccessInfo \cup {z[Len(z) - 1].address}
           ELSE a.extCodeAccessInfo
      /\ m.contractSize = IF NewSize(a, s) THEN a.contractSize \cup {size} ELSE a.contractSize
      /\ m.writes = IF s.opcode = "SSTORE" THEN a.writes \cup {Place(s)} ELSE a.writes
      /\ Accessed(m) = IF s.opcode \in {"SLOAD", "SSTORE"} THEN Accessed(a) \cup {Place(s)}
                       ELSE Accessed(a)
  <2>1. Parts(a, z, c.lastOp, s, LevelAfter(a, z, c.lastOp, s))
    BY <1>2, LevelParts
  <2> QED BY <1>5, <2>1 DEF Parts
<1>7. /\ "CREATE2" \in DOMAIN m.opcodes => m.opcodes["CREATE2"] \in Nat \ {0}
      /\ "CREATE2" \in DOMAIN m.opcodes
           <=> "CREATE2" \in DOMAIN l.opcodes \/ i.opcode = "CREATE2"
      /\ OpcodesClean(op, e, m) <=>
           /\ OpcodesClean(op, e, l)
           /\ ~ Banned(i.opcode)
           /\ ~ (o = "GAS" /\ i.opcode \notin NamedCall)
           /\ ~ (i.opcode = "CREATE2" /\ ~ (e = "factory" /\ ~ deployed))
  <2>1. m.opcodes = AddingTo(l.opcodes, c.lastOp, i.opcode)
    BY <1>1, <1>2, <1>6
  <2>2. i.opcode \notin {"CREATE", "SELFDESTRUCT"} /\ (c.lastOp = "GAS" <=> o = "GAS")
    BY DEF Runs, RecentIs
  <2>3. OpcodesSay(l, m, c.lastOp, i.opcode)
    BY <2>1, <2>2, OpcodesExact
  <2> QED BY <2>2, <2>3 DEF OpcodesSay
<1>8. AccessClean(op, e, m) <=>
        /\ AccessClean(op, e, l)
        /\ ~ (i.opcode \in {"SLOAD", "SSTORE"} /\ ~ MayAccess(i.opcode, i.slot, owner))
  <2>1. /\ m.writes = IF s.opcode = "SSTORE" THEN l.writes \cup {Place(s)} ELSE l.writes
        /\ Accessed(m) = IF s.opcode \in {"SLOAD", "SSTORE"} THEN Accessed(l) \cup {Place(s)}
                         ELSE Accessed(l)
    BY <1>2, <1>3, <1>6
  <2>2. AccessSays(l, m, s)
    BY <2>1, AccessExact
  <2> QED BY <1>1, <2>2 DEF AccessSays
<1>9. (\A x \in m.contractSize : x.address # "nobody") <=>
        /\ \A x \in l.contractSize : x.address # "nobody"
        /\ ~ (i.opcode \in Calls \cup ExtCode /\ i.to = "nobody")
  <2>1. size.address = i.to
    BY <1>1
  <2> HIDE DEF size
  <2> QED BY <1>1, <1>2, <1>6, <2>1 DEF NewSize
<1>10. "entryPoint" \notin m.extCodeAccessInfo <=>
         /\ "entryPoint" \notin l.extCodeAccessInfo
         /\ ~ (o \in ExtCode /\ t = "entryPoint" /\ ~ (o = "EXTCODESIZE" /\ i.opcode = "ISZERO"))
  BY <1>2, <1>4, <1>6
<1>11. m.oog \in BOOLEAN /\ (~ m.oog <=> ~ l.oog /\ ~ i.oog)
  BY <1>2, <1>6 DEF LevelOk, Runs
<1>12. LevelOk(m, hashed)
  <2>1. Place(s).slot = i.slot
    BY <1>1 DEF Place
  <2>2. \A access \in Accessed(m) :
          access.slot \in Slot /\ (access.slot.base = "keccak" => access.slot.of \in hashed)
    BY <1>1, <1>3, <1>6, <2>1 DEF LevelOk, Runs
  <2>3. \A x \in m.contractSize : x.address # "account" => (x.empty <=> x.address = "nobody")
    <3>1. size.address = i.to /\ size.empty = ~ HasCode(i.to)
      BY <1>1
    <3> HIDE DEF size
    <3>2. NewSize(a, s) => i.to \notin {"", "precompile"}
      BY <1>1 DEF NewSize, Runs
    <3>3. i.to \notin {"", "precompile", "account"} => (~ HasCode(i.to) <=> i.to = "nobody")
      BY DEF HasCode
    <3> QED BY <1>2, <1>6, <3>1, <3>2, <3>3 DEF LevelOk
  <2> QED BY <1>6, <1>7, <1>11, <2>2, <2>3 DEF LevelOk
<1>13. m.topLevelMethodSig = l.topLevelMethodSig
  BY <1>2, <1>6
<1> HIDE DEF e, size
<1>14. LevelClean(op, e, m) <=> LevelClean(op, e, l) /\ ~ LevelBreaks(o, t, i, owner)
  BY <1>7, <1>8, <1>9, <1>10, <1>11 DEF LevelClean, LevelBreaks, e
<1> QED BY <1>7, <1>12, <1>13, <1>14 DEF e

-----------------------------------------------------------------------------
(* One instruction, in the trace.                                          *)

\* d is what the collector makes of c below the entry point.
Below(c, s, d) ==
    /\ Collected(d) /\ ~ d.thrown /\ d.calls = c.calls
    /\ d.keccak = IF s.opcode = "KECCAK256" /\ s.short THEN c.keccak \cup {s.address}
                  ELSE c.keccak
    /\ d.lastOp = s.opcode /\ d.lastThreeOpcodes = RecentAfter(c, s)
    /\ Len(d.callsFromEntryPoint) = Len(c.callsFromEntryPoint)
    /\ \A k \in 1..Len(c.callsFromEntryPoint) :
         d.callsFromEntryPoint[k] =
            IF k = Len(c.callsFromEntryPoint)
            THEN LevelAfter(Flagged(c.callsFromEntryPoint[k], s.oog), RecentAfter(c, s),
                            c.lastOp, s)
            ELSE c.callsFromEntryPoint[k]

\* And in its own code.
AtTop(c, s, d) ==
    /\ Collected(d) /\ ~ d.thrown /\ d.keccak = c.keccak
    /\ d.lastOp = "" /\ d.lastThreeOpcodes = RecentAfter(c, s)
    /\ d.calls = IF s.opcode \in Returning
                 THEN Append(c.calls, [type |-> s.opcode, data |-> s.data]) ELSE c.calls
    /\ d.callsFromEntryPoint =
         IF s.opcode \in {"CALL", "STATICCALL"}
         THEN Append(c.callsFromEntryPoint, Level(s.method)) ELSE c.callsFromEntryPoint

\* A step below the entry point belongs to the last level; at it, a level begins or ends.
LEMMA StepExact ==
    ASSUME NEW top \in Nat, NEW c, Collected(c), ~ c.thrown, NEW s, s.depth \in Nat
    PROVE  /\ s.depth > top /\ Len(c.callsFromEntryPoint) > 0 => Below(c, s, stepFrom(top, c, s))
           /\ s.depth = top /\ ~ s.oog => AtTop(c, s, stepFrom(top, c, s))
<1> DEFINE d == stepFrom(top, c, s)
           q == c.callsFromEntryPoint
           n == Len(q)
           recent == RecentAfter(c, s)
           calls == IF s.depth = top /\ s.opcode \in Returning
                    THEN Append(c.calls, [type |-> s.opcode, data |-> s.data]) ELSE c.calls
           level == Flagged(q[n], s.oog)
           p == IF s.oog THEN WithElement(q, n, [q[n] EXCEPT !.oog = TRUE]) ELSE q
           noted == [c EXCEPT !.lastThreeOpcodes = recent, !.callsFromEntryPoint = p,
                              !.calls = calls]
<1>0. /\ n \in Nat /\ IsSeq(q) /\ DOMAIN c = TraceFields
      /\ Collected(d)
  BY SequenceGrows, StepFollows DEF Collected
<1>1. d = IF s.depth < top \/ c.thrown THEN c
          ELSE IF n = 0 /\ needsLevel(top, s) THEN [c EXCEPT !.thrown = TRUE]
          ELSE IF s.depth = top THEN topLevel(noted, s)
          ELSE IF n = 0 THEN [noted EXCEPT !.lastOp = s.opcode]
          ELSE belowTop(noted, s, recent)
  BY DEF stepFrom, WithElement, RecentAfter
<1> HIDE DEF recent, calls, d
<1>2. /\ DOMAIN noted = TraceFields /\ noted.callsFromEntryPoint = p
      /\ noted.calls = calls /\ noted.thrown = c.thrown /\ noted.keccak = c.keccak
      /\ noted.lastOp = c.lastOp /\ noted.lastThreeOpcodes = recent
  BY <1>0 DEF TraceFields
<1>3. ASSUME s.depth > top, n > 0 PROVE Below(c, s, d)
  <2>1. ~ (s.depth < top) /\ s.depth # top /\ n # 0 /\ n \in 1..n
    <3> HIDE DEF n
    <3> QED BY <1>0, <1>3
  <2>2. d = belowTop(noted, s, recent)
    BY <1>1, <2>1
  <2>3. /\ IsSeq(p) /\ Len(p) = n
        /\ \A k \in 1..n : p[k] = IF k = n THEN level ELSE q[k]
    <3>1. CASE s.oog
      <4> DEFINE flagged == [q[n] EXCEPT !.oog = TRUE]
      <4>1. level = flagged
        BY <3>1 DEF Flagged
      <4> HIDE DEF flagged, level
      <4>2. /\ IsSeq(WithElement(q, n, flagged)) /\ Len(WithElement(q, n, flagged)) = n
            /\ \A k \in 1..n : WithElement(q, n, flagged)[k] = IF k = n THEN flagged ELSE q[k]
        BY <1>0, <2>1, SequenceChanges
      <4> QED BY <3>1, <4>1, <4>2 DEF flagged
    <3>2. CASE ~ s.oog
      BY <1>0, <3>2 DEF Flagged
    <3> QED BY <3>1, <3>2
  <2> HIDE DEF p, noted, level
  <2> DEFINE m == LevelAfter(level, recent, c.lastOp, s)
  <2>4. p[n] = level
    BY <2>1, <2>3
  <2>5. d = [noted EXCEPT
               !.lastOp = s.opcode,
               !.keccak = IF s.opcode = "KECCAK256" /\ s.short THEN @ \cup {s.address} ELSE @,
               !.callsFromEntryPoint = WithElement(p, n, m)]
    BY <1>2, <2>2, <2>3, <2>4 DEF belowTop, WithElement, LevelAfter
  <2> HIDE DEF m
  <2>6. /\ d.calls = calls /\ d.lastOp = s.opcode /\ d.lastThreeOpcodes = recent
        /\ d.thrown = c.thrown /\ d.callsFromEntryPoint = WithElement(p, n, m)
        /\ d.keccak = IF s.opcode = "KECCAK256" /\ s.short THEN c.keccak \cup {s.address}
                      ELSE c.keccak
    BY <1>2, <2>5 DEF TraceFields
  <2>7. calls = c.calls
    BY <2>1 DEF calls
  <2>8. /\ Len(WithElement(p, n, m)) = n
        /\ \A k \in 1..n : WithElement(p, n, m)[k] = IF k = n THEN m ELSE p[k]
    BY <2>1, <2>3, SequenceChanges
  <2>9. \A k \in 1..n : d.callsFromEntryPoint[k] = IF k = n THEN m ELSE q[k]
    BY <2>3, <2>6, <2>8
  <2> QED BY <1>0, <2>6, <2>7, <2>8, <2>9 DEF Below, m, level, recent
<1>4. ASSUME s.depth = top, ~ s.oog PROVE AtTop(c, s, d)
  <2>1. ~ (s.depth < top) /\ ~ (s.depth > top)
    BY <1>4
  <2>2. ~ needsLevel(top, s)
    BY <1>4, <2>1 DEF needsLevel
  <2>3. d = topLevel(noted, s) /\ p = q
    BY <1>1, <1>4, <2>1, <2>2
  <2> HIDE DEF p, noted
  <2>4. /\ d.calls = calls /\ d.lastOp = "" /\ d.lastThreeOpcodes = recent
        /\ d.thrown = c.thrown /\ d.keccak = c.keccak
        /\ d.callsFromEntryPoint = IF s.opcode \in {"CALL", "STATICCALL"}
                                   THEN Append(q, Level(s.method)) ELSE q
    BY <1>2, <2>3 DEF TraceFields, topLevel
  <2> QED BY <1>0, <1>4, <2>4 DEF AtTop, recent, calls
<1> QED BY <1>3, <1>4 DEF d

\* All that a contract is seen to do when it runs i, after the opcode o with the
\* address t.
SeenBreaks(o, t, i, owner) ==
    IF Pushes(i.opcode)
    THEN LevelBreaks(o, t, Plain("PUSH"), owner) \/ LevelBreaks("PUSH", "", i, owner)
    ELSE LevelBreaks(o, t, i, owner)

SeenSays(c, o, t, i, owner, d) ==
    LET n == Len(c.callsFromEntryPoint)
        l == c.callsFromEntryPoint[n]
        m == d.callsFromEntryPoint[n]
    IN  /\ Collected(d) /\ ~ d.thrown /\ d.calls = c.calls
        /\ d.keccak = IF i.opcode = "KECCAK256" /\ i.short THEN c.keccak \cup {i.to}
                      ELSE c.keccak
        /\ RecentIs(d, i.opcode, i.to)
        /\ Len(d.callsFromEntryPoint) = n
        /\ \A k \in 1..n : k # n => d.callsFromEntryPoint[k] = c.callsFromEntryPoint[k]
        /\ LevelOk(m, hashed) /\ m.topLevelMethodSig = l.topLevelMethodSig
        /\ "CREATE2" \in DOMAIN m.opcodes
             <=> "CREATE2" \in DOMAIN l.opcodes \/ i.opcode = "CREATE2"
        /\ LevelClean(op, Entity, m) <=>
             LevelClean(op, Entity, l) /\ ~ SeenBreaks(o, t, i, owner)

\* The last level is as it should be.
LastOk(c) ==
    LET n == Len(c.callsFromEntryPoint)
        l == c.callsFromEntryPoint[n]
    IN  /\ Collected(c) /\ ~ c.thrown /\ n > 0 /\ LevelOk(l, hashed)
        /\ Entity = "factory" => (deployed <=> "CREATE2" \in DOMAIN l.opcodes)

ShownSays(c, o, t, i, owner, d) ==
    LET n == Len(c.callsFromEntryPoint)
        l == c.callsFromEntryPoint[n]
        m == d.callsFromEntryPoint[n]
    IN  /\ Collected(d) /\ ~ d.thrown /\ d.calls = c.calls
        /\ d.keccak = IF i.opcode = "KECCAK256" /\ i.short THEN c.keccak \cup {i.to}
                      ELSE c.keccak
        /\ RecentIs(d, i.opcode, i.to)
        /\ i.opcode \notin Returning => Len(d.lastThreeOpcodes) > 0
        /\ Len(d.callsFromEntryPoint) = n
        /\ \A k \in 1..n : k # n => d.callsFromEntryPoint[k] = c.callsFromEntryPoint[k]
        /\ LevelOk(m, hashed) /\ m.topLevelMethodSig = l.topLevelMethodSig
        /\ "CREATE2" \in DOMAIN m.opcodes
             <=> "CREATE2" \in DOMAIN l.opcodes \/ i.opcode = "CREATE2"
        /\ LevelClean(op, Entity, m) <=>
             LevelClean(op, Entity, l) /\ ~ LevelBreaks(o, t, i, owner)

LEMMA ShownExact ==
    ASSUME op \in Operations, Seeing, NEW c, LastOk(c), NEW o, NEW t, RecentIs(c, o, t),
           NEW i, Runs(i), i.opcode \in ExtCode => Len(c.lastThreeOpcodes) > 0,
           i.opcode \in Returning => o \notin ExtCode,
           NEW owner, NEW below \in Nat, below > 0
    PROVE  ShownSays(c, o, t, i, owner, step(c, Shown(i, owner, below)))
<1> DEFINE s == Shown(i, owner, below)
           d == step(c, s)
           n == Len(c.callsFromEntryPoint)
           l == c.callsFromEntryPoint[n]
           m == d.callsFromEntryPoint[n]
<1>1. /\ s.opcode = i.opcode /\ s.address = i.to /\ s.short = i.short
      /\ s.depth = EntryPointDepth + below
  BY DEF Shown
<1>2. EntryPointDepth \in Nat /\ Top = EntryPointDepth /\ d = stepFrom(Top, c, s)
  BY StepIs DEF EntryPointDepth
<1>3. s.depth \in Nat /\ s.depth > Top /\ Top \in Nat
  BY <1>1, <1>2
<1>4. Collected(c) /\ ~ c.thrown /\ n > 0 /\ n \in Nat
  BY SequenceGrows DEF LastOk, Collected
<1> HIDE DEF s
<1>5. Below(c, s, d)
  BY <1>2, <1>3, <1>4, StepExact
<1>6. n \in 1..n
  <2> HIDE DEF n
  <2> QED BY <1>4
<1>7. m = LevelAfter(Flagged(l, s.oog), RecentAfter(c, s), c.lastOp, s)
  BY <1>5, <1>6 DEF Below
<1>8. /\ LevelOk(l, hashed)
      /\ Entity = "factory" => (deployed <=> "CREATE2" \in DOMAIN l.opcodes)
  BY DEF LastOk
<1>9. RecentIs(d, i.opcode, i.to) /\ (i.opcode \notin Returning => Len(d.lastThreeOpcodes) > 0)
  <2> DEFINE z == RecentAfter(c, s)
  <2>1. d.lastThreeOpcodes = z /\ d.lastOp = s.opcode
    BY <1>5 DEF Below
  <2> HIDE DEF z, d
  <2>2. /\ s.opcode \in ExtCode => Len(c.lastThreeOpcodes) > 0
        /\ s.opcode \in Returning => o \notin ExtCode
    BY <1>1
  <2>3. /\ s.opcode \notin Returning => Len(z) > 0
        /\ \A x : x.lastThreeOpcodes = z /\ x.lastOp = s.opcode => RecentIs(x, s.opcode, s.address)
    BY <2>2, RecentStep DEF z
  <2> QED BY <1>1, <2>1, <2>3
<1> HIDE DEF d, l, m
<1>10. /\ LevelOk(m, hashed)
       /\ m.topLevelMethodSig = l.topLevelMethodSig
       /\ "CREATE2" \in DOMAIN m.opcodes
            <=> "CREATE2" \in DOMAIN l.opcodes \/ i.opcode = "CREATE2"
       /\ LevelClean(op, Entity, m) <=> LevelClean(op, Entity, l) /\ ~ LevelBreaks(o, t, i, owner)
  <2>1. s = Shown(i, owner, below)
    BY DEF s
  <2> QED BY <1>7, <1>8, <2>1, LevelExact
<1>11. ShownSays(c, o, t, i, owner, d)
  BY <1>1, <1>5, <1>9, <1>10 DEF ShownSays, Below, l, m
<1> QED BY <1>11 DEF d, s

LEMMA SeenExact ==
    ASSUME op \in Operations, Seeing, NEW c, LastOk(c), NEW o, NEW t, RecentIs(c, o, t),
           NEW i, Runs(i), NEW owner, NEW below \in Nat, below > 0
    PROVE  SeenSays(c, o, t, i, owner, Seen(c, i, owner, below))
<1> DEFINE x == Plain("PUSH")
           b == step(c, Shown(x, owner, below))
           d == Seen(c, i, owner, below)
<1>1. CASE ~ Pushes(i.opcode)
  <2>1. d = step(c, Shown(i, owner, below))
    BY <1>1 DEF Seen
  <2>2. i.opcode \notin ExtCode /\ i.opcode \notin Returning
    BY <1>1 DEF Pushes
  <2>3. ShownSays(c, o, t, i, owner, step(c, Shown(i, owner, below)))
    BY <2>2, ShownExact
  <2> QED BY <1>1, <2>1, <2>3 DEF ShownSays, SeenSays, SeenBreaks
<1>2. CASE Pushes(i.opcode)
  <2>1. d = step(b, Shown(i, owner, below))
    BY <1>2 DEF Seen
  <2>2. x.opcode = "PUSH" /\ x.to = "" /\ Runs(x)
    BY DEF Plain, Runs, Calls, ExtCode, Slot
  <2>3. ShownSays(c, o, t, x, owner, b)
    <3>1. x.opcode \notin ExtCode /\ x.opcode \notin Returning
      BY <2>2 DEF ExtCode, Returning
    <3> HIDE DEF x
    <3> QED BY <2>2, <3>1, ShownExact
  <2> HIDE DEF x, b
  <2>4. LastOk(b) /\ RecentIs(b, "PUSH", "") /\ Len(b.lastThreeOpcodes) > 0
    BY <2>2, <2>3 DEF ShownSays, LastOk, Returning
  <2>5. ShownSays(b, "PUSH", "", i, owner, step(b, Shown(i, owner, below)))
    BY <2>4, ShownExact DEF ExtCode
  <2> HIDE DEF d
  <2>6. ShownSays(b, "PUSH", "", i, owner, d)
    BY <2>1, <2>5
  <2>7. SeenSays(c, o, t, i, owner, d)
    BY <1>2, <2>2, <2>3, <2>6 DEF ShownSays, SeenSays, SeenBreaks, x
  <2> QED BY <2>7 DEF d
<1> QED BY <1>1, <1>2

\* The rules that the levels tell, and those that the calls tell.
LevelRules == {"OP011", "OP012", "OP020", "OP031", "OP041", "OP054", "STO"}
CallRules == {"OP052", "OP061", "EREP050"}
Rules == LevelRules \cup CallRules \cup {"GasBeforeCaller"}

\* The rules about a call that i makes.
CallBreaks(rule, i) ==
    /\ i.opcode \in Calls
    /\ \/ rule = "OP052" /\ i.to = "entryPoint" /\ i.method \notin {"0x", "depositTo"}
       \/ rule = "OP061" /\ i.to # "entryPoint" /\ i.value # 0

\* What is broken by i, as the levels and the calls have it.
LEMMA BrokenExact ==
    ASSUME NEW i
    PROVE  /\ BrokenBy(i) \subseteq Rules
           /\ BrokenBy(i) \cap LevelRules = {}
                <=> ~ SeenBreaks(previous.opcode, previous.to, i, Running.owner)
           /\ \A rule \in CallRules : rule \in BrokenBy(i) <=> CallBreaks(rule, i)
<1> DEFINE follows == IF Pushes(i.opcode) THEN "PUSH" ELSE i.opcode
           banned == Banned(i.opcode)
           gas == previous.opcode = "GAS" /\ follows \notin Calls \cup {"CALLER"}
           caller == previous.opcode = "GAS" /\ follows = "CALLER"
           out == i.oog
           created == i.opcode = "CREATE2" /\ ~ (Entity = "factory" /\ ~ deployed)
           empty == i.opcode \in Calls \cup ExtCode /\ i.to = "nobody"
           entered == i.opcode \in Calls /\ i.to = "entryPoint"
                      /\ i.method \notin {"0x", "depositTo"}
           looked == previous.opcode \in ExtCode /\ previous.to = "entryPoint"
                     /\ ~ (previous.opcode = "EXTCODESIZE" /\ follows = "ISZERO")
           paid == i.opcode \in Calls /\ i.to # "entryPoint" /\ i.value # 0
           stored == i.opcode \in {"SLOAD", "SSTORE"}
                     /\ ~ MayAccess(i.opcode, i.slot, Running.owner)
           broke == [OP011 |-> banned, OP012 |-> gas, GasBeforeCaller |-> caller, OP020 |-> out,
                     OP031 |-> created, OP041 |-> empty, OP052 |-> entered, OP054 |-> looked,
                     OP061 |-> paid, STO |-> stored]
           own == banned \/ gas \/ out \/ created \/ empty \/ looked \/ stored
<1>1. BrokenBy(i) = {rule \in DOMAIN broke : broke[rule]}
  BY DEF BrokenBy
<1>2. /\ CallBreaks("OP052", i) <=> entered
      /\ CallBreaks("OP061", i) <=> paid
      /\ ~ CallBreaks("EREP050", i)
  BY DEF CallBreaks
<1>3. SeenBreaks(previous.opcode, previous.to, i, Running.owner) <=> own
  <2>1. /\ ~ Banned("PUSH") /\ "PUSH" \notin NamedCall /\ "PUSH" \notin ExtCode
        /\ "PUSH" \notin Calls
    BY DEF Banned, NamedCall, Calls, ExtCode
  <2>2. /\ Plain("PUSH").opcode = "PUSH" /\ Plain("PUSH").oog = FALSE
    BY DEF Plain
  <2>3. CASE Pushes(i.opcode)
    BY <2>1, <2>2, <2>3 DEF SeenBreaks, LevelBreaks, NamedCall
  <2>4. CASE ~ Pushes(i.opcode)
    BY <2>4 DEF SeenBreaks, LevelBreaks, NamedCall
  <2> QED BY <2>3, <2>4
<1> HIDE DEF banned, gas, caller, out, created, empty, entered, looked, paid, stored
<1>4. /\ DOMAIN broke = {"OP011", "OP012", "GasBeforeCaller", "OP020", "OP031", "OP041", "OP052",
                         "OP054", "OP061", "STO"}
      /\ broke["OP011"] = banned /\ broke["OP012"] = gas /\ broke["OP020"] = out
      /\ broke["OP031"] = created /\ broke["OP041"] = empty /\ broke["OP052"] = entered
      /\ broke["OP054"] = looked /\ broke["OP061"] = paid /\ broke["STO"] = stored
  OBVIOUS
<1> HIDE DEF broke
<1>5. BrokenBy(i) \subseteq Rules /\ "EREP050" \notin BrokenBy(i)
  BY <1>1, <1>4 DEF Rules, LevelRules, CallRules
<1>6. /\ "OP011" \in BrokenBy(i) <=> banned
      /\ "OP012" \in BrokenBy(i) <=> gas
      /\ "OP020" \in BrokenBy(i) <=> out
      /\ "OP031" \in BrokenBy(i) <=> created
      /\ "OP041" \in BrokenBy(i) <=> empty
      /\ "OP052" \in BrokenBy(i) <=> entered
      /\ "OP054" \in BrokenBy(i) <=> looked
      /\ "OP061" \in BrokenBy(i) <=> paid
      /\ "STO" \in BrokenBy(i) <=> stored
  BY <1>1, <1>4, Zenon
<1>7. BrokenBy(i) \cap LevelRules = {} <=> ~ own
  BY <1>6, Zenon DEF LevelRules
<1>8. \A rule \in CallRules : rule \in BrokenBy(i) <=> CallBreaks(rule, i)
  BY <1>2, <1>5, <1>6 DEF CallRules
<1> QED BY <1>3, <1>5, <1>7, <1>8

-----------------------------------------------------------------------------
(* The levels, each of an entity that has been called.                     *)

\* Each level is an entity's that was called, and of one entity there is one.
LevelsAre(q, called, slots) ==
    /\ IsSeq(q) /\ called \subseteq Entities
    /\ \A k \in 1..Len(q) :
         LevelOk(q[k], slots) /\ \E e \in called : q[k].topLevelMethodSig = MethodOf[e]
    /\ \A e \in called : \E k \in 1..Len(q) : q[k].topLevelMethodSig = MethodOf[e]
    /\ \A j, k \in 1..Len(q) : q[j].topLevelMethodSig = q[k].topLevelMethodSig => j = k

IsCurrent(q, e) == Len(q) > 0 /\ q[Len(q)].topLevelMethodSig = MethodOf[e]

\* The levels follow the rules of their entities.
LevelsClean(userOp, q) ==
    \A k \in 1..Len(q) : \A e \in Entities :
        q[k].topLevelMethodSig = MethodOf[e] => LevelClean(userOp, e, q[k])

LEMMA MethodsDiffer == \A e, f \in Entities : MethodOf[e] = MethodOf[f] => e = f
BY DEF Entities, MethodOf

LEMMA MoreSlots ==
    ASSUME NEW q, NEW called, NEW slots, LevelsAre(q, called, slots),
           NEW more, slots \subseteq more
    PROVE  LevelsAre(q, called, more)
<1>1. \A l : LevelOk(l, slots) => LevelOk(l, more)
  BY DEF LevelOk
<1> QED BY <1>1 DEF LevelsAre

\* Something happens in the last level.
LEMMA LevelsChange ==
    ASSUME NEW userOp, NEW q, NEW called, NEW slots, LevelsAre(q, called, slots),
           NEW e \in Entities, IsCurrent(q, e),
           NEW r, IsSeq(r), Len(r) = Len(q),
           \A k \in 1..Len(q) : k # Len(q) => r[k] = q[k],
           LevelOk(r[Len(q)], slots),
           r[Len(q)].topLevelMethodSig = q[Len(q)].topLevelMethodSig,
           NEW fine \in BOOLEAN,
           LevelClean(userOp, e, r[Len(q)]) <=> LevelClean(userOp, e, q[Len(q)]) /\ fine
    PROVE  /\ LevelsAre(r, called, slots) /\ IsCurrent(r, e)
           /\ LevelsClean(userOp, r) <=> LevelsClean(userOp, q) /\ fine
<1> DEFINE n == Len(q)
<1>1. n \in Nat /\ n > 0 /\ q[n].topLevelMethodSig = MethodOf[e]
  BY SequenceGrows DEF LevelsAre, IsCurrent
<1> HIDE DEF n
<1>2. n \in 1..n /\ \A k \in 1..n : r[k].topLevelMethodSig = q[k].topLevelMethodSig
  BY <1>1 DEF n
<1>3. LevelsAre(r, called, slots)
  BY <1>2 DEF LevelsAre, n
<1>4. IsCurrent(r, e)
  BY <1>1, <1>2 DEF IsCurrent, n
<1>5. \A k \in 1..n : \A f \in Entities :
        q[k].topLevelMethodSig = MethodOf[f] /\ k = n => f = e
  BY <1>1, MethodsDiffer
<1>6. LevelsClean(userOp, r) => LevelsClean(userOp, q) /\ fine
  <2> SUFFICES ASSUME LevelsClean(userOp, r) PROVE LevelsClean(userOp, q) /\ fine
    OBVIOUS
  <2>1. LevelClean(userOp, e, r[n])
    BY <1>1, <1>2 DEF LevelsClean, n
  <2>2. LevelClean(userOp, e, q[n]) /\ fine
    BY <2>1 DEF n
  <2>3. ASSUME NEW k \in 1..n, NEW f \in Entities, q[k].topLevelMethodSig = MethodOf[f]
        PROVE  LevelClean(userOp, f, q[k])
    <3>1. CASE k = n
      BY <1>5, <2>2, <2>3, <3>1
    <3>2. CASE k # n
      BY <2>3, <3>2 DEF LevelsClean, n
    <3> QED BY <3>1, <3>2
  <2> QED BY <2>2, <2>3 DEF LevelsClean, n
<1>7. LevelsClean(userOp, q) /\ fine => LevelsClean(userOp, r)
  <2> SUFFICES ASSUME LevelsClean(userOp, q), fine PROVE LevelsClean(userOp, r)
    OBVIOUS
  <2>1. LevelClean(userOp, e, q[n])
    BY <1>1, <1>2 DEF LevelsClean, n
  <2>2. LevelClean(userOp, e, r[n])
    BY <2>1 DEF n
  <2>3. ASSUME NEW k \in 1..n, NEW f \in Entities, r[k].topLevelMethodSig = MethodOf[f]
        PROVE  LevelClean(userOp, f, r[k])
    <3>1. q[k].topLevelMethodSig = MethodOf[f]
      BY <1>2, <2>3
    <3>2. CASE k = n
      BY <1>5, <2>2, <3>1, <3>2
    <3>3. CASE k # n
      BY <3>1, <3>3 DEF LevelsClean, n
    <3> QED BY <3>2, <3>3
  <2> QED BY <2>3 DEF LevelsClean, n
<1> QED BY <1>3, <1>4, <1>6, <1>7

\* A level is added.
LEMMA LevelsMore ==
    ASSUME NEW userOp, NEW q, NEW called, NEW slots, LevelsAre(q, called, slots),
           NEW e \in Entities, e \notin called, NEW new, LevelOk(new, slots),
           new.topLevelMethodSig = MethodOf[e]
    PROVE  /\ LevelsAre(Append(q, new), called \cup {e}, slots) /\ IsCurrent(Append(q, new), e)
           /\ LevelsClean(userOp, Append(q, new))
                <=> LevelsClean(userOp, q) /\ LevelClean(userOp, e, new)
<1> DEFINE n == Len(q)
           r == Append(q, new)
<1>1. /\ n \in Nat /\ IsSeq(r) /\ Len(r) = n + 1
      /\ \A k \in 1..n : r[k] = q[k]
      /\ r[n + 1] = new
  BY SequenceGrows DEF LevelsAre
<1> HIDE DEF n, r
<1>2. /\ \A k \in 1..(n + 1) : k \in 1..n \/ k = n + 1
      /\ n + 1 \in 1..(n + 1) /\ \A k \in 1..n : k \in 1..(n + 1)
      /\ n + 1 > 0
  BY <1>1
<1>3. /\ called \subseteq Entities
      /\ \A k \in 1..n :
           LevelOk(q[k], slots) /\ \E f \in called : q[k].topLevelMethodSig = MethodOf[f]
      /\ \A f \in called : \E k \in 1..n : q[k].topLevelMethodSig = MethodOf[f]
      /\ \A j, k \in 1..n : q[j].topLevelMethodSig = q[k].topLevelMethodSig => j = k
  BY DEF LevelsAre, n
<1>4. \A k \in 1..n : q[k].topLevelMethodSig # MethodOf[e]
  BY <1>3, MethodsDiffer
<1>5. LevelsAre(r, called \cup {e}, slots)
  <2>1. \A k \in 1..(n + 1) :
          LevelOk(r[k], slots) /\ \E f \in called \cup {e} : r[k].topLevelMethodSig = MethodOf[f]
    BY <1>1, <1>2, <1>3
  <2>2. \A f \in called \cup {e} : \E k \in 1..(n + 1) : r[k].topLevelMethodSig = MethodOf[f]
    <3>1. \A f \in called : \E k \in 1..(n + 1) : r[k].topLevelMethodSig = MethodOf[f]
      BY <1>1, <1>2, <1>3
    <3>2. r[n + 1].topLevelMethodSig = MethodOf[e]
      BY <1>1
    <3> QED BY <1>2, <3>1, <3>2
  <2>3. \A j, k \in 1..(n + 1) : r[j].topLevelMethodSig = r[k].topLevelMethodSig => j = k
    BY <1>1, <1>2, <1>3, <1>4
  <2> QED BY <1>1, <1>3, <2>1, <2>2, <2>3 DEF LevelsAre
<1>6. IsCurrent(r, e)
  BY <1>1, <1>2 DEF IsCurrent
<1>7. LevelsClean(userOp, r) <=> LevelsClean(userOp, q) /\ LevelClean(userOp, e, new)
  <2> DEFINE clean(l) ==
        \A f \in Entities : l.topLevelMethodSig = MethodOf[f] => LevelClean(userOp, f, l)
  <2>1. clean(new) <=> LevelClean(userOp, e, new)
    BY MethodsDiffer
  <2> HIDE DEF clean
  <2>2. (\A k \in 1..(n + 1) : clean(r[k])) <=> (\A k \in 1..n : clean(q[k])) /\ clean(new)
    BY <1>1, <1>2
  <2> QED BY <1>1, <2>1, <2>2 DEF LevelsClean, clean, n
<1> QED BY <1>5, <1>6, <1>7 DEF r

-----------------------------------------------------------------------------
(* The whole trace.                                                        *)

\* What PresentInOrder may be, and what is left of it.
Callings ==
    {<<>>, <<"paymaster">>, <<"account">>, <<"account", "paymaster">>, <<"factory", "account">>,
     <<"factory", "account", "paymaster">>}

\* The entities that the entry point has yet to return from.
Awaited(q) == {q[k] : k \in 1..Len(q)}

\* The order in which the entry point calls the entities.
LEMMA Turns ==
    ASSUME NEW q \in Callings, q # <<>>
    PROVE  /\ Head(q) \in Entities /\ Head(q) \in Awaited(q) /\ Tail(q) \in Callings
           /\ Awaited(Tail(q)) = Awaited(q) \ {Head(q)}
           /\ "factory" \in Awaited(q) => Head(q) = "factory"
<1>1. CASE q = <<"paymaster">>
  <2>1. Head(q) = "paymaster" /\ Tail(q) = <<>> /\ Len(q) = 1 /\ q[1] = "paymaster"
    BY <1>1
  <2>2. Awaited(q) = {"paymaster"} /\ Awaited(Tail(q)) = {}
    BY <2>1 DEF Awaited
  <2> QED BY <2>1, <2>2 DEF Callings, Entities
<1>2. CASE q = <<"account">>
  <2>1. Head(q) = "account" /\ Tail(q) = <<>> /\ Len(q) = 1 /\ q[1] = "account"
    BY <1>2
  <2>2. Awaited(q) = {"account"} /\ Awaited(Tail(q)) = {}
    BY <2>1 DEF Awaited
  <2> QED BY <2>1, <2>2 DEF Callings, Entities
<1>3. CASE q = <<"account", "paymaster">>
  <2> DEFINE t == <<"paymaster">>
  <2>1. /\ Head(q) = "account" /\ Tail(q) = t /\ Len(q) = 2 /\ q[1] = "account"
        /\ q[2] = "paymaster" /\ Len(t) = 1 /\ t[1] = "paymaster"
    BY <1>3
  <2>2. Awaited(q) = {"account", "paymaster"} /\ Awaited(t) = {"paymaster"}
    <3>1. 1..2 = {1, 2} /\ 1..1 = {1}
      OBVIOUS
    <3> HIDE DEF t
    <3> QED BY <2>1, <3>1 DEF Awaited
  <2> QED BY <2>1, <2>2 DEF Callings, Entities
<1>4. CASE q = <<"factory", "account">>
  <2> DEFINE t == <<"account">>
  <2>1. /\ Head(q) = "factory" /\ Tail(q) = t /\ Len(q) = 2 /\ q[1] = "factory"
        /\ q[2] = "account" /\ Len(t) = 1 /\ t[1] = "account"
    BY <1>4
  <2>2. Awaited(q) = {"factory", "account"} /\ Awaited(t) = {"account"}
    <3>1. 1..2 = {1, 2} /\ 1..1 = {1}
      OBVIOUS
    <3> HIDE DEF t
    <3> QED BY <2>1, <3>1 DEF Awaited
  <2> QED BY <2>1, <2>2 DEF Callings, Entities
<1>5. CASE q = <<"factory", "account", "paymaster">>
  <2> DEFINE t == <<"account", "paymaster">>
  <2>1. /\ Head(q) = "factory" /\ Tail(q) = t /\ Len(q) = 3 /\ q[1] = "factory"
        /\ q[2] = "account" /\ q[3] = "paymaster"
        /\ Len(t) = 2 /\ t[1] = "account" /\ t[2] = "paymaster"
    BY <1>5
  <2>2. Awaited(q) = {"factory", "account", "paymaster"} /\ Awaited(t) = {"account", "paymaster"}
    <3>1. 1..2 = {1, 2} /\ 1..3 = {1, 2, 3}
      OBVIOUS
    <3> HIDE DEF t
    <3> QED BY <2>1, <3>1 DEF Awaited
  <2> QED BY <2>1, <2>2 DEF Callings, Entities
<1> QED BY <1>1, <1>2, <1>3, <1>4, <1>5 DEF Callings

LEMMA NobodyAwaited == Awaited(<<>>) = {}
BY DEF Awaited

LEMMA Alone == ASSUME NEW S, NEW w \in Seq(S) PROVE <<>> \o w = w /\ w \o <<>> = w
OBVIOUS

LEMMA Two == ASSUME NEW S, NEW x \in S, NEW y \in S PROVE <<x>> \o <<y>> = <<x, y>>
<1> DEFINE s == <<x>> \o <<y>>
<1>1. s \in Seq(S) /\ Len(s) = 2 /\ s[1] = x /\ s[2] = y
  OBVIOUS
<1> HIDE DEF s
<1>2. s = <<x, y>>
  BY <1>1
<1> QED BY <1>2 DEF s

LEMMA Three ==
    ASSUME NEW S, NEW x \in S, NEW y \in S, NEW z \in S
    PROVE  <<x, y>> \o <<z>> = <<x, y, z>>
<1> DEFINE s == <<x, y>> \o <<z>>
<1>1. s \in Seq(S) /\ Len(s) = 3 /\ s[1] = x /\ s[2] = y /\ s[3] = z
  OBVIOUS
<1> HIDE DEF s
<1>2. s = <<x, y, z>>
  BY <1>1
<1> QED BY <1>2 DEF s

LEMMA PresentTurns ==
    ASSUME op \in Operations
    PROVE  PresentInOrder \in Callings /\ Awaited(PresentInOrder) = PresentEntities(op)
<1>1. /\ op.factory \in {"absent", "unstaked", "staked"} /\ op.account \in {"unstaked", "staked"}
      /\ op.paymaster \in {"absent", "unstaked", "staked"}
  BY ValidationAssumption DEF Operation
<1>2. op["factory"] = op.factory /\ op["account"] = op.account /\ op["paymaster"] = op.paymaster
  OBVIOUS
<1> DEFINE f == <<"factory">>
           a == <<"account">>
           p == <<"paymaster">>
<1>7. f \in Seq(Entities) /\ a \in Seq(Entities) /\ p \in Seq(Entities)
  BY DEF Entities
<1>8. PresentInOrder = (IF op.factory = "absent" THEN <<>> ELSE f) \o a
                         \o (IF op.paymaster = "absent" THEN <<>> ELSE p)
  BY DEF PresentInOrder
<1>9. a \o p = <<"account", "paymaster">> /\ f \o a = <<"factory", "account">>
  <2>1. "account" \in Entities /\ "factory" \in Entities /\ "paymaster" \in Entities
    BY DEF Entities
  <2> QED BY <2>1, Two
<1>10. <<"factory", "account">> \o p = <<"factory", "account", "paymaster">>
  <2>1. "account" \in Entities /\ "factory" \in Entities /\ "paymaster" \in Entities
    BY DEF Entities
  <2> QED BY <2>1, Three
<1>11. <<"factory", "account">> \in Seq(Entities)
  BY DEF Entities
<1> HIDE DEF f, a, p
<1>3. CASE op.factory = "absent" /\ op.paymaster = "absent"
  <2>1. PresentInOrder = <<"account">>
    BY <1>3, <1>7, <1>8, Alone DEF a
  <2>2. Awaited(<<"account">>) = {"account"}
    BY DEF Awaited
  <2>3. PresentEntities(op) = {"account"}
    BY <1>1, <1>2, <1>3 DEF PresentEntities, Entities
  <2> QED BY <2>1, <2>2, <2>3 DEF Callings
<1>4. CASE op.factory = "absent" /\ op.paymaster # "absent"
  <2> DEFINE t == <<"account", "paymaster">>
  <2>1. PresentInOrder = t
    BY <1>4, <1>7, <1>8, <1>9, Alone
  <2>2. Awaited(t) = {"account", "paymaster"}
    <3>1. 1..2 = {1, 2} /\ Len(t) = 2 /\ t[1] = "account" /\ t[2] = "paymaster"
      OBVIOUS
    <3> HIDE DEF t
    <3> QED BY <3>1 DEF Awaited
  <2>3. PresentEntities(op) = {"account", "paymaster"}
    BY <1>1, <1>2, <1>4 DEF PresentEntities, Entities
  <2> QED BY <2>1, <2>2, <2>3 DEF Callings
<1>5. CASE op.factory # "absent" /\ op.paymaster = "absent"
  <2> DEFINE t == <<"factory", "account">>
  <2>1. PresentInOrder = t
    BY <1>5, <1>8, <1>9, <1>11, Alone
  <2>2. Awaited(t) = {"factory", "account"}
    <3>1. 1..2 = {1, 2} /\ Len(t) = 2 /\ t[1] = "factory" /\ t[2] = "account"
      OBVIOUS
    <3> HIDE DEF t
    <3> QED BY <3>1 DEF Awaited
  <2>3. PresentEntities(op) = {"factory", "account"}
    BY <1>1, <1>2, <1>5 DEF PresentEntities, Entities
  <2> QED BY <2>1, <2>2, <2>3 DEF Callings
<1>6. CASE op.factory # "absent" /\ op.paymaster # "absent"
  <2> DEFINE t == <<"factory", "account", "paymaster">>
  <2>1. PresentInOrder = t
    BY <1>6, <1>8, <1>9, <1>10
  <2>2. Awaited(t) = {"factory", "account", "paymaster"}
    <3>1. /\ 1..3 = {1, 2, 3} /\ Len(t) = 3
          /\ t[1] = "factory" /\ t[2] = "account" /\ t[3] = "paymaster"
      OBVIOUS
    <3> HIDE DEF t
    <3> QED BY <3>1 DEF Awaited
  <2>3. PresentEntities(op) = {"factory", "account", "paymaster"}
    BY <1>1, <1>2, <1>6 DEF PresentEntities, Entities
  <2> QED BY <2>1, <2>2, <2>3 DEF Callings
<1> QED BY <1>3, <1>4, <1>5, <1>6

-----------------------------------------------------------------------------

\* The entities that have a level.
Called ==
    (PresentEntities(op) \ Awaited(calling)) \cup (IF frames = <<>> THEN {} ELSE {Entity})

LastLevel(c) == c.callsFromEntryPoint[Len(c.callsFromEntryPoint)]

Ended == op.paymaster # "absent" /\ "paymaster" \notin Awaited(calling)

\* Whose turn it is to be called, and whether one runs.
TurnsInv ==
    /\ op \in Operations /\ program \in Programs
    /\ calling \in Callings /\ Awaited(calling) \subseteq PresentEntities(op)
    /\ IsSeq(frames) /\ (frames # <<>> => calling # <<>>)

\* The entity runs first, and only the entry point uses the entry point's storage.
FramesInv ==
    /\ frames # <<>> => frames[1].code = IF Entity = "factory" THEN "creator" ELSE Entity
    /\ \A k \in 1..Len(frames) : frames[k].owner = "entryPoint" => frames[k].code = "entryPoint"

\* The account is deployed at most once, by the factory, and its level has the CREATE2.
DeployInv ==
    /\ frames = <<>> /\ "factory" \in Awaited(calling) => ~ deployed
    /\ frames # <<>> /\ Entity = "factory" =>
         /\ deployed <=> "CREATE2" \in DOMAIN LastLevel(trace).opcodes
         /\ \A k \in 1..Len(frames) : k > 2 => (frames[k].deployed <=> deployed)

\* The levels are those of the entities that were called, the last one of the one that runs.
LevelsInv ==
    /\ Collected(trace) /\ ~ trace.thrown /\ hashed \subseteq trace.keccak
    /\ LevelsAre(trace.callsFromEntryPoint, Called, hashed)
    /\ frames # <<>> => IsCurrent(trace.callsFromEntryPoint, Entity)

\* The opcode before, as the collector remembers it.
MemoryInv ==
    /\ RecentIs(trace, previous.opcode, previous.to)
    /\ frames = <<>> => previous.opcode \notin ExtCode \cup {"GAS"}

\* The calls are as parsed.
CallingInv ==
    CallsInv(mistakable, op, parseCalls(trace.calls), Len(frames), Entity = "paymaster", Ended)

\* The levels tell each of their rules.  While they are clean, the calls tell each
\* of theirs: a call that is out of gas is noted in the level alone.
BrokenNoted ==
    /\ broken \subseteq Rules
    /\ broken \cap LevelRules = {} <=> LevelsClean(op, trace.callsFromEntryPoint)
    /\ LevelsClean(op, trace.callsFromEntryPoint) =>
         \A rule \in CallRules : Told(mistakable, rule) =>
            (rule \notin broken <=> CallsClean(rule, op, parseCalls(trace.calls)))

\* The trace has all that has been broken, and nothing else.
Tracks ==
    TurnsInv /\ FramesInv /\ DeployInv /\ LevelsInv /\ MemoryInv /\ CallingInv /\ BrokenNoted

\* Only the calls change.
SameRest(c, d) ==
    /\ Collected(d) /\ d.callsFromEntryPoint = c.callsFromEntryPoint
    /\ d.keccak = c.keccak /\ d.thrown = c.thrown
    /\ \A o, t : RecentIs(c, o, t) => RecentIs(d, o, t)

LEMMA RestStays ==
    ASSUME NEW c, Collected(c)
    PROVE  /\ \A frame : SameRest(c, enter(c, frame))
           /\ \A type, data : SameRest(c, exit(c, type, data))
<1>1. ASSUME NEW x, NEW d, d = [c EXCEPT !.calls = Append(c.calls, x)]
      PROVE  SameRest(c, d)
  <2>1. /\ DOMAIN d = TraceFields /\ d.callsFromEntryPoint = c.callsFromEntryPoint
        /\ d.thrown = c.thrown /\ d.calls = Append(c.calls, x) /\ d.keccak = c.keccak
        /\ d.lastOp = c.lastOp /\ d.lastThreeOpcodes = c.lastThreeOpcodes
    BY <1>1 DEF Collected, TraceFields
  <2>2. IsSeq(Append(c.calls, x))
    BY SequenceGrows DEF Collected
  <2>3. \A o, t : RecentIs(c, o, t) => RecentIs(d, o, t)
    BY <2>1 DEF RecentIs
  <2> QED BY <2>1, <2>2, <2>3 DEF SameRest, Collected
<1> QED BY <1>1 DEF enter, exit

\* What a contract's i adds to the trace.
Adds(i, c) ==
    /\ Collected(c) /\ ~ c.thrown /\ c.calls = trace.calls
    /\ c.keccak = IF i.opcode = "KECCAK256" /\ i.short THEN trace.keccak \cup {i.to}
                  ELSE trace.keccak
    /\ RecentIs(c, i.opcode, i.to)
    /\ LevelsAre(c.callsFromEntryPoint, Called, hashed)
    /\ IsCurrent(c.callsFromEntryPoint, Entity)
    /\ "CREATE2" \in DOMAIN LastLevel(c).opcodes
         <=> "CREATE2" \in DOMAIN LastLevel(trace).opcodes \/ i.opcode = "CREATE2"
    /\ BrokenBy(i) \subseteq Rules
    /\ (broken \cup BrokenBy(i)) \cap LevelRules = {} <=> LevelsClean(op, c.callsFromEntryPoint)
    /\ \A rule \in CallRules : rule \in BrokenBy(i) <=> CallBreaks(rule, i)
    /\ i.oog => ~ LevelsClean(op, c.callsFromEntryPoint)

\* If the next trace has exactly what i broke, it goes on to track.
LEMMA AddsExact ==
    ASSUME Tracks, Seeing, frames # <<>>, NEW i, Runs(i)
    PROVE  Adds(i, Seen(trace, i, Running.owner, Len(frames)))
<1> DEFINE owner == Running.owner
           below == Len(frames)
           c == Seen(trace, i, owner, below)
           q == trace.callsFromEntryPoint
           r == c.callsFromEntryPoint
           n == Len(q)
           o == previous.opcode
           t == previous.to
           fine == ~ SeenBreaks(o, t, i, owner)
<1>1. op \in Operations /\ below \in Nat /\ below > 0
  BY SequenceFront DEF Tracks, TurnsInv
<1>2. /\ Collected(trace) /\ ~ trace.thrown /\ LevelsAre(q, Called, hashed) /\ IsCurrent(q, Entity)
      /\ RecentIs(trace, o, t) /\ Entity \in Entities
  BY Turns DEF Tracks, TurnsInv, LevelsInv, MemoryInv, Entity
<1>3. n \in Nat /\ n > 0 /\ n \in 1..n
  <2>1. n \in Nat /\ n > 0
    BY <1>2, SequenceGrows DEF LevelsAre, IsCurrent
  <2> HIDE DEF n
  <2> QED BY <2>1
<1>4. LastOk(trace)
  <2>1. LevelOk(q[n], hashed)
    BY <1>2, <1>3 DEF LevelsAre
  <2>2. Entity = "factory" => (deployed <=> "CREATE2" \in DOMAIN q[n].opcodes)
    BY DEF Tracks, DeployInv, LastLevel
  <2> QED BY <1>2, <1>3, <2>1, <2>2 DEF LastOk
<1> HIDE DEF owner, below
<1>5. SeenSays(trace, o, t, i, owner, c)
  BY <1>1, <1>2, <1>4, SeenExact
<1>6. /\ BrokenBy(i) \subseteq Rules
      /\ BrokenBy(i) \cap LevelRules = {} <=> fine
      /\ \A rule \in CallRules : rule \in BrokenBy(i) <=> CallBreaks(rule, i)
  BY BrokenExact DEF owner
<1> HIDE DEF c
<1>7. /\ Collected(c) /\ ~ c.thrown /\ c.calls = trace.calls
      /\ c.keccak = IF i.opcode = "KECCAK256" /\ i.short THEN trace.keccak \cup {i.to}
                    ELSE trace.keccak
      /\ RecentIs(c, i.opcode, i.to)
      /\ Len(r) = n
      /\ \A k \in 1..n : k # n => r[k] = q[k]
      /\ LevelOk(r[n], hashed) /\ r[n].topLevelMethodSig = q[n].topLevelMethodSig
      /\ "CREATE2" \in DOMAIN r[n].opcodes
           <=> "CREATE2" \in DOMAIN q[n].opcodes \/ i.opcode = "CREATE2"
      /\ LevelClean(op, Entity, r[n]) <=> LevelClean(op, Entity, q[n]) /\ fine
  BY <1>5 DEF SeenSays
<1>8. /\ LevelsAre(r, Called, hashed) /\ IsCurrent(r, Entity)
      /\ LevelsClean(op, r) <=> LevelsClean(op, q) /\ fine
  <2>1. IsSeq(r) /\ fine \in BOOLEAN
    BY <1>7 DEF Collected, SeenBreaks, LevelBreaks
  <2> HIDE DEF fine, q, r, n
  <2>2. Len(r) = Len(q)
    BY <1>7 DEF n
  <2> QED BY <1>2, <1>7, <2>1, <2>2, LevelsChange DEF n
<1>9. "CREATE2" \in DOMAIN LastLevel(c).opcodes
        <=> "CREATE2" \in DOMAIN LastLevel(trace).opcodes \/ i.opcode = "CREATE2"
  BY <1>7 DEF LastLevel
<1>10. broken \cap LevelRules = {} <=> LevelsClean(op, q)
  BY DEF Tracks, BrokenNoted
<1>12. i.oog => ~ fine
  BY DEF SeenBreaks, LevelBreaks
<1> HIDE DEF fine
<1>13. (broken \cup BrokenBy(i)) \cap LevelRules = {} <=> LevelsClean(op, r)
  BY <1>6, <1>8, <1>10
<1>11. Adds(i, c)
  BY <1>6, <1>7, <1>8, <1>9, <1>12, <1>13 DEF Adds
<1> QED BY <1>11 DEF c, owner, below

\* The trace before the first entity is called.
LEMMA StartedCalls ==
    /\ SameRest(NoTrace, StartedTrace)
    /\ op.version = "v0.6" => parseCalls(StartedTrace.calls) = NothingParsed
    /\ op.version # "v0.6" =>
         parseCalls(StartedTrace.calls) = [stack |-> <<Delegate, Simulate>>, out |-> <<>>]
<1> DEFINE x == Entering("CALL", "simulations", Call("entryPoint", "delegateAndRevert"))
           y == Entering("DELEGATECALL", "entryPoint",
                         Call("simulation", "simulateValidationLast"))
           b == enter(NoTrace, x)
           c == enter(b, y)
<1>1. Collected(NoTrace) /\ NoTrace.calls = <<>>
  BY NoTraceKnows DEF NoTrace
<1>2. x = Delegate /\ y = Simulate
  BY DEF Entering, Call, Plain, Delegate, Simulate
<1> HIDE DEF x, y
<1>3. StartedTrace = IF op.version = "v0.6" THEN NoTrace ELSE c
  BY DEF StartedTrace, x, y
<1>4. SameRest(NoTrace, b) /\ Collected(b) /\ SameRest(b, c)
  BY <1>1, RestStays DEF SameRest
<1>5. SameRest(NoTrace, c) /\ SameRest(NoTrace, NoTrace)
  BY <1>1, <1>4 DEF SameRest
<1>6. b.calls = Append(<<>>, Delegate)
  <2>1. Delegate = [type |-> Delegate.type, from |-> Delegate.from, to |-> Delegate.to,
                    method |-> Delegate.method, value |-> Delegate.value]
    BY DEF Delegate
  <2> QED BY <1>1, <1>2, <2>1 DEF enter, Collected, TraceFields
<1>7. c.calls = Append(b.calls, Simulate)
  <2>1. Simulate = [type |-> Simulate.type, from |-> Simulate.from, to |-> Simulate.to,
                    method |-> Simulate.method, value |-> Simulate.value]
    BY DEF Simulate
  <2> HIDE DEF b
  <2> QED BY <1>2, <1>4, <2>1 DEF enter, Collected, TraceFields
<1> HIDE DEF b, c
<1>8. parseCalls(b.calls) = [stack |-> <<Delegate>>, out |-> <<>>]
  <2>1. parseCalls(Append(<<>>, Delegate)) = Parsing(NothingParsed, Delegate)
    BY <1>1, NothingToParse, ParsedAppended DEF Collected
  <2>2. Delegate.type \notin Returning
    BY DEF Delegate, Returning
  <2>3. Parsing(NothingParsed, Delegate) = [stack |-> <<Delegate>>, out |-> <<>>]
    BY <2>2 DEF Parsing, NothingParsed
  <2> QED BY <1>6, <2>1, <2>3
<1>9. parseCalls(c.calls) = [stack |-> <<Delegate, Simulate>>, out |-> <<>>]
  <2>1. parseCalls(Append(b.calls, Simulate))
          = Parsing([stack |-> <<Delegate>>, out |-> <<>>], Simulate)
    BY <1>4, <1>8, ParsedAppended DEF Collected
  <2>2. Simulate.type \notin Returning
    BY DEF Simulate, Returning
  <2>3. Parsing([stack |-> <<Delegate>>, out |-> <<>>], Simulate)
          = [stack |-> <<Delegate, Simulate>>, out |-> <<>>]
    BY <2>2 DEF Parsing
  <2> QED BY <1>7, <2>1, <2>3
<1> QED BY <1>1, <1>3, <1>5, <1>9, NothingToParse

LEMMA InitTracks == ASSUME Init, phase = "tracing" PROVE Tracks
<1> DEFINE c == StartedTrace
           p == parseCalls(c.calls)
<1>1. /\ op \in Operations /\ program \in Programs /\ frames = <<>> /\ calling = PresentInOrder
      /\ written = {} /\ hashed = {} /\ broken = {} /\ deployed = (op.factory = "absent")
      /\ mistakable = {} /\ previous = Plain("") /\ trace = c
  BY DEF Init
<1>2. <<>> \in Seq({}) /\ Len(<<>>) = 0
  OBVIOUS
<1>3. IsSeq(<<>>)
  BY <1>2 DEF IsSeq
<1>20. (\A k \in 1..Len(<<>>) : FALSE) /\ Len(<<>>) =< 3 /\ ~ (Len(<<>>) > 0)
  OBVIOUS
<1>4. calling \in Callings /\ Awaited(calling) = PresentEntities(op) /\ Called = {}
  BY <1>1, PresentTurns DEF Called
<1>5. TurnsInv /\ FramesInv
  <2>1. TurnsInv
    BY <1>1, <1>3, <1>4 DEF TurnsInv
  <2>2. \A k \in 1..Len(frames) : FALSE
    BY <1>1, <1>20, Zenon
  <2>3. FramesInv
    BY <1>1, <2>2 DEF FramesInv
  <2> QED BY <2>1, <2>3
<1>6. DeployInv
  <2>1. "factory" \in PresentEntities(op) => op.factory # "absent"
    BY DEF PresentEntities
  <2> QED BY <1>1, <1>4, <2>1 DEF DeployInv
<1>7. /\ NoTrace.callsFromEntryPoint = <<>> /\ NoTrace.keccak = {} /\ NoTrace.thrown = FALSE
      /\ NoTrace.lastOp = "" /\ NoTrace.lastThreeOpcodes = <<>>
  BY DEF NoTrace
<1>8. /\ Collected(c) /\ c.callsFromEntryPoint = <<>> /\ ~ c.thrown
      /\ \A o, t : RecentIs(NoTrace, o, t) => RecentIs(c, o, t)
  BY <1>7, StartedCalls DEF SameRest
<1>9. LevelsInv
  <2>1. LevelsAre(<<>>, {}, {})
    BY <1>2, <1>3 DEF LevelsAre
  <2> HIDE DEF c
  <2> QED BY <1>1, <1>4, <1>8, <2>1 DEF LevelsInv
<1>10. MemoryInv
  <2>1. previous.opcode = "" /\ previous.to = ""
    BY <1>1 DEF Plain
  <2>2. RecentIs(NoTrace, "", "")
    <3>1. /\ IsSeq(NoTrace.lastThreeOpcodes) /\ Len(NoTrace.lastThreeOpcodes) =< 3
          /\ ~ (Len(NoTrace.lastThreeOpcodes) > 0)
      BY <1>20, <1>3, <1>7, Zenon
    <3>2. "" \notin ExtCode /\ ~ (NoTrace.lastOp = "GAS")
      BY <1>7 DEF ExtCode
    <3> QED BY <3>1, <3>2 DEF RecentIs
  <2> HIDE DEF c
  <2> QED BY <1>1, <1>8, <2>1, <2>2 DEF MemoryInv, ExtCode
<1>11. /\ DOMAIN p = {"stack", "out"} /\ p.out = <<>>
       /\ p.stack = IF op.version = "v0.6" THEN <<>> ELSE <<Delegate, Simulate>>
  BY StartedCalls DEF NothingParsed
<1> HIDE DEF c, p
<1>12. /\ IsSeq(p.stack) /\ Len(p.stack) = Base(op)
       /\ op.version = "v0.7" => p.stack[1] = Delegate /\ p.stack[2] = Simulate
  <2> DEFINE s == <<Delegate, Simulate>>
  <2>1. s \in Seq({Delegate, Simulate}) /\ Len(s) = 2 /\ s[1] = Delegate /\ s[2] = Simulate
    OBVIOUS
  <2> HIDE DEF s
  <2>2. IsSeq(s)
    BY <2>1 DEF IsSeq
  <2> QED BY <1>2, <1>3, <1>11, <2>1, <2>2 DEF Base, s
<1>13. \A k \in 1..Len(p.stack) : ~ (k > Base(op))
  BY <1>12, BaseType DEF BaseIs
<1>14. CallingInv
  <2>1. StackInv(mistakable, op, p.stack, 0, Entity = "paymaster")
    <3>1. Len(p.stack) = Base(op) + 0 /\ 0 \in Nat
      BY <1>12, BaseType DEF BaseIs
    <3> QED BY <1>12, <1>13, <3>1 DEF StackInv
  <2>2. OutInv(mistakable, p.out, Ended)
    BY <1>2, <1>3, <1>11 DEF OutInv
  <2> QED BY <1>1, <1>2, <1>11, <2>1, <2>2 DEF CallingInv, CallsInv, p
<1>15. BrokenNoted
  <2>1. LevelsClean(op, <<>>)
    BY <1>2 DEF LevelsClean
  <2>2. \A rule : CallsClean(rule, op, p)
    BY <1>2, <1>11, <1>13 DEF CallsClean, StackClean, OutClean
  <2> QED BY <1>1, <1>8, <2>1, <2>2 DEF BrokenNoted, p
<1> QED BY <1>5, <1>6, <1>9, <1>10, <1>14, <1>15 DEF Tracks

-----------------------------------------------------------------------------

\* While no contract runs, who pays does not matter.
LEMMA NoCalls ==
    ASSUME NEW mistaken, NEW userOp, NEW p, NEW n, n = 0, NEW paying, NEW pays, NEW ended,
           CallsInv(mistaken, userOp, p, n, paying, ended)
    PROVE  CallsInv(mistaken, userOp, p, n, pays, ended)
<1>1. Base(userOp) \in Nat
  BY BaseType DEF BaseIs
<1>2. Len(p.stack) = Base(userOp) + 0
  BY DEF CallsInv, StackInv
<1>3. \A k \in 1..Len(p.stack) : ~ (k > Base(userOp))
  BY <1>1, <1>2
<1> QED BY <1>3 DEF CallsInv, StackInv

\* What the collector makes of the entry point's own i.
LEMMA ShownAtTop ==
    ASSUME op \in Operations, Seeing, NEW c, Collected(c), ~ c.thrown, NEW i, ~ i.oog
    PROVE  AtTop(c, Shown(i, "entryPoint", 0), step(c, Shown(i, "entryPoint", 0)))
<1> DEFINE s == Shown(i, "entryPoint", 0)
<1>1. s.depth = EntryPointDepth + 0 /\ s.oog = i.oog
  BY DEF Shown
<1>2. Top = EntryPointDepth /\ Top \in Nat /\ step(c, s) = stepFrom(Top, c, s)
  BY StepIs
<1>3. s.depth = Top /\ s.depth \in Nat
  BY <1>1, <1>2
<1> HIDE DEF s
<1>4. AtTop(c, s, stepFrom(Top, c, s))
  BY <1>1, <1>2, <1>3, StepExact
<1> QED BY <1>2, <1>4 DEF s

LEMMA RecentAtTop ==
    ASSUME NEW c, NEW o, NEW t, RecentIs(c, o, t), o \notin ExtCode, NEW s,
           s.opcode \notin ExtCode \cup {"GAS"}, NEW d, AtTop(c, s, d)
    PROVE  RecentIs(d, s.opcode, s.address)
<1> DEFINE z == RecentAfter(c, s)
           e == [d EXCEPT !.lastOp = s.opcode]
<1>1. DOMAIN d = TraceFields /\ d.lastOp = "" /\ d.lastThreeOpcodes = z
  BY DEF AtTop, Collected
<1> HIDE DEF z
<1>2. e.lastOp = s.opcode /\ e.lastThreeOpcodes = z
  BY <1>1 DEF TraceFields
<1> HIDE DEF e
<1>3. \A x : x.lastThreeOpcodes = z /\ x.lastOp = s.opcode => RecentIs(x, s.opcode, s.address)
  BY RecentStep DEF z
<1>4. RecentIs(e, s.opcode, s.address)
  BY <1>2, <1>3
<1> QED BY <1>1, <1>2, <1>4 DEF RecentIs

LEMMA FreshLevel ==
    ASSUME NEW method
    PROVE  /\ LevelOk(Level(method), hashed) /\ Level(method).topLevelMethodSig = method
           /\ DOMAIN Level(method).opcodes = {}
           /\ \A e : LevelClean(op, e, Level(method))
<1> DEFINE l == Level(method)
<1>1. /\ DOMAIN l = LevelFields /\ l.topLevelMethodSig = method /\ l.opcodes = EmptyBag
      /\ l.reads = {} /\ l.writes = {} /\ l.contractSize = {} /\ l.extCodeAccessInfo = {}
      /\ l.oog = FALSE
  BY DEF Level, LevelFields
<1>2. DOMAIN EmptyBag = {}
  BY DEF EmptyBag, SetToBag
<1> HIDE DEF l
<1>3. Accessed(l) = {} /\ DOMAIN l.opcodes = {}
  BY <1>1, <1>2 DEF Accessed
<1>4. LevelOk(l, hashed)
  BY <1>1, <1>3 DEF LevelOk
<1>5. \A e : OpcodesClean(op, e, l)
  BY <1>3 DEF OpcodesClean, BagToSet, tooManyCreate2, BagIn
<1>6. \A e : LevelClean(op, e, l)
  BY <1>1, <1>3, <1>5 DEF LevelClean, AccessClean
<1> QED BY <1>1, <1>3, <1>4, <1>6 DEF l

\* The entry point calls the next entity.
CalledSays(callee, n, c) ==
    /\ Collected(c) /\ ~ c.thrown /\ c.keccak = trace.keccak
    /\ RecentIs(c, "CALL", callee)
    /\ LevelsAre(c.callsFromEntryPoint, Called \cup {Entity}, hashed)
    /\ IsCurrent(c.callsFromEntryPoint, Entity)
    /\ "CREATE2" \notin DOMAIN LastLevel(c).opcodes
    /\ LevelsClean(op, c.callsFromEntryPoint) <=> LevelsClean(op, trace.callsFromEntryPoint)
    /\ CallsInv(mistakable, op, parseCalls(c.calls), n, Entity = "paymaster", Ended)
    /\ \A rule : CallsClean(rule, op, parseCalls(c.calls))
                   <=> CallsClean(rule, op, parseCalls(trace.calls))

LEMMA CalledExact ==
    ASSUME Tracks, Seeing, frames = <<>>, calling # <<>>,
           NEW call, call = Call(IF Entity = "factory" THEN "creator" ELSE Entity, MethodOf[Entity])
    PROVE  CalledSays(call.to, 1, enter(Seen(trace, call, "entryPoint", 0),
                                            Entering("CALL", "entryPoint", call)))
<1> DEFINE s == Shown(call, "entryPoint", 0)
           c == Seen(trace, call, "entryPoint", 0)
           d == enter(c, Entering("CALL", "entryPoint", call))
           q == trace.callsFromEntryPoint
           new == Level(MethodOf[Entity])
           paying == Entity = "paymaster"
<1>1. /\ call.opcode = "CALL" /\ call.method = MethodOf[Entity] /\ call.oog = FALSE
      /\ call.value = 0
      /\ call.to = IF Entity = "factory" THEN "creator" ELSE Entity
  BY DEF Call, Plain
<1>2. /\ op \in Operations /\ Collected(trace) /\ ~ trace.thrown /\ LevelsAre(q, Called, hashed)
      /\ RecentIs(trace, previous.opcode, previous.to) /\ previous.opcode \notin ExtCode
      /\ CallsInv(mistakable, op, parseCalls(trace.calls), Len(frames), paying, Ended)
      /\ Entity \in Entities /\ Entity \in Awaited(calling)
  BY Turns DEF Tracks, TurnsInv, LevelsInv, MemoryInv, CallingInv, Entity
<1>3. Entity \notin Called
  BY <1>2 DEF Called
<1>4. /\ s.opcode = "CALL" /\ s.method = MethodOf[Entity] /\ s.address = call.to
  BY <1>1 DEF Shown
<1> HIDE DEF s
<1>5. AtTop(trace, s, c)
  <2>1. ~ Pushes("CALL")
    BY DEF Pushes, ExtCode, Returning
  <2>2. c = step(trace, s)
    BY <1>1, <2>1 DEF Seen, s
  <2> HIDE DEF c
  <2> QED BY <1>1, <1>2, <2>2, ShownAtTop DEF s
<1>6. RecentIs(c, "CALL", call.to)
  <2>1. s.opcode \notin ExtCode \cup {"GAS"}
    BY <1>4 DEF ExtCode
  <2> HIDE DEF c
  <2>2. RecentIs(c, s.opcode, s.address)
    BY <1>2, <1>5, <2>1, RecentAtTop
  <2> QED BY <1>4, <2>2
<1> HIDE DEF c
<1>7. /\ Collected(c) /\ ~ c.thrown /\ c.keccak = trace.keccak /\ c.calls = trace.calls
      /\ c.callsFromEntryPoint = Append(q, new)
  BY <1>4, <1>5 DEF AtTop, Returning
<1>8. /\ LevelsAre(Append(q, new), Called \cup {Entity}, hashed)
      /\ IsCurrent(Append(q, new), Entity)
      /\ LevelsClean(op, Append(q, new)) <=> LevelsClean(op, q)
  <2>1. /\ LevelOk(new, hashed) /\ new.topLevelMethodSig = MethodOf[Entity]
        /\ LevelClean(op, Entity, new)
    BY FreshLevel
  <2> HIDE DEF new, q
  <2> QED BY <1>2, <1>3, <2>1, LevelsMore
<1>9. SameRest(c, d)
  BY <1>7, RestStays
<1>10. d.callsFromEntryPoint = Append(q, new) /\ "CREATE2" \notin DOMAIN LastLevel(d).opcodes
  <2>1. d.callsFromEntryPoint = Append(q, new)
    BY <1>7, <1>9 DEF SameRest
  <2>2. DOMAIN new.opcodes = {}
    BY FreshLevel
  <2> HIDE DEF d, new
  <2>3. Len(Append(q, new)) = Len(q) + 1 /\ Append(q, new)[Len(q) + 1] = new
    BY <1>2, SequenceGrows DEF LevelsAre
  <2> QED BY <2>1, <2>2, <2>3 DEF LastLevel
<1>11. /\ CallsInv(mistakable, op, parseCalls(d.calls), 1, paying, Ended)
       /\ \A rule : CallsClean(rule, op, parseCalls(d.calls))
                      <=> CallsClean(rule, op, parseCalls(trace.calls))
  <2> DEFINE x == Entering("CALL", "entryPoint", call)
             n == 0
  <2>1. /\ x.to = call.to /\ x.value = 0 /\ x.from = "entryPoint" /\ x.type = "CALL"
        /\ x.method = MethodOf[Entity]
    BY <1>1 DEF Entering
  <2> HIDE DEF x
  <2>2. \A rule : GoodCall(rule, x)
    BY <1>1, <1>2, <2>1 DEF GoodCall, Entities
  <2>3. ~ IsNamed(x) /\ (IsSought(x) <=> paying)
    BY <1>1, <1>2, <2>1 DEF Sought, Entities, MethodOf, IsNamed, IsSought
  <2>4. CallIs(mistakable, x, n = 0 /\ paying)
    BY <2>1, <2>3 DEF CallIs
  <2>5. CallsInv(mistakable, op, parseCalls(c.calls), n, paying, Ended)
    BY <1>2, <1>7
  <2>6. paying \in BOOLEAN /\ Ended \in BOOLEAN /\ "CALL" \in Calls /\ ~ (n > 0) /\ n + 1 = 1
    BY DEF Ended, Calls
  <2> HIDE DEF n, paying, d
  <2>7. EnterSays(mistakable, op, c, n, paying, Ended, "CALL", "entryPoint", call, paying)
    BY <1>7, <2>4, <2>5, <2>6, EnterParsed DEF x
  <2>8. /\ CallsInv(mistakable, op, parseCalls(d.calls), n + 1, paying, Ended)
        /\ \A rule : CallsClean(rule, op, parseCalls(d.calls))
                       <=> CallsClean(rule, op, parseCalls(c.calls)) /\ GoodCall(rule, x)
    BY <2>7 DEF EnterSays, x, d
  <2> QED BY <1>7, <2>2, <2>6, <2>8
<1> HIDE DEF d
<1>12. CalledSays(call.to, 1, d)
  <2>1. /\ Collected(d) /\ ~ d.thrown /\ d.keccak = trace.keccak /\ RecentIs(d, "CALL", call.to)
    BY <1>6, <1>7, <1>9 DEF SameRest
  <2> QED BY <1>8, <1>10, <1>11, <2>1 DEF CalledSays
<1> QED BY <1>12 DEF d, c

\* A factory, through its SenderCreator.
LEMMA FactoryCalled ==
    ASSUME Tracks, Seeing, frames = <<>>, calling # <<>>, Entity = "factory",
           NEW callee, NEW c, CalledSays(callee, 1, c)
    PROVE  LET create == Call("factory", "")
           IN  CalledSays("factory", 2, enter(Seen(c, create, "creator", 1),
                                              Entering("CALL", "creator", create)))
<1> DEFINE create == Call("factory", "")
           b == Seen(c, create, "creator", 1)
           d == enter(b, Entering("CALL", "creator", create))
           q == c.callsFromEntryPoint
           r == b.callsFromEntryPoint
           n == Len(q)
           paying == Entity = "paymaster"
           called == Called \cup {Entity}
<1>1. /\ create.opcode = "CALL" /\ create.method = "" /\ create.oog = FALSE
      /\ create.value = 0 /\ create.to = "factory" /\ create.short = FALSE
      /\ create.slot = [of |-> "nobody", base |-> "address", offset |-> 0]
  BY DEF Call, Plain
<1> HIDE DEF create
<1>2. op \in Operations /\ Entity \in Entities /\ Entity \in Awaited(calling) /\ ~ deployed
  BY Turns DEF Tracks, TurnsInv, DeployInv, Entity
<1>3. /\ Collected(c) /\ ~ c.thrown /\ c.keccak = trace.keccak /\ RecentIs(c, "CALL", callee)
      /\ LevelsAre(q, called, hashed) /\ IsCurrent(q, Entity)
      /\ "CREATE2" \notin DOMAIN q[n].opcodes
      /\ LevelsClean(op, q) <=> LevelsClean(op, trace.callsFromEntryPoint)
      /\ CallsInv(mistakable, op, parseCalls(c.calls), 1, paying, Ended)
      /\ \A rule : CallsClean(rule, op, parseCalls(c.calls))
                     <=> CallsClean(rule, op, parseCalls(trace.calls))
  BY DEF CalledSays, LastLevel
<1>4. n \in Nat /\ n > 0 /\ n \in 1..n
  <2>1. n \in Nat /\ n > 0
    BY <1>3, SequenceGrows DEF LevelsAre, IsCurrent
  <2> HIDE DEF n
  <2> QED BY <2>1
<1>5. LastOk(c)
  BY <1>2, <1>3, <1>4 DEF LastOk, LevelsAre
<1>6. Runs(create)
  <2>1. [of |-> "nobody", base |-> "address", offset |-> 0] \in Slot
    BY DEF Slot
  <2> QED BY <1>1, <2>1 DEF Runs
<1>7. ~ SeenBreaks("CALL", callee, create, "creator")
  <2>1. ~ Pushes("CALL") /\ ~ Banned("CALL")
    BY DEF Pushes, ExtCode, Returning, Banned
  <2> QED BY <1>1, <2>1 DEF SeenBreaks, LevelBreaks, ExtCode
<1>8. SeenSays(c, "CALL", callee, create, "creator", b)
  BY <1>2, <1>3, <1>5, <1>6, SeenExact
<1> HIDE DEF b
<1>9. /\ Collected(b) /\ ~ b.thrown /\ b.calls = c.calls /\ b.keccak = c.keccak
      /\ RecentIs(b, "CALL", "factory")
      /\ Len(r) = n
      /\ \A k \in 1..n : k # n => r[k] = q[k]
      /\ LevelOk(r[n], hashed) /\ r[n].topLevelMethodSig = q[n].topLevelMethodSig
      /\ "CREATE2" \notin DOMAIN r[n].opcodes
      /\ LevelClean(op, Entity, r[n]) <=> LevelClean(op, Entity, q[n]) /\ TRUE
  BY <1>1, <1>3, <1>7, <1>8 DEF SeenSays
<1>10. /\ LevelsAre(r, called, hashed) /\ IsCurrent(r, Entity)
       /\ LevelsClean(op, r) <=> LevelsClean(op, q)
  <2> DEFINE fine == TRUE
  <2>1. IsSeq(r) /\ fine \in BOOLEAN
    BY <1>9 DEF Collected
  <2>3. LevelClean(op, Entity, r[n]) <=> LevelClean(op, Entity, q[n]) /\ fine
    BY <1>9
  <2> HIDE DEF fine, q, r, n, called
  <2>2. Len(r) = Len(q)
    BY <1>9 DEF n
  <2>4. /\ LevelsAre(r, called, hashed) /\ IsCurrent(r, Entity)
        /\ LevelsClean(op, r) <=> LevelsClean(op, q) /\ fine
    BY <1>2, <1>3, <1>9, <2>1, <2>2, <2>3, LevelsChange DEF n
  <2> QED BY <2>4 DEF fine
<1>11. SameRest(b, d)
  BY <1>9, RestStays
<1>12. /\ CallsInv(mistakable, op, parseCalls(d.calls), 2, paying, Ended)
       /\ \A rule : CallsClean(rule, op, parseCalls(d.calls))
                      <=> CallsClean(rule, op, parseCalls(c.calls))
  <2> DEFINE x == Entering("CALL", "creator", create)
             m == 1
  <2>1. x.to = "factory" /\ x.value = 0 /\ x.type = "CALL"
    BY <1>1 DEF Entering
  <2> HIDE DEF x
  <2>2. \A rule : GoodCall(rule, x)
    BY <2>1 DEF GoodCall
  <2>3. CallIs(mistakable, x, m = 0 /\ paying)
    BY <2>1 DEF CallIs, IsNamed, IsSought
  <2>4. CallsInv(mistakable, op, parseCalls(b.calls), m, paying, Ended)
    BY <1>3, <1>9
  <2>5. paying \in BOOLEAN /\ Ended \in BOOLEAN /\ "CALL" \in Calls /\ m + 1 = 2
    BY DEF Ended, Calls
  <2> HIDE DEF m, paying, d
  <2>6. EnterSays(mistakable, op, b, m, paying, Ended, "CALL", "creator", create, paying)
    BY <1>9, <2>3, <2>4, <2>5, EnterParsed DEF x
  <2>7. /\ CallsInv(mistakable, op, parseCalls(d.calls), m + 1, paying, Ended)
        /\ \A rule : CallsClean(rule, op, parseCalls(d.calls))
                       <=> CallsClean(rule, op, parseCalls(b.calls)) /\ GoodCall(rule, x)
    BY <2>6 DEF EnterSays, x, d
  <2> QED BY <1>9, <2>2, <2>5, <2>7
<1> HIDE DEF d
<1>13. CalledSays("factory", 2, d)
  <2>1. /\ Collected(d) /\ ~ d.thrown /\ d.keccak = trace.keccak /\ RecentIs(d, "CALL", "factory")
        /\ d.callsFromEntryPoint = r
    BY <1>3, <1>9, <1>11 DEF SameRest
  <2>2. "CREATE2" \notin DOMAIN LastLevel(d).opcodes
    BY <1>9, <2>1 DEF LastLevel
  <2> QED BY <1>3, <1>10, <1>12, <2>1, <2>2 DEF CalledSays
<1> QED BY <1>13 DEF d, b, create

LEMMA RecentPlain ==
    ASSUME NEW c, NEW o, NEW t, RecentIs(c, o, t), o \notin ExtCode \cup {"GAS"},
           NEW p, NEW u, p \notin ExtCode \cup {"GAS"}
    PROVE  RecentIs(c, p, u)
BY DEF RecentIs

\* The entry point calls an entity.
LEMMA CallTracks == ASSUME Tracks, Seeing, CallEntity PROVE Tracks'
<1> DEFINE e == Entity
           call == Call(IF e = "factory" THEN "creator" ELSE e, MethodOf[e])
           create == Call("factory", "")
           called == enter(Seen(trace, call, "entryPoint", 0),
                           Entering("CALL", "entryPoint", call))
           deploying == enter(Seen(called, create, "creator", 1),
                              Entering("CALL", "creator", create))
           n == Len(frames')
<1>1. /\ frames = <<>> /\ calling # <<>>
      /\ frames' = IF e = "factory"
                   THEN <<Frame("creator", "creator"), Frame("factory", "factory")>>
                   ELSE <<Frame(e, e)>>
      /\ trace' = IF e = "factory" THEN deploying ELSE called
      /\ UNCHANGED <<op, program, calling, deployed, hashed, previous, broken, mistakable>>
  BY DEF CallEntity, fixed, Entity
<1>2. CalledSays(call.to, 1, called)
  BY <1>1, CalledExact
<1> HIDE DEF called, call
<1>3. e = "factory" => CalledSays("factory", 2, deploying)
  BY <1>1, <1>2, FactoryCalled
<1> HIDE DEF deploying
<1>4. /\ IsSeq(frames') /\ frames' # <<>> /\ n = IF e = "factory" THEN 2 ELSE 1
      /\ frames'[1].code = IF e = "factory" THEN "creator" ELSE e
      /\ \A k \in 1..n : frames'[k].owner \in {"creator", "factory", e} /\ ~ (k > 2)
  <2>1. \A x : Frame(x, x).code = x /\ Frame(x, x).owner = x
    BY DEF Frame
  <2>2. CASE e = "factory"
    <3> DEFINE x == Frame("creator", "creator")
               y == Frame("factory", "factory")
    <3>1. /\ x.code = "creator" /\ x.owner = "creator" /\ y.owner = "factory"
      BY <2>1
    <3> HIDE DEF x, y, e
    <3>2. frames' = <<x, y>>
      BY <1>1, <2>2 DEF x, y
    <3>3. <<x, y>> \in Seq({x, y}) /\ <<x, y>> # <<>> /\ Len(<<x, y>>) = 2
      OBVIOUS
    <3>4. frames'[1] = x /\ frames'[2] = y /\ n = 2
      BY <3>2
    <3>5. 1..2 = {1, 2}
      OBVIOUS
    <3>6. IsSeq(frames') /\ frames' # <<>>
      <4>1. \A q : q \in Seq({x, y}) => IsSeq(q)
        BY DEF IsSeq
      <4> QED BY <3>2, <3>3, <4>1
    <3> HIDE DEF n
    <3>7. \A k \in 1..n : frames'[k].owner \in {"creator", "factory", e} /\ ~ (k > 2)
      <4>1. \A k \in 1..n : k = 1 \/ k = 2
        BY <3>4, <3>5
      <4>2. ~ (1 > 2) /\ ~ (2 > 2)
        OBVIOUS
      <4> QED BY <3>1, <3>4, <4>1, <4>2
    <3> QED BY <2>2, <3>1, <3>4, <3>6, <3>7
  <2>3. CASE e # "factory"
    <3> DEFINE x == Frame(e, e)
    <3>1. x.code = e /\ x.owner = e
      BY <2>1
    <3> HIDE DEF x, e
    <3>2. frames' = <<x>>
      BY <1>1, <2>3 DEF x
    <3>3. <<x>> \in Seq({x}) /\ <<x>> # <<>> /\ Len(<<x>>) = 1
      OBVIOUS
    <3>4. frames'[1] = x /\ n = 1
      BY <3>2
    <3>5. 1..1 = {1}
      OBVIOUS
    <3>6. IsSeq(frames') /\ frames' # <<>>
      <4>1. \A q : q \in Seq({x}) => IsSeq(q)
        BY DEF IsSeq
      <4> QED BY <3>2, <3>3, <4>1
    <3> HIDE DEF n
    <3>7. \A k \in 1..n : frames'[k].owner \in {"creator", "factory", e} /\ ~ (k > 2)
      <4>1. \A k \in 1..n : k = 1
        BY <3>4, <3>5
      <4>2. ~ (1 > 2)
        OBVIOUS
      <4> QED BY <3>1, <3>4, <4>1, <4>2
    <3> QED BY <2>3, <3>1, <3>4, <3>6, <3>7
  <2> QED BY <2>2, <2>3
<1>5. PICK callee : CalledSays(callee, n, trace')
  BY <1>1, <1>2, <1>3, <1>4
<1>6. /\ op \in Operations /\ program \in Programs
      /\ calling \in Callings /\ Awaited(calling) \subseteq PresentEntities(op)
      /\ e \in Entities /\ e \in Awaited(calling)
  BY <1>1, Turns DEF Tracks, TurnsInv, Entity
<1>7. Entity' = e /\ Called' = Called \cup {e} /\ Ended' = Ended
  BY <1>1, <1>4 DEF Entity, Called, Ended
<1> HIDE DEF e, n
<1>8. TurnsInv'
  BY <1>1, <1>4, <1>6 DEF TurnsInv
<1>9. FramesInv'
  BY <1>4, <1>6, <1>7 DEF FramesInv, Entities, n
<1>10. DeployInv'
  <2>1. e = "factory" => ~ deployed
    BY <1>1, <1>6 DEF Tracks, DeployInv
  <2>2. "CREATE2" \notin DOMAIN LastLevel(trace').opcodes
    BY <1>5 DEF CalledSays
  <2> QED BY <1>1, <1>4, <1>7, <2>1, <2>2 DEF DeployInv, LastLevel, n
<1>11. LevelsInv'
  BY <1>1, <1>5, <1>7 DEF LevelsInv, CalledSays, Tracks, e
<1>12. MemoryInv'
  <2>1. previous.opcode \notin ExtCode \cup {"GAS"}
    BY <1>1 DEF Tracks, MemoryInv
  <2>2. RecentIs(trace', "CALL", callee) /\ "CALL" \notin ExtCode \cup {"GAS"}
    BY <1>5 DEF CalledSays, ExtCode
  <2>3. RecentIs(trace', previous.opcode, previous.to)
    BY <2>1, <2>2, RecentPlain
  <2> QED BY <1>1, <2>1, <2>3 DEF MemoryInv
<1>13. CallingInv'
  BY <1>1, <1>5, <1>7 DEF CallingInv, CalledSays, e, n
<1>14. BrokenNoted'
  BY <1>1, <1>5 DEF BrokenNoted, CalledSays, Tracks
<1> QED BY <1>8, <1>9, <1>10, <1>11, <1>12, <1>13, <1>14 DEF Tracks

LEMMA Inside ==
    ASSUME Tracks, frames # <<>>
    PROVE  /\ Len(frames) \in Nat /\ Len(frames) > 0 /\ Len(frames) \in 1..Len(frames)
           /\ IsSeq(frames) /\ Running = frames[Len(frames)]
           /\ op \in Operations /\ program \in Programs /\ calling # <<>>
           /\ calling \in Callings /\ Awaited(calling) \subseteq PresentEntities(op)
           /\ Entity \in Entities /\ Entity \in Awaited(calling)
<1> DEFINE n == Len(frames)
<1>1. IsSeq(frames) /\ calling \in Callings /\ calling # <<>>
  BY DEF Tracks, TurnsInv
<1>2. n \in Nat /\ n > 0
  BY <1>1, SequenceFront
<1>3. Running = frames[n]
  BY DEF Running, Last
<1> HIDE DEF n
<1>4. n \in 1..n
  BY <1>2
<1>5. Entity \in Entities /\ Entity \in Awaited(calling)
  BY <1>1, Turns DEF Entity
<1> QED BY <1>1, <1>2, <1>3, <1>4, <1>5 DEF Tracks, TurnsInv, n

\* A contract that runs is the entity, or below it.
LEMMA BelowEntity ==
    ASSUME Tracks, frames # <<>>, Running.code \in Entities \cup {"token", "entryPoint"},
           ~ EntityRuns
    PROVE  Len(frames) > 1 /\ (Entity = "factory" => Len(frames) > 2)
<1> DEFINE n == Len(frames)
<1>1. n \in Nat /\ n > 0 /\ Running = frames[n]
  BY Inside
<1>2. n # IF Entity = "factory" THEN 2 ELSE 1
  BY DEF EntityRuns
<1>3. Entity = "factory" => n # 1
  <2>1. Entity = "factory" => frames[1].code = "creator"
    BY DEF Tracks, FramesInv
  <2>2. "creator" \notin Entities \cup {"token", "entryPoint"}
    BY DEF Entities
  <2> QED BY <1>1, <2>1, <2>2
<1> HIDE DEF n
<1>4. Entity = "factory" => n # 1 /\ n # 2
  BY <1>2, <1>3
<1>5. n # 1
  BY <1>2, <1>4
<1>6. n > 1
  BY <1>1, <1>5
<1>7. Entity = "factory" => n > 2
  BY <1>1, <1>4
<1> QED BY <1>6, <1>7 DEF n

\* Another frame than the first returns.
LEMMA FrameEnds ==
    ASSUME Tracks, Len(frames) > 1, frames' = Front(frames),
           op' = op, program' = program, calling' = calling
    PROVE  /\ TurnsInv' /\ FramesInv'
           /\ Entity' = Entity /\ Called' = Called /\ Ended' = Ended
           /\ frames # <<>> /\ frames' # <<>> /\ Len(frames') = Len(frames) - 1
           /\ \A k \in 1..Len(frames') : k \in 1..Len(frames) /\ frames'[k] = frames[k]
<1> DEFINE n == Len(frames)
<1>1. frames # <<>>
  <2>1. Len(<<>>) = 0 /\ ~ (0 > 1)
    OBVIOUS
  <2> QED BY <2>1, Zenon
<1>2. /\ n \in Nat /\ n > 0 /\ IsSeq(frames) /\ op \in Operations /\ program \in Programs
      /\ calling \in Callings /\ Awaited(calling) \subseteq PresentEntities(op)
      /\ calling # <<>>
  BY <1>1, Inside
<1>3. /\ IsSeq(frames') /\ Len(frames') = n - 1
      /\ \A k \in 1..(n - 1) : frames'[k] = frames[k]
  BY <1>1, <1>2, SequenceFront
<1>4. n > 1
  OBVIOUS
<1> HIDE DEF n
<1>5. n - 1 > 0 /\ n - 1 # 0 /\ 1 \in 1..(n - 1) /\ \A k \in 1..(n - 1) : k \in 1..n
  BY <1>2, <1>4
<1>6. frames' # <<>>
  BY <1>3, <1>5, SequenceEmpty
<1>7. Entity' = Entity /\ Called' = Called /\ Ended' = Ended
  BY <1>1, <1>6 DEF Entity, Called, Ended
<1>8. TurnsInv'
  BY <1>2, <1>3 DEF TurnsInv
<1>9. FramesInv'
  <2>1. /\ frames[1].code = IF Entity = "factory" THEN "creator" ELSE Entity
        /\ \A k \in 1..n : frames[k].owner = "entryPoint" => frames[k].code = "entryPoint"
    BY <1>1 DEF Tracks, FramesInv, n
  <2>2. frames'[1] = frames[1]
    BY <1>3, <1>5
  <2>3. \A k \in 1..(n - 1) : frames'[k].owner = "entryPoint" => frames'[k].code = "entryPoint"
    BY <1>3, <1>5, <2>1
  <2> QED BY <1>3, <1>7, <2>1, <2>2, <2>3 DEF FramesInv
<1> QED BY <1>1, <1>3, <1>5, <1>6, <1>7, <1>8, <1>9 DEF n

HashedAfter(i) == IF i.opcode = "KECCAK256" /\ i.short THEN hashed \cup {i.to} ELSE hashed

\* The levels after i, whatever becomes of the calls.
LEMMA LevelsStay ==
    ASSUME Tracks, NEW i, NEW c, Adds(i, c), SameRest(c, trace'), hashed' = HashedAfter(i),
           Called' = Called, frames' # <<>> => Entity' = Entity
    PROVE  /\ LevelsInv' /\ RecentIs(trace', i.opcode, i.to)
           /\ trace'.callsFromEntryPoint = c.callsFromEntryPoint
           /\ "CREATE2" \in DOMAIN LastLevel(trace').opcodes
                <=> "CREATE2" \in DOMAIN LastLevel(trace).opcodes \/ i.opcode = "CREATE2"
<1> DEFINE q == c.callsFromEntryPoint
<1>1. /\ Collected(trace') /\ trace'.callsFromEntryPoint = q /\ trace'.keccak = c.keccak
      /\ trace'.thrown = c.thrown
      /\ \A o, t : RecentIs(c, o, t) => RecentIs(trace', o, t)
  BY DEF SameRest
<1>2. /\ ~ c.thrown /\ RecentIs(c, i.opcode, i.to)
      /\ c.keccak = IF i.opcode = "KECCAK256" /\ i.short THEN trace.keccak \cup {i.to}
                    ELSE trace.keccak
      /\ LevelsAre(q, Called, hashed) /\ IsCurrent(q, Entity)
      /\ "CREATE2" \in DOMAIN LastLevel(c).opcodes
           <=> "CREATE2" \in DOMAIN LastLevel(trace).opcodes \/ i.opcode = "CREATE2"
  BY DEF Adds
<1>3. hashed' \subseteq trace'.keccak /\ hashed \subseteq hashed'
  BY <1>1, <1>2 DEF Tracks, LevelsInv, HashedAfter
<1>4. LevelsAre(q, Called, hashed')
  BY <1>2, <1>3, MoreSlots
<1>5. LevelsInv'
  BY <1>1, <1>2, <1>3, <1>4 DEF LevelsInv
<1>6. LastLevel(trace') = LastLevel(c)
  BY <1>1 DEF LastLevel
<1> QED BY <1>1, <1>2, <1>5, <1>6

LEMMA BrokenStays ==
    ASSUME Tracks, NEW i, NEW c, Adds(i, c), trace'.callsFromEntryPoint = c.callsFromEntryPoint,
           op' = op, mistakable \subseteq mistakable',
           i.oog \/ \A rule : Told(mistakable, rule) =>
             (CallsClean(rule, op, parseCalls(trace'.calls))
                <=> CallsClean(rule, op, parseCalls(c.calls)) /\ ~ CallBreaks(rule, i)),
           broken' = broken \cup BrokenBy(i)
    PROVE  BrokenNoted'
<1> DEFINE levels == LevelsClean(op, c.callsFromEntryPoint)
           before == LevelsClean(op, trace.callsFromEntryPoint)
<1>1. /\ BrokenBy(i) \subseteq Rules /\ c.calls = trace.calls
      /\ broken' \cap LevelRules = {} <=> levels
      /\ \A rule \in CallRules : rule \in BrokenBy(i) <=> CallBreaks(rule, i)
      /\ i.oog => ~ levels
  BY DEF Adds
<1>2. /\ broken \subseteq Rules
      /\ broken \cap LevelRules = {} <=> before
      /\ before => \A rule \in CallRules : Told(mistakable, rule) =>
           (rule \notin broken <=> CallsClean(rule, op, parseCalls(trace.calls)))
  BY DEF Tracks, BrokenNoted
<1> HIDE DEF levels, before
<1>3. levels => before
  BY <1>1, <1>2
<1>4. \A rule : Told(mistakable', rule) => Told(mistakable, rule)
  BY DEF Told
<1>5. ASSUME levels, NEW rule \in CallRules, Told(mistakable', rule)
      PROVE  rule \notin broken' <=> CallsClean(rule, op, parseCalls(trace'.calls))
  <2>1. rule \notin broken <=> CallsClean(rule, op, parseCalls(c.calls))
    BY <1>1, <1>2, <1>3, <1>4, <1>5
  <2>2. CallsClean(rule, op, parseCalls(trace'.calls))
          <=> CallsClean(rule, op, parseCalls(c.calls)) /\ ~ CallBreaks(rule, i)
    BY <1>1, <1>4, <1>5
  <2>3. rule \in BrokenBy(i) <=> CallBreaks(rule, i)
    BY <1>1
  <2> QED BY <2>1, <2>2, <2>3
<1>6. broken' \subseteq Rules
  BY <1>1, <1>2
<1> QED BY <1>1, <1>5, <1>6 DEF BrokenNoted, levels

\* A frame is reverted by i, which may have been out of gas.
LEMMA RevertedTracks ==
    ASSUME Tracks, frames # <<>>, NEW i, NEW c, Adds(i, c), Reverted(c),
           Running.code \in Entities \cup {"token", "entryPoint"},
           i.opcode = "CREATE2" => EntityRuns,
           ~ i.oog => \A rule : ~ CallBreaks(rule, i), mistakable \subseteq mistakable',
           previous' = i, broken' = broken \cup BrokenBy(i), hashed' = HashedAfter(i),
           op' = op, program' = program, calling' = calling
    PROVE  phase' = "failed" \/ (phase' = phase /\ Tracks')
<1> DEFINE n == Len(frames)
           paying == Entity = "paymaster"
           d == exit(c, "REVERT", "")
<1>1. CASE EntityRuns
  BY <1>1 DEF Reverted
<1>2. CASE ~ EntityRuns
  <2>1. /\ trace' = d /\ deployed' = Running.deployed /\ frames' = Front(frames)
        /\ phase' = phase
    BY <1>2 DEF Reverted
  <2>2. n > 1 /\ (Entity = "factory" => n > 2)
    BY <1>2, BelowEntity
  <2>3. /\ n \in Nat /\ n \in 1..n /\ Running = frames[n] /\ n > 0 /\ n # 1
    <3>1. n \in Nat /\ n \in 1..n /\ Running = frames[n] /\ n > 0
      BY Inside
    <3> HIDE DEF n
    <3> QED BY <2>2, <3>1
  <2>4. /\ TurnsInv' /\ FramesInv'
        /\ Entity' = Entity /\ Called' = Called /\ Ended' = Ended
        /\ frames' # <<>> /\ Len(frames') = n - 1
        /\ \A k \in 1..Len(frames') : k \in 1..n /\ frames'[k] = frames[k]
    BY <2>1, <2>2, FrameEnds
  <2>5. Collected(c) /\ c.calls = trace.calls
    BY DEF Adds
  <2>6. SameRest(c, trace')
    BY <2>1, <2>5, RestStays
  <2>7. /\ LevelsInv' /\ RecentIs(trace', i.opcode, i.to)
        /\ trace'.callsFromEntryPoint = c.callsFromEntryPoint
        /\ "CREATE2" \in DOMAIN LastLevel(trace').opcodes
             <=> "CREATE2" \in DOMAIN LastLevel(trace).opcodes \/ i.opcode = "CREATE2"
    BY <2>4, <2>6, LevelsStay
  <2>8. MemoryInv'
    BY <2>4, <2>7 DEF MemoryInv
  <2>9. DeployInv'
    <3>1. ASSUME Entity = "factory"
          PROVE  /\ deployed <=> "CREATE2" \in DOMAIN LastLevel(trace).opcodes
                 /\ \A k \in 1..n : k > 2 => (frames[k].deployed <=> deployed)
      BY <3>1 DEF Tracks, DeployInv, n
    <3>2. Entity = "factory" => (deployed' <=> deployed)
      BY <2>1, <2>2, <2>3, <3>1
    <3> HIDE DEF n
    <3>3. Entity = "factory" =>
            /\ deployed' <=> "CREATE2" \in DOMAIN LastLevel(trace').opcodes
            /\ \A k \in 1..Len(frames') : k > 2 => (frames'[k].deployed <=> deployed')
      BY <1>2, <2>4, <2>7, <3>1, <3>2
    <3> QED BY <2>4, <3>3 DEF DeployInv
  <2>10. /\ CallingInv'
         /\ \A rule : Told(mistakable, rule) =>
              (CallsClean(rule, op, parseCalls(trace'.calls))
                 <=> CallsClean(rule, op, parseCalls(c.calls)))
    <3>1. CallsInv(mistakable, op, parseCalls(c.calls), n, paying, Ended)
      BY <2>5 DEF Tracks, CallingInv
    <3>2. paying \in BOOLEAN /\ Ended \in BOOLEAN /\ "REVERT" \in Returning
      BY DEF Ended, Returning
    <3> HIDE DEF n, paying, d
    <3>3. ExitSays(mistakable, op, c, n, paying, Ended, "REVERT", "", Ended)
      BY <2>3, <2>5, <3>1, <3>2, ExitParsed
    <3>4. /\ CallsInv(mistakable, op, parseCalls(d.calls), n - 1, paying, Ended)
          /\ \A rule : Told(mistakable, rule) =>
               (CallsClean(rule, op, parseCalls(d.calls))
                  <=> CallsClean(rule, op, parseCalls(c.calls)))
      BY <3>3 DEF ExitSays, WellReturned, d
    <3>5. CallsInv(mistakable', op, parseCalls(d.calls), n - 1, paying, Ended)
      BY <3>4, CallsMore
    <3> QED BY <2>1, <2>4, <3>4, <3>5 DEF CallingInv, paying
  <2>11. BrokenNoted'
    BY <2>7, <2>10, BrokenStays
  <2> QED BY <2>1, <2>4, <2>7, <2>8, <2>9, <2>10, <2>11 DEF Tracks
<1> QED BY <1>1, <1>2

\* A contract reverts.
LEMMA RevertTracks ==
    ASSUME Tracks, Seeing, Revert
    PROVE  phase' = "failed" \/ (phase' = phase /\ Tracks')
<1> DEFINE i == Plain("REVERT")
           c == Seen(trace, i, Running.owner, Len(frames))
<1>1. /\ frames # <<>> /\ Running.code \in Entities \cup {"token"} /\ Reverted(c)
      /\ previous' = i /\ broken' = broken \cup BrokenBy(i) /\ hashed' = hashed
      /\ op' = op /\ program' = program /\ calling' = calling /\ mistakable' = mistakable
  BY DEF Revert, fixed
<1>2. i.opcode = "REVERT" /\ i.oog = FALSE /\ i.short = FALSE /\ Runs(i)
  BY DEF Plain, Runs, Calls, ExtCode, Slot
<1> HIDE DEF i
<1>3. Adds(i, c)
  BY <1>1, <1>2, AddsExact
<1>4. /\ \A rule : ~ CallBreaks(rule, i)
      /\ hashed' = HashedAfter(i) /\ mistakable \subseteq mistakable'
  BY <1>1, <1>2 DEF CallBreaks, Calls, HashedAfter
<1> HIDE DEF c
<1> QED BY <1>1, <1>2, <1>3, <1>4, RevertedTracks

LEMMA ExecuteRuns ==
    ASSUME Tracks, frames # <<>>, NEW i \in program, CanRun(i)
    PROVE  /\ Runs(i) /\ i.oog \in BOOLEAN
           /\ i.opcode = "CREATE2" => EntityRuns /\ i.to # "entryPoint"
           /\ i.opcode \notin Returning \cup {"STOP"}
           /\ Running.code \in Entities \cup {"token", "entryPoint"}
           /\ i.opcode \in Calls => Running.owner # "entryPoint"
<1>1. program \in Programs /\ Running = frames[Len(frames)] /\ Len(frames) \in 1..Len(frames)
  BY Inside
<1>2. program \subseteq Instruction /\ Ordinary(i)
  BY <1>1, ValidationAssumption
<1>3. /\ i.slot \in Slot /\ i.oog \in BOOLEAN
      /\ i.opcode \notin Returning \cup {"STOP", "CREATE", "SELFDESTRUCT"}
      /\ i.opcode \in Calls \cup ExtCode => i.to # ""
      /\ i.opcode = "CREATE2" => i.to # "entryPoint"
  BY <1>2 DEF Instruction, Ordinary
<1>4. /\ i.opcode \in {"SLOAD", "SSTORE"} /\ i.slot.base = "keccak" => i.slot.of \in hashed
      /\ Running.code = "entryPoint" => i.opcode = "SSTORE"
      /\ i.opcode = "CREATE2" => EntityRuns
      /\ Running.code \in Entities \cup {"token", "entryPoint"}
  BY DEF CanRun
<1>5. Runs(i)
  BY <1>3, <1>4 DEF Runs
<1>7. Running.owner = "entryPoint" => Running.code = "entryPoint"
  BY <1>1 DEF Tracks, FramesInv
<1>8. i.opcode \in Calls => Running.owner # "entryPoint"
  BY <1>4, <1>7 DEF Calls
<1> QED BY <1>3, <1>4, <1>5, <1>8

\* A contract's call may be taken for another, and that is noted; or it may not.
LEMMA TakenExact ==
    ASSUME NEW i, i.opcode \in Calls, NEW from, NEW mistaken, TakenFor(i) \subseteq mistaken
    PROVE  CallIs(mistaken, Entering(i.opcode, from, i), FALSE)
<1> DEFINE x == Entering(i.opcode, from, i)
<1>1. x.type = i.opcode /\ x.to = i.to /\ x.method = i.method
  BY DEF Entering
<1> HIDE DEF x
<1>2. x.type \notin {"CREATE", "CREATE2"}
  BY <1>1 DEF Calls
<1>3. IsNamed(x) => "OP052" \in mistaken
  BY <1>1 DEF IsNamed, TakenFor
<1>4. IsSought(x) => "EREP050" \in mistaken
  BY <1>1 DEF IsSought, TakenFor, Sought, MethodOf
<1>5. CallIs(mistaken, x, FALSE)
  BY <1>2, <1>3, <1>4 DEF CallIs
<1> QED BY <1>5 DEF x

\* A contract calls another.
LEMMA FrameBegins ==
    ASSUME Tracks, frames # <<>>, NEW x, frames' = Append(frames, x),
           x.owner = "entryPoint" => x.code = "entryPoint",
           op' = op, program' = program, calling' = calling
    PROVE  /\ TurnsInv' /\ FramesInv'
           /\ Entity' = Entity /\ Called' = Called /\ Ended' = Ended
           /\ frames' # <<>> /\ Len(frames') = Len(frames) + 1
           /\ \A k \in 1..Len(frames') :
                \/ k \in 1..Len(frames) /\ frames'[k] = frames[k]
                \/ k = Len(frames) + 1 /\ frames'[k] = x
<1> DEFINE n == Len(frames)
<1>1. /\ n \in Nat /\ n > 0 /\ IsSeq(frames) /\ op \in Operations /\ program \in Programs
      /\ calling \in Callings /\ Awaited(calling) \subseteq PresentEntities(op)
      /\ calling # <<>>
  BY Inside
<1>2. /\ IsSeq(frames') /\ Len(frames') = n + 1 /\ frames'[n + 1] = x
      /\ \A k \in 1..n : frames'[k] = frames[k]
  BY <1>1, SequenceGrows
<1>3. /\ frames[1].code = IF Entity = "factory" THEN "creator" ELSE Entity
      /\ \A k \in 1..n : frames[k].owner = "entryPoint" => frames[k].code = "entryPoint"
  BY DEF Tracks, FramesInv
<1> HIDE DEF n
<1>4. /\ n + 1 # 0 /\ 1 \in 1..n /\ \A k \in 1..(n + 1) : k \in 1..n \/ k = n + 1
  BY <1>1
<1>5. frames' # <<>>
  BY <1>2, <1>4, SequenceEmpty
<1>6. Entity' = Entity /\ Called' = Called /\ Ended' = Ended
  BY <1>5 DEF Entity, Called, Ended
<1>7. TurnsInv'
  BY <1>1, <1>2 DEF TurnsInv
<1>8. FramesInv'
  <2>1. frames'[1] = frames[1]
    BY <1>2, <1>4
  <2>2. \A k \in 1..(n + 1) : frames'[k].owner = "entryPoint" => frames'[k].code = "entryPoint"
    BY <1>2, <1>3, <1>4
  <2> QED BY <1>2, <1>3, <1>6, <2>1, <2>2 DEF FramesInv
<1>9. \A k \in 1..(n + 1) : \/ k \in 1..n /\ frames'[k] = frames[k]
                            \/ k = n + 1 /\ frames'[k] = x
  BY <1>2, <1>4
<1> QED BY <1>2, <1>5, <1>6, <1>7, <1>8, <1>9 DEF n

LEMMA CallingTracks ==
    ASSUME Tracks, frames # <<>>, NEW i, NEW c, Adds(i, c), i.opcode \in Calls,
           ~ i.oog, mistakable' = mistakable \cup TakenFor(i),
           Running.owner # "entryPoint",
           frames' = Append(frames, Frame(i.to, IF i.opcode = "DELEGATECALL"
                                                THEN Running.owner ELSE i.to)),
           trace' = enter(c, Entering(i.opcode, Running.owner, i)),
           previous' = i, broken' = broken \cup BrokenBy(i), hashed' = HashedAfter(i),
           op' = op, program' = program, calling' = calling, deployed' <=> deployed
    PROVE  Tracks'
<1> DEFINE n == Len(frames)
           paying == Entity = "paymaster"
           x == Frame(i.to, IF i.opcode = "DELEGATECALL" THEN Running.owner ELSE i.to)
           y == Entering(i.opcode, Running.owner, i)
           d == enter(c, y)
<1>1. x.deployed = deployed /\ (x.owner = "entryPoint" => x.code = "entryPoint")
  BY DEF Frame
<1>2. n \in Nat /\ n > 0
  BY Inside
<1> HIDE DEF x
<1>3. frames' = Append(frames, x)
  BY DEF x
<1>4. /\ TurnsInv' /\ FramesInv'
      /\ Entity' = Entity /\ Called' = Called /\ Ended' = Ended
      /\ frames' # <<>> /\ Len(frames') = n + 1
      /\ \A k \in 1..Len(frames') : \/ k \in 1..n /\ frames'[k] = frames[k]
                                    \/ k = n + 1 /\ frames'[k] = x
  BY <1>1, <1>3, FrameBegins
<1>5. Collected(c) /\ c.calls = trace.calls
  BY DEF Adds
<1>6. SameRest(c, trace')
  BY <1>5, RestStays
<1>7. /\ LevelsInv' /\ RecentIs(trace', i.opcode, i.to)
      /\ trace'.callsFromEntryPoint = c.callsFromEntryPoint
      /\ "CREATE2" \in DOMAIN LastLevel(trace').opcodes
           <=> "CREATE2" \in DOMAIN LastLevel(trace).opcodes \/ i.opcode = "CREATE2"
  BY <1>4, <1>6, LevelsStay
<1>8. MemoryInv'
  BY <1>4, <1>7 DEF MemoryInv
<1>9. DeployInv'
  <2>1. i.opcode # "CREATE2"
    BY DEF Calls
  <2>2. Entity = "factory" =>
          /\ deployed <=> "CREATE2" \in DOMAIN LastLevel(trace).opcodes
          /\ \A k \in 1..n : k > 2 => (frames[k].deployed <=> deployed)
    BY DEF Tracks, DeployInv
  <2>3. Entity = "factory" =>
          \A k \in 1..Len(frames') : k > 2 => (frames'[k].deployed <=> deployed)
    <3> HIDE DEF n
    <3> QED BY <1>1, <1>4, <2>2
  <2> QED BY <1>4, <1>7, <2>1, <2>2, <2>3 DEF DeployInv
<1>10. \A rule : GoodCall(rule, y) <=> ~ CallBreaks(rule, i)
  <2>1. y.to = i.to /\ y.from = Running.owner /\ y.method = i.method /\ y.value = i.value
    BY DEF Entering
  <2> HIDE DEF y
  <2> QED BY <2>1 DEF GoodCall, CallBreaks
<1>11. /\ CallingInv'
       /\ \A rule : CallsClean(rule, op, parseCalls(trace'.calls))
                      <=> CallsClean(rule, op, parseCalls(c.calls)) /\ ~ CallBreaks(rule, i)
  <2>1. CallsInv(mistakable, op, parseCalls(c.calls), n, paying, Ended)
    BY <1>5 DEF Tracks, CallingInv
  <2>2. /\ paying \in BOOLEAN /\ Ended \in BOOLEAN /\ n # 0
        /\ trace' = d
    BY <1>2 DEF Ended
  <2>3. CallIs(mistakable', y, FALSE)
    BY TakenExact
  <2> HIDE DEF n, paying, d, y
  <2>4. CallIs(mistakable', y, n = 0 /\ paying)
    BY <2>2, <2>3 DEF CallIs
  <2>5. CallsInv(mistakable', op, parseCalls(c.calls), n, paying, Ended)
    BY <2>1, CallsMore
  <2>6. EnterSays(mistakable', op, c, n, paying, Ended, i.opcode, Running.owner, i, paying)
    BY <1>5, <2>2, <2>4, <2>5, EnterParsed DEF y
  <2>7. /\ CallsInv(mistakable', op, parseCalls(d.calls), n + 1, paying, Ended)
        /\ \A rule : CallsClean(rule, op, parseCalls(d.calls))
                       <=> CallsClean(rule, op, parseCalls(c.calls)) /\ GoodCall(rule, y)
    BY <2>6 DEF EnterSays, y, d
  <2> QED BY <1>4, <1>10, <2>2, <2>7 DEF CallingInv, paying
<1>12. BrokenNoted'
  BY <1>7, <1>11, BrokenStays
<1> QED BY <1>4, <1>7, <1>8, <1>9, <1>11, <1>12 DEF Tracks

LEMMA TwoAtMost == \A k \in 1..2 : ~ (k > 2)
OBVIOUS

\* Anything else that does not change the frames.
LEMMA StayingTracks ==
    ASSUME Tracks, frames # <<>>, NEW i, NEW c, Adds(i, c), i.opcode \notin Calls,
           i.opcode = "CREATE2" => EntityRuns /\ i.to # "entryPoint",
           ~ i.oog, mistakable \subseteq mistakable', frames' = frames,
           trace' = IF i.opcode = "CREATE2"
                    THEN exit(enter(c, Entering("CREATE2", Running.owner, i)), "RETURN", "")
                    ELSE c,
           previous' = i, broken' = broken \cup BrokenBy(i), hashed' = HashedAfter(i),
           op' = op, program' = program, calling' = calling,
           deployed' = (deployed \/ (i.opcode = "CREATE2" /\ Entity = "factory"))
    PROVE  Tracks'
<1> DEFINE n == Len(frames)
           paying == Entity = "paymaster"
           b == enter(c, Entering("CREATE2", Running.owner, i))
           d == exit(b, "RETURN", "")
<1>1. n \in Nat /\ n > 0
  BY Inside
<1>2. /\ TurnsInv' /\ FramesInv'
      /\ Entity' = Entity /\ Called' = Called /\ Ended' = Ended
  BY DEF Tracks, TurnsInv, FramesInv, Entity, Called, Ended
<1>3. Collected(c) /\ c.calls = trace.calls
  BY DEF Adds
<1>4. SameRest(c, trace')
  <2>1. SameRest(c, b) /\ Collected(b)
    BY <1>3, RestStays DEF SameRest
  <2> HIDE DEF b
  <2>2. SameRest(b, d)
    BY <2>1, RestStays
  <2> HIDE DEF d
  <2>3. SameRest(c, d) /\ SameRest(c, c)
    BY <1>3, <2>1, <2>2 DEF SameRest
  <2> QED BY <2>3 DEF b, d
<1>5. /\ LevelsInv' /\ RecentIs(trace', i.opcode, i.to)
      /\ trace'.callsFromEntryPoint = c.callsFromEntryPoint
      /\ "CREATE2" \in DOMAIN LastLevel(trace').opcodes
           <=> "CREATE2" \in DOMAIN LastLevel(trace).opcodes \/ i.opcode = "CREATE2"
  BY <1>2, <1>4, LevelsStay
<1>6. MemoryInv'
  BY <1>5 DEF MemoryInv
<1>7. DeployInv'
  <2>1. Entity = "factory" =>
          /\ deployed <=> "CREATE2" \in DOMAIN LastLevel(trace).opcodes
          /\ \A k \in 1..n : k > 2 => (frames[k].deployed <=> deployed)
    BY DEF Tracks, DeployInv
  <2>2. i.opcode = "CREATE2" /\ Entity = "factory" => \A k \in 1..n : ~ (k > 2)
    <3>1. i.opcode = "CREATE2" /\ Entity = "factory" => n = 2
      BY DEF EntityRuns
    <3> HIDE DEF n
    <3> QED BY <3>1, TwoAtMost
  <2> HIDE DEF n
  <2>3. Entity = "factory" => \A k \in 1..n : k > 2 => (frames[k].deployed <=> deployed')
    BY <2>1, <2>2
  <2> QED BY <1>2, <1>5, <2>1, <2>3 DEF DeployInv, n
<1>8. \A rule : ~ CallBreaks(rule, i)
  BY DEF CallBreaks
<1>9. /\ CallingInv'
      /\ \A rule : CallsClean(rule, op, parseCalls(trace'.calls))
                     <=> CallsClean(rule, op, parseCalls(c.calls))
  <2>1. CallsInv(mistakable', op, parseCalls(c.calls), n, paying, Ended)
    <3>1. CallsInv(mistakable, op, parseCalls(c.calls), n, paying, Ended)
      BY <1>3 DEF Tracks, CallingInv
    <3> HIDE DEF n, paying
    <3> QED BY <3>1, CallsMore
  <2>2. CASE i.opcode = "CREATE2"
    <3>1. paying \in BOOLEAN /\ Ended \in BOOLEAN /\ trace' = d /\ i.to # "entryPoint"
      BY <2>2 DEF Ended
    <3> HIDE DEF n, paying, d, b
    <3>2. CreateSays(mistakable', op, c, n, paying, Ended, Running.owner, i)
      BY <1>3, <2>1, <3>1, CreateParsed
    <3>3. /\ CallsInv(mistakable', op, parseCalls(d.calls), n, paying, Ended)
          /\ \A rule : CallsClean(rule, op, parseCalls(d.calls))
                         <=> CallsClean(rule, op, parseCalls(c.calls))
      BY <3>2 DEF CreateSays, d, b
    <3> QED BY <1>2, <3>1, <3>3 DEF CallingInv, paying, n
  <2>3. CASE i.opcode # "CREATE2"
    <3>1. trace' = c
      BY <2>3
    <3> QED BY <1>2, <2>1, <3>1 DEF CallingInv
  <2> QED BY <2>2, <2>3
<1>10. BrokenNoted'
  BY <1>5, <1>8, <1>9, BrokenStays
<1> QED BY <1>2, <1>5, <1>6, <1>7, <1>9, <1>10 DEF Tracks

\* A contract executes an instruction.
LEMMA ExecuteTracks ==
    ASSUME Tracks, Seeing, NEW i \in program, Execute(i)
    PROVE  phase' = "failed" \/ (phase' = phase /\ Tracks')
<1> DEFINE c == Seen(trace, i, Running.owner, Len(frames))
           x == Frame(i.to, IF i.opcode = "DELEGATECALL" THEN Running.owner ELSE i.to)
           y == Entering(i.opcode, Running.owner, i)
<1>1. /\ frames # <<>> /\ CanRun(i)
      /\ previous' = i /\ broken' = broken \cup BrokenBy(i) /\ hashed' = HashedAfter(i)
      /\ mistakable' = mistakable \cup TakenFor(i)
      /\ op' = op /\ program' = program /\ calling' = calling
      /\ i.oog => Reverted(c)
      /\ ~ i.oog =>
           /\ frames' = IF i.opcode \in Calls THEN Append(frames, x) ELSE frames
           /\ trace' = CASE i.opcode \in Calls -> enter(c, y)
                         [] i.opcode = "CREATE2" -> exit(enter(c, y), "RETURN", "")
                         [] OTHER -> c
           /\ deployed' = (deployed \/ (i.opcode = "CREATE2" /\ Entity = "factory"))
           /\ phase' = phase
  BY DEF Execute, fixed, HashedAfter
<1>2. /\ Runs(i) /\ i.oog \in BOOLEAN
      /\ i.opcode = "CREATE2" => EntityRuns /\ i.to # "entryPoint"
      /\ i.opcode \notin Returning \cup {"STOP"}
      /\ Running.code \in Entities \cup {"token", "entryPoint"}
      /\ i.opcode \in Calls => Running.owner # "entryPoint"
  BY <1>1, ExecuteRuns
<1>3. Adds(i, c)
  BY <1>1, <1>2, AddsExact
<1> HIDE DEF c
<1>4. CASE i.oog
  BY <1>1, <1>2, <1>3, <1>4, RevertedTracks
<1>5. CASE ~ i.oog /\ i.opcode \in Calls
  <2>1. /\ frames' = Append(frames, x) /\ trace' = enter(c, y) /\ phase' = phase
        /\ deployed' <=> deployed
    <3>1. i.opcode # "CREATE2"
      BY <1>5 DEF Calls
    <3> HIDE DEF x, y
    <3> QED BY <1>1, <1>5, <3>1
  <2> QED BY <1>1, <1>2, <1>3, <1>5, <2>1, CallingTracks
<1>6. CASE ~ i.oog /\ i.opcode \notin Calls
  <2>1. /\ frames' = frames /\ phase' = phase
        /\ trace' = IF i.opcode = "CREATE2"
                    THEN exit(enter(c, Entering("CREATE2", Running.owner, i)), "RETURN", "")
                    ELSE c
    BY <1>1, <1>6
  <2> QED BY <1>1, <1>2, <1>3, <1>6, <2>1, StayingTracks
<1> QED BY <1>4, <1>5, <1>6

\* What is known of the trace when a contract returns, with nothing new of the
\* calls: broke is what its last instruction broke.
Returns(c, broke, o, t) ==
    /\ Collected(c) /\ ~ c.thrown /\ c.calls = trace.calls
    /\ hashed \subseteq c.keccak /\ RecentIs(c, o, t)
    /\ LevelsAre(c.callsFromEntryPoint, Called, hashed)
    /\ IsCurrent(c.callsFromEntryPoint, Entity)
    /\ "CREATE2" \in DOMAIN LastLevel(c).opcodes
         <=> "CREATE2" \in DOMAIN LastLevel(trace).opcodes
    /\ broke \subseteq Rules \ CallRules
    /\ (broken \cup broke) \cap LevelRules = {} <=> LevelsClean(op, c.callsFromEntryPoint)

LEMMA ReturnSays ==
    ASSUME Tracks, Seeing, frames # <<>>, NEW opcode \in {"STOP", "RETURN"}, NEW i,
           i = Plain(opcode)
    PROVE  /\ Returns(Seen(trace, i, Running.owner, Len(frames)), BrokenBy(i), i.opcode, i.to)
           /\ i.opcode = opcode
<1> DEFINE c == Seen(trace, i, Running.owner, Len(frames))
<1>1. i.opcode = opcode /\ i.oog = FALSE /\ i.short = FALSE /\ Runs(i)
  BY DEF Plain, Runs, Calls, ExtCode, Slot
<1>2. Adds(i, c)
  BY <1>1, AddsExact
<1>3. (\A rule : ~ CallBreaks(rule, i)) /\ i.opcode # "CREATE2" /\ i.opcode # "KECCAK256"
  BY <1>1 DEF CallBreaks, Calls
<1> HIDE DEF c
<1>4. hashed \subseteq trace.keccak
  BY DEF Tracks, LevelsInv
<1>5. Returns(c, BrokenBy(i), i.opcode, i.to)
  BY <1>2, <1>3, <1>4 DEF Adds, Returns
<1> QED BY <1>1, <1>5 DEF c

LEMMA ReturnsAnyway ==
    ASSUME Tracks, frames # <<>>
    PROVE  Returns(trace, {}, previous.opcode, previous.to)
BY DEF Returns, Tracks, LevelsInv, MemoryInv, BrokenNoted, Rules

\* What has been broken when the return is parsed: more, if a context is returned.
LEMMA ReturnedBroken ==
    ASSUME Tracks, NEW c, NEW broke, NEW o, NEW t, Returns(c, broke, o, t),
           trace'.callsFromEntryPoint = c.callsFromEntryPoint,
           op' = op, mistakable' = mistakable,
           NEW more, more \subseteq {"EREP050"}, broken' = broken \cup broke \cup more,
           \A rule : Told(mistakable, rule) =>
             (CallsClean(rule, op, parseCalls(trace'.calls))
                <=> CallsClean(rule, op, parseCalls(c.calls)) /\ rule \notin more)
    PROVE  BrokenNoted'
<1> DEFINE levels == LevelsClean(op, c.callsFromEntryPoint)
           before == LevelsClean(op, trace.callsFromEntryPoint)
<1>1. /\ broke \subseteq Rules \ CallRules /\ c.calls = trace.calls
      /\ (broken \cup broke) \cap LevelRules = {} <=> levels
  BY DEF Returns
<1>2. /\ broken \subseteq Rules
      /\ broken \cap LevelRules = {} <=> before
      /\ before => \A rule \in CallRules : Told(mistakable, rule) =>
           (rule \notin broken <=> CallsClean(rule, op, parseCalls(trace.calls)))
  BY DEF Tracks, BrokenNoted
<1> HIDE DEF levels, before
<1>3. levels => before
  BY <1>1, <1>2
<1>4. broken' \cap LevelRules = {} <=> levels
  <2>1. "EREP050" \notin LevelRules
    BY DEF LevelRules
  <2> QED BY <1>1, <2>1
<1>5. ASSUME levels, NEW rule \in CallRules, Told(mistakable, rule)
      PROVE  rule \notin broken' <=> CallsClean(rule, op, parseCalls(trace'.calls))
  <2>1. rule \notin broken <=> CallsClean(rule, op, parseCalls(c.calls))
    BY <1>1, <1>2, <1>3, <1>5
  <2>2. CallsClean(rule, op, parseCalls(trace'.calls))
          <=> CallsClean(rule, op, parseCalls(c.calls)) /\ rule \notin more
    BY <1>5
  <2>3. rule \notin broke
    BY <1>1
  <2> QED BY <2>1, <2>2, <2>3
<1>6. broken' \subseteq Rules
  BY <1>1, <1>2 DEF Rules, CallRules
<1> QED BY <1>4, <1>5, <1>6 DEF BrokenNoted, levels

\* The levels, which a return leaves alone.
LEMMA ReturnedLevels ==
    ASSUME NEW c, NEW broke, NEW o, NEW t, Returns(c, broke, o, t), SameRest(c, trace'),
           hashed' = hashed, Called' = Called, frames' # <<>> => Entity' = Entity
    PROVE  /\ LevelsInv' /\ RecentIs(trace', o, t)
           /\ trace'.callsFromEntryPoint = c.callsFromEntryPoint
           /\ "CREATE2" \in DOMAIN LastLevel(trace').opcodes
                <=> "CREATE2" \in DOMAIN LastLevel(trace).opcodes
<1> DEFINE q == c.callsFromEntryPoint
<1>1. /\ Collected(trace') /\ trace'.callsFromEntryPoint = q /\ trace'.keccak = c.keccak
      /\ trace'.thrown = c.thrown /\ RecentIs(trace', o, t)
  BY DEF SameRest, Returns
<1>2. LevelsInv'
  BY <1>1 DEF LevelsInv, Returns
<1>3. LastLevel(trace') = LastLevel(c)
  BY <1>1 DEF LastLevel
<1> QED BY <1>1, <1>2, <1>3 DEF Returns

\* What the calls become when the return is parsed.
LEMMA ReturnedCalls ==
    ASSUME Tracks, frames # <<>>, NEW c, NEW broke, NEW o, NEW t, Returns(c, broke, o, t),
           NEW data, NEW ends \in BOOLEAN, Ended => ends,
           Len(frames) = 1 /\ Entity = "paymaster" => ends /\ ~ Ended
    PROVE  ExitSays(mistakable, op, c, Len(frames), Entity = "paymaster", Ended, "RETURN", data,
                    ends)
<1> DEFINE n == Len(frames)
           paying == Entity = "paymaster"
<1>1. n > 0
  BY Inside
<1>2. Collected(c) /\ CallsInv(mistakable, op, parseCalls(c.calls), n, paying, Ended)
  BY DEF Returns, Tracks, CallingInv
<1>3. paying \in BOOLEAN /\ Ended \in BOOLEAN /\ "RETURN" \in Returning
  BY DEF Ended, Returning
<1>4. n = 1 /\ paying => ends /\ ~ Ended
  OBVIOUS
<1> HIDE DEF n, paying
<1>5. ExitSays(mistakable, op, c, n, paying, Ended, "RETURN", data, ends)
  BY <1>1, <1>2, <1>3, <1>4, ExitParsed
<1> QED BY <1>5 DEF n, paying

\* A contract that something called returns to it.
LEMMA InnerReturn ==
    ASSUME Tracks, Len(frames) > 1, NEW c, NEW broke,
           Returns(c, broke, previous'.opcode, previous'.to),
           NEW data, trace' = exit(c, "RETURN", data), mistakable' = mistakable,
           frames' = Front(frames), op' = op, program' = program, calling' = calling,
           hashed' = hashed, deployed' = deployed, broken' = broken \cup broke
    PROVE  Tracks'
<1> DEFINE n == Len(frames)
           paying == Entity = "paymaster"
           d == exit(c, "RETURN", data)
<1>1. /\ TurnsInv' /\ FramesInv'
      /\ Entity' = Entity /\ Called' = Called /\ Ended' = Ended
      /\ frames # <<>> /\ frames' # <<>> /\ Len(frames') = n - 1
      /\ \A k \in 1..Len(frames') : k \in 1..n /\ frames'[k] = frames[k]
  BY FrameEnds
<1>2. n \in Nat /\ n # 1
  <2>1. n \in Nat /\ n > 1
    BY <1>1, Inside
  <2> HIDE DEF n
  <2> QED BY <2>1
<1>3. Collected(c) /\ SameRest(c, trace')
  BY RestStays DEF Returns
<1>4. /\ LevelsInv' /\ RecentIs(trace', previous'.opcode, previous'.to)
      /\ trace'.callsFromEntryPoint = c.callsFromEntryPoint
      /\ "CREATE2" \in DOMAIN LastLevel(trace').opcodes
           <=> "CREATE2" \in DOMAIN LastLevel(trace).opcodes
  BY <1>1, <1>3, ReturnedLevels
<1>5. MemoryInv'
  BY <1>1, <1>4 DEF MemoryInv
<1>6. DeployInv'
  <2>1. Entity = "factory" =>
          /\ deployed <=> "CREATE2" \in DOMAIN LastLevel(trace).opcodes
          /\ \A k \in 1..n : k > 2 => (frames[k].deployed <=> deployed)
    BY <1>1 DEF Tracks, DeployInv
  <2> HIDE DEF n
  <2>2. Entity = "factory" =>
          \A k \in 1..Len(frames') : k > 2 => (frames'[k].deployed <=> deployed)
    BY <1>1, <2>1
  <2> QED BY <1>1, <1>4, <2>1, <2>2 DEF DeployInv
<1>7. ExitSays(mistakable, op, c, n, paying, Ended, "RETURN", data, Ended)
  <2>1. Ended \in BOOLEAN
    BY DEF Ended
  <2> QED BY <1>1, <1>2, <2>1, ReturnedCalls
<1> HIDE DEF n, paying
<1>8. /\ CallsInv(mistakable, op, parseCalls(d.calls), n - 1, paying, Ended)
      /\ \A rule : Told(mistakable, rule) =>
           (CallsClean(rule, op, parseCalls(d.calls)) <=> CallsClean(rule, op, parseCalls(c.calls)))
  BY <1>2, <1>7 DEF ExitSays, WellReturned
<1> HIDE DEF d
<1>9. trace' = d
  BY DEF d
<1>10. CallingInv'
  BY <1>1, <1>8, <1>9 DEF CallingInv, paying
<1>11. BrokenNoted'
  <2> DEFINE more == {}
  <2>1. /\ more \subseteq {"EREP050"} /\ broken' = broken \cup broke \cup more
        /\ \A rule : rule \notin more
    OBVIOUS
  <2> HIDE DEF more
  <2> QED BY <1>4, <1>8, <1>9, <2>1, ReturnedBroken
<1> QED BY <1>1, <1>4, <1>5, <1>6, <1>10, <1>11 DEF Tracks

\* An entity's call returns to the entry point: it may be the paymaster's, with a
\* context.
LEMMA LastReturn ==
    ASSUME Tracks, frames # <<>>, Len(frames) = 1, NEW c, NEW broke,
           Returns(c, broke, previous'.opcode, previous'.to),
           previous'.opcode \notin ExtCode \cup {"GAS"},
           NEW data, trace' = exit(c, "RETURN", data), mistakable' = mistakable,
           frames' = Front(frames), op' = op, program' = program, calling' = Tail(calling),
           hashed' = hashed, deployed' = deployed,
           NEW more,
           more = IF data = "context" /\ Entity = "paymaster" /\ ~ isStaked(op.paymaster)
                  THEN {"EREP050"} ELSE {},
           broken' = broken \cup broke \cup more
    PROVE  Tracks'
<1> DEFINE n == Len(frames)
           paying == Entity = "paymaster"
           d == exit(c, "RETURN", data)
           ends == Ended'
<1>1. /\ IsSeq(frames) /\ op \in Operations /\ program \in Programs
      /\ calling # <<>> /\ calling \in Callings /\ Awaited(calling) \subseteq PresentEntities(op)
      /\ Entity \in Entities /\ Entity \in Awaited(calling)
  BY Inside
<1>2. /\ Tail(calling) \in Callings /\ Awaited(Tail(calling)) = Awaited(calling) \ {Entity}
      /\ "factory" \in Awaited(calling) => Entity = "factory"
  BY <1>1, Turns DEF Entity
<1>3. frames' = <<>>
  BY <1>1, SequenceFront
<1>4. (\A k \in 1..Len(<<>>) : FALSE) /\ Len(<<>>) = 0 /\ IsSeq(<<>>)
  <2>1. <<>> \in Seq({}) /\ Len(<<>>) = 0 /\ \A k \in 1..Len(<<>>) : FALSE
    OBVIOUS
  <2> QED BY <2>1 DEF IsSeq
<1>5. Called' = Called
  BY <1>1, <1>2, <1>3 DEF Called
<1>6. ends \in BOOLEAN /\ (Ended => ends) /\ (paying => ends /\ ~ Ended)
  <2>1. ends <=> op.paymaster # "absent" /\ "paymaster" \notin Awaited(Tail(calling))
    BY DEF Ended
  <2>2. Entity = "paymaster" => op.paymaster # "absent"
    BY <1>1 DEF PresentEntities
  <2>3. ends \in BOOLEAN
    BY DEF Ended
  <2> HIDE DEF ends
  <2> QED BY <1>1, <1>2, <2>1, <2>2, <2>3 DEF Ended
<1>7. TurnsInv'
  BY <1>1, <1>2, <1>3, <1>4 DEF TurnsInv
<1>8. FramesInv'
  <2>1. \A k \in 1..Len(frames') : FALSE
    BY <1>3, <1>4, Zenon
  <2> QED BY <1>3, <2>1 DEF FramesInv
<1>9. DeployInv'
  BY <1>2, <1>3 DEF DeployInv
<1>10. Collected(c) /\ SameRest(c, trace')
  BY RestStays DEF Returns
<1>11. /\ LevelsInv' /\ RecentIs(trace', previous'.opcode, previous'.to)
       /\ trace'.callsFromEntryPoint = c.callsFromEntryPoint
  BY <1>3, <1>5, <1>10, ReturnedLevels
<1>12. MemoryInv'
  BY <1>11 DEF MemoryInv
<1> HIDE DEF ends
<1>13. ExitSays(mistakable, op, c, n, paying, Ended, "RETURN", data, ends)
  BY <1>6, ReturnedCalls
<1>14. n = 1 /\ n - 1 = 0 /\ Len(frames') = 0
  BY <1>3, <1>4
<1> HIDE DEF n
<1>15. /\ CallsInv(mistakable, op, parseCalls(d.calls), 0, paying, ends)
       /\ \A rule : Told(mistakable, rule) =>
            (CallsClean(rule, op, parseCalls(d.calls)) <=>
               /\ CallsClean(rule, op, parseCalls(c.calls))
               /\ WellReturned(rule, op, n = 1 /\ paying, "RETURN", data))
  BY <1>13, <1>14 DEF ExitSays
<1>19. \A rule : WellReturned(rule, op, n = 1 /\ paying, "RETURN", data) <=> rule \notin more
  BY <1>14 DEF WellReturned
<1> HIDE DEF d, paying
<1>16. trace' = d
  BY DEF d
<1>17. CallingInv'
  <2> DEFINE pays == (Entity = "paymaster")'
  <2> HIDE DEF pays
  <2>1. CallsInv(mistakable, op, parseCalls(d.calls), 0, pays, ends)
    BY <1>15, NoCalls
  <2> QED BY <1>14, <1>16, <2>1 DEF CallingInv, pays, ends
<1>18. BrokenNoted'
  BY <1>11, <1>15, <1>16, <1>19, ReturnedBroken
<1> QED BY <1>7, <1>8, <1>9, <1>11, <1>12, <1>17, <1>18 DEF Tracks

LEMMA MoreThanOne == \A n \in Nat : n > 0 /\ n # 1 => n > 1
OBVIOUS

\* A contract returns, and with the last one its entity.
LEMMA ReturnTracks ==
    ASSUME Tracks, Seeing, Return
    PROVE  phase' = phase /\ Tracks'
<1>1. PICK opcode \in {"STOP", "RETURN"}, data \in {"", "context"} :
        LET runs == Running.code \notin {"nobody", "precompile"}
            i == Plain(opcode)
            c == IF runs THEN Seen(trace, i, Running.owner, Len(frames)) ELSE trace
            kept == data = "context" /\ Entity = "paymaster" /\ EntityRuns
        IN  /\ trace' = exit(c, "RETURN", data)
            /\ previous' = IF runs THEN i ELSE previous
            /\ broken' = broken
                 \cup (IF runs THEN BrokenBy(i) ELSE {})
                 \cup (IF kept /\ ~ isStaked(op.paymaster) THEN {"EREP050"} ELSE {})
  BY DEF Return
<1> DEFINE runs == Running.code \notin {"nobody", "precompile"}
           i == Plain(opcode)
           shown == Seen(trace, i, Running.owner, Len(frames))
           c == IF runs THEN shown ELSE trace
           broke == IF runs THEN BrokenBy(i) ELSE {}
           more == IF data = "context" /\ Entity = "paymaster" /\ EntityRuns
                      /\ ~ isStaked(op.paymaster) THEN {"EREP050"} ELSE {}
<1>2. /\ frames # <<>> /\ frames' = Front(frames)
      /\ calling' = IF Len(frames) = 1 THEN Tail(calling) ELSE calling
      /\ op' = op /\ program' = program /\ hashed' = hashed /\ deployed' = deployed
      /\ phase' = phase /\ mistakable' = mistakable
  BY DEF Return, fixed
<1>3. /\ trace' = exit(c, "RETURN", data) /\ previous' = IF runs THEN i ELSE previous
      /\ broken' = broken \cup broke \cup more
  BY <1>1
<1>4. Returns(shown, BrokenBy(i), i.opcode, i.to) /\ i.opcode = opcode
  BY <1>2, ReturnSays
<1>5. Returns(trace, {}, previous.opcode, previous.to)
  BY <1>2, ReturnsAnyway
<1> HIDE DEF shown, i
<1>6. Returns(c, broke, previous'.opcode, previous'.to)
  BY <1>3, <1>4, <1>5
<1>8. CASE Len(frames) = 1
  <2>1. runs
    <3>1. /\ Running = frames[1] /\ Entity \in Entities
          /\ frames[1].code = IF Entity = "factory" THEN "creator" ELSE Entity
      BY <1>2, <1>8, Inside DEF Tracks, FramesInv
    <3> QED BY <3>1 DEF Entities
  <2>2. previous'.opcode \notin ExtCode \cup {"GAS"}
    BY <1>3, <1>4, <2>1 DEF ExtCode
  <2> HIDE DEF runs, broke, c
  <2>3. more = IF data = "context" /\ Entity = "paymaster" /\ ~ isStaked(op.paymaster)
               THEN {"EREP050"} ELSE {}
    BY <1>8 DEF EntityRuns
  <2>4. calling' = Tail(calling)
    BY <1>2, <1>8
  <2> HIDE DEF more
  <2>5. Tracks'
    BY <1>2, <1>3, <1>6, <1>8, <2>2, <2>3, <2>4, LastReturn
  <2> QED BY <1>2, <2>5
<1>9. CASE Len(frames) # 1
  <2> HIDE DEF runs, broke, c
  <2>1. Len(frames) > 1
    <3> DEFINE n == Len(frames)
    <3>1. n \in Nat /\ n > 0 /\ n # 1
      BY <1>2, <1>9, Inside
    <3> HIDE DEF n
    <3>2. n > 1
      BY <3>1, MoreThanOne
    <3> QED BY <3>2 DEF n
  <2>2. more = {}
    BY <1>9 DEF EntityRuns
  <2>3. broken' = broken \cup broke /\ calling' = calling
    BY <1>2, <1>3, <1>9, <2>2
  <2>4. Tracks'
    BY <1>2, <1>3, <1>6, <2>1, <2>2, <2>3, InnerReturn
  <2> QED BY <1>2, <2>4
<1> QED BY <1>8, <1>9

-----------------------------------------------------------------------------
(* The end of the trace.                                                   *)

\* c is the trace with the calls more, or as they are parsed.
EndsAs(c, d) ==
    /\ Collected(d) /\ ~ d.thrown /\ d.keccak = c.keccak
    /\ d.callsFromEntryPoint = c.callsFromEntryPoint

LEMMA AnswerSeen ==
    ASSUME Tracks, Seeing, NEW o \in Returning, NEW c,
           c = Seen(trace, Plain(o), "entryPoint", 0)
    PROVE  /\ EndsAs(trace, c)
           /\ c.calls = Append(trace.calls, [type |-> o, data |-> ""])
           /\ parseCalls(c.calls) = Returned(parseCalls(trace.calls), [type |-> o, data |-> ""])
<1> DEFINE i == Plain(o)
           x == Plain("PUSH")
           s == Shown(x, "entryPoint", 0)
           t == Shown(i, "entryPoint", 0)
           b == step(trace, s)
           r == [type |-> o, data |-> ""]
<1>1. op \in Operations /\ Collected(trace) /\ ~ trace.thrown
  BY DEF Tracks, TurnsInv, LevelsInv
<1>2. i.opcode = o /\ i.oog = FALSE /\ x.opcode = "PUSH" /\ x.oog = FALSE
  BY DEF Plain
<1>3. s.opcode = "PUSH" /\ t.opcode = o /\ t.data = ""
  BY <1>2 DEF Shown
<1>4. c = step(b, t)
  BY <1>2 DEF Seen, Pushes
<1> HIDE DEF i, x
<1>5. AtTop(trace, s, b)
  BY <1>1, <1>2, ShownAtTop
<1> HIDE DEF b, s
<1>6. /\ Collected(b) /\ ~ b.thrown /\ b.keccak = trace.keccak /\ b.calls = trace.calls
      /\ b.callsFromEntryPoint = trace.callsFromEntryPoint
  BY <1>3, <1>5 DEF AtTop, Returning
<1>7. AtTop(b, t, step(b, t))
  BY <1>1, <1>2, <1>6, ShownAtTop
<1> HIDE DEF t
<1>8. AtTop(b, t, c)
  BY <1>4, <1>7
<1>9. /\ Collected(c) /\ ~ c.thrown /\ c.keccak = b.keccak /\ c.calls = Append(b.calls, r)
      /\ c.callsFromEntryPoint = b.callsFromEntryPoint
  BY <1>3, <1>8 DEF AtTop, Returning
<1>10. parseCalls(Append(trace.calls, r)) = Returned(parseCalls(trace.calls), r)
  <2>1. parseCalls(Append(trace.calls, r)) = Parsing(parseCalls(trace.calls), r)
    BY <1>1, ParsedAppended DEF Collected
  <2>2. r.type \in Returning
    OBVIOUS
  <2> HIDE DEF r
  <2> QED BY <2>1, <2>2 DEF Parsing
<1> QED BY <1>6, <1>9, <1>10 DEF EndsAs

\* The records of the simulation's own calls.
OwnCall(out) ==
    out.method \notin {"delegateAndRevert", Sought} /\ out.value = 0 /\ out.to # "entryPoint"

LEMMA TopOut == ASSUME NEW r PROVE OwnCall(OutOf(TopCall, r))
BY DEF OwnCall, OutOf, TopCall, Sought

LEMMA SimulateOut == ASSUME NEW r PROVE OwnCall(OutOf(Simulate, r))
BY DEF OwnCall, OutOf, Simulate, Sought

IsDelegate(out) ==
    /\ out.to = "entryPoint" /\ out.from # "entryPoint" /\ out.method = "delegateAndRevert"
    /\ out.value = 0

LEMMA DelegateOut == ASSUME NEW r PROVE IsDelegate(OutOf(Delegate, r))
BY DEF IsDelegate, OutOf, Delegate

\* All calls have returned.
LEMMA OnlyBase ==
    ASSUME Tracks, frames = <<>>
    PROVE  /\ IsSeq(parseCalls(trace.calls).stack)
           /\ OutInv(mistakable, parseCalls(trace.calls).out, Ended)
           /\ Len(parseCalls(trace.calls).stack) = Base(op)
           /\ \A rule : StackClean(rule, op, parseCalls(trace.calls).stack)
           /\ op.version = "v0.7" => parseCalls(trace.calls).stack[1] = Delegate
                                     /\ parseCalls(trace.calls).stack[2] = Simulate
<1> DEFINE p == parseCalls(trace.calls)
           paying == Entity = "paymaster"
<1>1. Len(frames) = 0
  <2>1. Len(<<>>) = 0
    OBVIOUS
  <2> QED BY <2>1, Zenon
<1> HIDE DEF p, paying
<1>2. CallsInv(mistakable, op, p, 0, paying, Ended)
  BY <1>1 DEF Tracks, CallingInv, p, paying
<1>3. /\ IsSeq(p.stack) /\ Len(p.stack) = Base(op) + 0 /\ OutInv(mistakable, p.out, Ended)
      /\ op.version = "v0.7" => p.stack[1] = Delegate /\ p.stack[2] = Simulate
  BY <1>2 DEF CallsInv, StackInv
<1>4. Base(op) \in Nat
  BY BaseType DEF BaseIs
<1>5. Len(p.stack) = Base(op) /\ \A k \in 1..Len(p.stack) : ~ (k > Base(op))
  BY <1>3, <1>4
<1> QED BY <1>3, <1>5 DEF StackClean, p

\* out has what the operation's calls returned, s, and then the simulation's.
Extended(s, out) ==
    /\ IsSeq(out)
    /\ \A k \in 1..Len(s) : k \in 1..Len(out) /\ out[k] = s[k]
    /\ \A k \in 1..Len(out) :
         \/ k \in 1..Len(s)
         \/ OwnCall(out[k])
         \/ op.version = "v0.7" /\ IsDelegate(out[k])

LEMMA ExtendedMore ==
    ASSUME NEW s, NEW t, Extended(s, t), NEW o,
           OwnCall(o) \/ (op.version = "v0.7" /\ IsDelegate(o))
    PROVE  Extended(s, Append(t, o))
<1> DEFINE m == Len(t)
           u == Append(t, o)
<1>1. /\ m \in Nat /\ IsSeq(u) /\ Len(u) = m + 1 /\ u[m + 1] = o
      /\ \A k \in 1..m : u[k] = t[k]
  BY SequenceGrows DEF Extended
<1>2. /\ \A k \in 1..Len(s) : k \in 1..m /\ t[k] = s[k]
      /\ \A k \in 1..m : \/ k \in 1..Len(s)
                         \/ OwnCall(t[k])
                         \/ op.version = "v0.7" /\ IsDelegate(t[k])
  BY DEF Extended
<1> HIDE DEF m, u
<1>3. /\ \A k \in 1..(m + 1) : k \in 1..m \/ k = m + 1
      /\ \A k \in 1..m : k \in 1..(m + 1)
  BY <1>1
<1>4. Extended(s, u)
  BY <1>1, <1>2, <1>3 DEF Extended
<1> QED BY <1>4 DEF u

LEMMA ExtendedSame == ASSUME NEW s, IsSeq(s) PROVE Extended(s, s)
BY DEF Extended

\* What is in the trace when the simulation has answered.
FinishedSays ==
    /\ EndsAs(trace, FinishedTrace)
    /\ Last(FinishedTrace.calls).type = "REVERT"
    /\ Extended(parseCalls(trace.calls).out, parseCallStack(FinishedTrace.calls))

LEMMA FinishedExact ==
    ASSUME Tracks, Seeing, frames = <<>>
    PROVE  FinishedSays
<1> DEFINE p == parseCalls(trace.calls)
           s == p.out
<1>0. \A c : parseCallStack(c) = parseCalls(c).out
  BY DEF parseCallStack, parseCalls, NothingParsed
<1>1. /\ IsSeq(p.stack) /\ Len(p.stack) = Base(op) /\ IsSeq(s)
      /\ op.version = "v0.7" => p.stack[1] = Delegate /\ p.stack[2] = Simulate
  BY OnlyBase DEF OutInv
<1>2. op.version \in {"v0.6", "v0.7"}
  BY ValidationAssumption DEF Tracks, TurnsInv, Operation
<1> HIDE DEF p
<1>3. CASE op.version = "v0.6"
  <2> DEFINE c == Seen(trace, Plain("REVERT"), "entryPoint", 0)
             r == [type |-> "REVERT", data |-> ""]
  <2>1. FinishedTrace = c
    BY <1>3 DEF FinishedTrace
  <2>2. /\ EndsAs(trace, c) /\ c.calls = Append(trace.calls, r)
        /\ parseCalls(c.calls) = Returned(p, r)
    BY AnswerSeen DEF Returning, p
  <2> HIDE DEF c
  <2>3. Last(c.calls).type = "REVERT"
    <3>1. IsSeq(trace.calls)
      BY DEF Tracks, LevelsInv, Collected
    <3>2. r.type = "REVERT"
      OBVIOUS
    <3> HIDE DEF r
    <3>3. Last(Append(trace.calls, r)) = r
      BY <3>1, FrontAppended
    <3> QED BY <2>2, <3>2, <3>3
  <2> HIDE DEF r
  <2>4. p.stack = <<>>
    BY <1>1, <1>3, SequenceEmpty DEF Base
  <2>5. parseCallStack(c.calls) = Append(s, OutOf(TopCall, r))
    BY <1>0, <2>2, <2>4, ReturnedIs
  <2>6. Extended(s, Append(s, OutOf(TopCall, r)))
    BY <1>1, ExtendedSame, ExtendedMore, TopOut
  <2> QED BY <2>1, <2>2, <2>3, <2>5, <2>6 DEF FinishedSays, p
<1>4. CASE op.version = "v0.7"
  <2> DEFINE b == Seen(trace, Plain("RETURN"), "entryPoint", 0)
             c == exit(b, "RETURN", "")
             d == exit(c, "REVERT", "")
             r == [type |-> "RETURN", data |-> ""]
             t == [type |-> "REVERT", data |-> ""]
  <2>1. FinishedTrace = d
    BY <1>4 DEF FinishedTrace
  <2>2. EndsAs(trace, b) /\ parseCalls(b.calls) = Returned(p, r) /\ Collected(b)
    BY AnswerSeen DEF Returning, p, EndsAs
  <2> HIDE DEF b
  <2>3. SameRest(b, c) /\ Collected(c) /\ parseCalls(c.calls) = Returned(parseCalls(b.calls), r)
    <3>1. SameRest(b, c)
      BY <2>2, RestStays
    <3>2. parseCalls(c.calls) = Returned(parseCalls(b.calls), r)
      BY <2>2, ExitCalls DEF Returning
    <3> QED BY <3>1, <3>2 DEF SameRest
  <2> HIDE DEF c
  <2>4. SameRest(c, d) /\ parseCalls(d.calls) = Returned(parseCalls(c.calls), t)
        /\ d.calls = Append(c.calls, t) /\ IsSeq(c.calls)
    <3>1. SameRest(c, d)
      BY <2>3, RestStays
    <3>2. parseCalls(d.calls) = Returned(parseCalls(c.calls), t) /\ d.calls = Append(c.calls, t)
      BY <2>3, ExitCalls DEF Returning
    <3> QED BY <2>3, <3>1, <3>2 DEF Collected
  <2> HIDE DEF d
  <2>5. EndsAs(trace, d)
    BY <2>2, <2>3, <2>4 DEF EndsAs, SameRest
  <2>6. Last(d.calls).type = "REVERT"
    <3>1. t.type = "REVERT"
      OBVIOUS
    <3> HIDE DEF t
    <3>2. Last(Append(c.calls, t)) = t
      BY <2>4, FrontAppended
    <3> QED BY <2>4, <3>1, <3>2
  <2> HIDE DEF r, t
  <2>7. Len(p.stack) = 2 /\ p.stack[1] = Delegate /\ p.stack[2] = Simulate
    BY <1>1, <1>4 DEF Base
  <2> DEFINE q == Front(p.stack)
             z == Front(q)
  <2>8. p.stack # <<>> /\ Last(p.stack) = Simulate
    BY <1>1, <2>7, SequenceEmpty DEF Last
  <2>9. IsSeq(q) /\ Len(q) = 1 /\ q[1] = Delegate
    <3>1. /\ IsSeq(q) /\ Len(q) = 2 - 1 /\ \A k \in 1..(2 - 1) : q[k] = p.stack[k]
      BY <1>1, <2>7, <2>8, SequenceFront
    <3>2. 2 - 1 = 1 /\ 1 \in 1..1
      OBVIOUS
    <3> QED BY <2>7, <3>1, <3>2
  <2> HIDE DEF q
  <2>10. q # <<>> /\ Last(q) = Delegate /\ z = <<>>
    BY <2>9, SequenceEmpty, SequenceFront DEF Last
  <2> HIDE DEF z
  <2> DEFINE x == OutOf(Simulate, r)
             y == OutOf(Delegate, r)
             w == OutOf(TopCall, t)
  <2>11. OwnCall(x) /\ IsDelegate(y) /\ OwnCall(w)
    BY TopOut, DelegateOut, SimulateOut
  <2>12. /\ parseCalls(b.calls).stack = q /\ parseCalls(b.calls).out = Append(s, x)
    BY <2>2, <2>8, ReturnedIs DEF q
  <2>13. /\ parseCalls(c.calls).stack = <<>>
         /\ parseCalls(c.calls).out = Append(Append(s, x), y)
    BY <2>3, <2>10, <2>12, ReturnedIs DEF z
  <2>14. parseCallStack(d.calls) = Append(Append(Append(s, x), y), w)
    BY <1>0, <2>4, <2>13, ReturnedIs
  <2> HIDE DEF s, x, y, w
  <2>15. Extended(s, Append(s, x))
    BY <1>1, <2>11, ExtendedSame, ExtendedMore
  <2>16. Extended(s, Append(Append(s, x), y))
    BY <1>4, <2>11, <2>15, ExtendedMore
  <2>17. Extended(s, Append(Append(Append(s, x), y), w))
    BY <2>11, <2>16, ExtendedMore
  <2> QED BY <2>1, <2>5, <2>6, <2>14, <2>17 DEF FinishedSays, p, s
<1> QED BY <1>2, <1>3, <1>4

-----------------------------------------------------------------------------
(* What the parser makes of the calls.                                     *)

BadCall(x) == /\ x.to = "entryPoint" /\ x.from # "entryPoint"
              /\ x.method \notin {"0x", "depositTo"}

BadValue(x) == x.to # "entryPoint" /\ x.value # 0

LEMMA GoodIs ==
    ASSUME NEW x
    PROVE  /\ GoodCall("OP052", x) <=> ~ BadCall(x)
           /\ GoodCall("OP061", x) <=> ~ BadValue(x)
           /\ GoodCall("EREP050", x)
BY DEF GoodCall, BadCall, BadValue

\* The three rules about calls, as the parser looks for each.  The first call into
\* the entry point may hide the others, if it is named as the simulation's own.
LEMMA IntoExact ==
    ASSUME NEW s, NEW mistaken, NEW ended, OutInv(mistaken, s, ended), NEW out, Extended(s, out),
           NEW into, into = IF op.version = "v0.6" THEN illegalCallV06(out) ELSE illegalCallV07(out)
    PROVE  /\ into => \E k \in 1..Len(s) : BadCall(s[k])
           /\ "OP052" \notin mistaken => ((\E k \in 1..Len(s) : BadCall(s[k])) => into)
<1> DEFINE found == callsIntoEntryPoint(out)
           n == Len(out)
           m == Len(s)
<1>1. n \in Nat /\ DOMAIN out = 1..n /\ m \in Nat
  BY SequenceGrows DEF Extended, OutInv
<1>2. found = {k \in 1..n : BadCall(out[k])}
  BY <1>1 DEF callsIntoEntryPoint, BadCall
<1>3. /\ \A k \in 1..m : k \in 1..n /\ out[k] = s[k]
      /\ "OP052" \notin mistaken => \A k \in 1..m : ~ IsNamed(s[k])
      /\ \A k \in 1..n : \/ k \in 1..m
                         \/ OwnCall(out[k])
                         \/ op.version = "v0.7" /\ IsDelegate(out[k])
  BY DEF Extended, OutInv
<1>4. /\ illegalCallV06(out) <=> found # {}
      /\ illegalCallV07(out) <=> found # {} /\ out[Min(found)].method # "delegateAndRevert"
  BY DEF illegalCallV06, illegalCallV07
<1> HIDE DEF found, n, m
<1>5. found \in SUBSET Nat
  BY <1>1, <1>2
<1>6. found # {} => Min(found) \in found /\ \A y \in found : Min(found) =< y
  BY <1>5, FirstPosition
<1>7. ASSUME "OP052" \notin mistaken, NEW k \in 1..m, BadCall(s[k])
      PROVE  /\ found # {} /\ out[Min(found)].method # "delegateAndRevert"
  <2>1. k \in found
    BY <1>2, <1>3, <1>7
  <2>2. /\ Min(found) \in 1..n /\ Min(found) =< k /\ BadCall(out[Min(found)])
    BY <1>2, <1>6, <2>1
  <2>3. Min(found) \in 1..m
    BY <1>1, <2>2
  <2>4. ~ IsNamed(out[Min(found)]) /\ out[Min(found)].to = "entryPoint"
    BY <1>3, <1>7, <2>2, <2>3 DEF BadCall
  <2> QED BY <2>1, <2>4 DEF IsNamed
<1>8. ASSUME \A k \in 1..m : ~ BadCall(s[k])
      PROVE  \A k \in found : op.version = "v0.7" /\ IsDelegate(out[k])
  <2>1. \A x : OwnCall(x) => ~ BadCall(x)
    BY DEF OwnCall, BadCall
  <2> QED BY <1>2, <1>3, <1>8, <2>1
<1>9. \A k \in found : IsDelegate(out[k]) => out[k].method = "delegateAndRevert"
  BY DEF IsDelegate
<1>10. ASSUME \A k \in 1..m : ~ BadCall(s[k])
       PROVE  /\ found # {} => op.version = "v0.7" /\ out[Min(found)].method = "delegateAndRevert"
  BY <1>6, <1>8, <1>9, <1>10
<1>11. "v0.7" # "v0.6"
  OBVIOUS
<1> QED BY <1>4, <1>7, <1>10, <1>11 DEF m

LEMMA ValuesExact ==
    ASSUME NEW s, NEW out, Extended(s, out)
    PROVE  illegalNonZeroValueCall(out) <=> \E k \in 1..Len(s) : BadValue(s[k])
<1> DEFINE n == Len(out)
<1>1. n \in Nat /\ DOMAIN out = 1..n
  BY SequenceGrows DEF Extended
<1>2. illegalNonZeroValueCall(out) <=> \E k \in 1..n : BadValue(out[k])
  BY <1>1 DEF illegalNonZeroValueCall, ToSet, BadValue
<1>3. \A x : OwnCall(x) \/ IsDelegate(x) => ~ BadValue(x)
  BY DEF OwnCall, IsDelegate, BadValue
<1> HIDE DEF n
<1>4. (\E k \in 1..n : BadValue(out[k])) <=> \E k \in 1..Len(s) : BadValue(s[k])
  BY <1>3 DEF Extended, n
<1> QED BY <1>2, <1>4

LEMMA ContextExact ==
    ASSUME NEW s, NEW mistaken, "EREP050" \notin mistaken, NEW ended, OutInv(mistaken, s, ended),
           NEW out, Extended(s, out)
    PROVE  returnsContext(out)
             <=> \E k \in 1..Len(s) : IsSought(s[k]) /\ s[k].return = "context"
<1> DEFINE found == {k \in DOMAIN out : /\ out[k].method = "validatePaymasterUserOp"
                                        /\ out[k].to = "paymaster"}
           n == Len(out)
           m == Len(s)
<1>1. n \in Nat /\ DOMAIN out = 1..n /\ m \in Nat
  BY SequenceGrows DEF Extended, OutInv
<1>2. returnsContext(out) <=> found # {} /\ out[Min(found)].return = "context"
  BY DEF returnsContext
<1>3. /\ \A k \in 1..m : k \in 1..n /\ out[k] = s[k]
      /\ \A j, k \in 1..m : IsSought(s[j]) /\ IsSought(s[k]) => j = k
      /\ \A k \in 1..n : k \in 1..m \/ OwnCall(out[k]) \/ IsDelegate(out[k])
  BY DEF Extended, OutInv
<1>4. \A x : OwnCall(x) \/ IsDelegate(x) => ~ IsSought(x)
  BY DEF OwnCall, IsDelegate, Sought, IsSought
<1>5. found = {k \in 1..m : IsSought(s[k])}
  <2>1. found = {k \in 1..n : IsSought(out[k])}
    BY <1>1 DEF Sought, IsSought
  <2> HIDE DEF found, n, m
  <2> QED BY <1>1, <1>3, <1>4, <2>1
<1> HIDE DEF found, n, m
<1>6. found \in SUBSET Nat
  BY <1>1, <1>5
<1>7. found # {} => Min(found) \in found
  BY <1>6, FirstPosition
<1>8. ASSUME found # {}
      PROVE  /\ Min(found) \in 1..m /\ IsSought(s[Min(found)])
             /\ out[Min(found)] = s[Min(found)]
  BY <1>3, <1>5, <1>7, <1>8
<1>9. ASSUME NEW k \in 1..m, IsSought(s[k])
      PROVE  found # {} /\ k = Min(found)
  BY <1>3, <1>5, <1>8, <1>9
<1> QED BY <1>2, <1>8, <1>9 DEF m

-----------------------------------------------------------------------------
(* What the parser makes of a level.                                       *)

\* Of the hashes that the parser knows, and the slots that were computed.
LEMMA AssociatedExact ==
    ASSUME NEW slot \in Slot, NEW a, NEW slots, slot.base = "keccak" => slot.of \in slots,
           NEW keccak, slots \subseteq keccak, NEW present, a \in present
    PROVE  associatedWith(slot, a, keccak \cap present) <=> Belongs(slot, a)
<1>1. slot.base \in {"address", "keccak"}
  BY DEF Slot
<1> QED BY <1>1 DEF associatedWith, Belongs

LEMMA ForbiddenExact ==
    ASSUME op \in Operations, NEW e \in PresentEntities(op), NEW l, NEW slots, LevelOk(l, slots),
           NEW c, slots \subseteq c.keccak
    PROVE  forbiddenAccess(op, e, l, KeccakOf(op, c)) <=> ~ AccessClean(op, e, l)
<1> DEFINE present == PresentEntities(op)
           keccak == KeccakOf(op, c)
<1>1. "account" \in present
  <2>1. op.account # "absent"
    BY ValidationAssumption DEF Operation
  <2> QED BY <2>1 DEF PresentEntities, Entities
<1>2. ASSUME NEW access \in Accessed(l)
      PROVE  /\ associatedWith(access.slot, "account", keccak) <=> Belongs(access.slot, "account")
             /\ associatedWith(access.slot, e, keccak) <=> Belongs(access.slot, e)
  <2> DEFINE slot == access.slot
             known == c.keccak
  <2>1. slot \in Slot /\ (slot.base = "keccak" => slot.of \in slots)
    BY <1>2 DEF LevelOk
  <2>2. e \in present /\ slots \subseteq known
    OBVIOUS
  <2>3. keccak = known \cap present
    BY DEF KeccakOf
  <2> HIDE DEF slot, known, present, keccak
  <2>4. associatedWith(slot, "account", known \cap present) <=> Belongs(slot, "account")
    BY <1>1, <2>1, <2>2, AssociatedExact
  <2>5. associatedWith(slot, e, known \cap present) <=> Belongs(slot, e)
    BY <2>1, <2>2, AssociatedExact
  <2> QED BY <2>3, <2>4, <2>5 DEF slot
<1> HIDE DEF present, keccak
<1>3. ASSUME NEW access \in Accessed(l)
      PROVE  /\ access.address \notin {"account", "entryPoint"}
             /\ ~ freeForSender(op, e, access.slot, keccak)
             /\ ~ (isStaked(op[e]) /\ allowedWithStake(op, e, access, l, keccak))
             <=> ~ Allowed(op, e, access, l.writes)
  BY <1>2, <1>3 DEF freeForSender, allowedWithStake, Allowed
<1> QED BY <1>3 DEF forbiddenAccess, AccessClean, keccak

LEMMA SizesExact ==
    ASSUME NEW l, NEW slots, LevelOk(l, slots)
    PROVE  zeroCodeAccess(l) <=> ~ \A x \in l.contractSize : x.address # "nobody"
<1>1. \A x \in l.contractSize : x.address # "account" => (x.empty <=> x.address = "nobody")
  BY DEF LevelOk
<1>2. "nobody" # "account"
  OBVIOUS
<1> QED BY <1>1, <1>2 DEF zeroCodeAccess

bannedNow(e, l) == IF op.version = "v0.6" THEN bannedV06(op[e], l) ELSE bannedV07(op[e], l)

\* The parser refuses a level exactly if it breaks a rule.
LEMMA BreaksExact ==
    ASSUME op \in Operations, NEW e \in PresentEntities(op), NEW l, NEW slots, LevelOk(l, slots),
           NEW c, slots \subseteq c.keccak, NEW out
    PROVE  breaksRules(op, e, l, KeccakOf(op, c), out, bannedNow(e, l)) <=>
             \/ ~ LevelClean(op, e, l)
             \/ e = "paymaster" /\ returnsContext(out) /\ ~ isStaked(op.paymaster)
<1>1. forbiddenAccess(op, e, l, KeccakOf(op, c)) <=> ~ AccessClean(op, e, l)
  BY ForbiddenExact
<1>2. zeroCodeAccess(l) <=> ~ \A x \in l.contractSize : x.address # "nobody"
  BY SizesExact
<1>3. bannedNow(e, l) \/ tooManyCreate2(e, l) <=> ~ OpcodesClean(op, e, l)
  BY DEF bannedNow, bannedV06, bannedV07, OpcodesClean, BannedOf
<1> QED BY <1>1, <1>2, <1>3 DEF breaksRules, LevelClean

-----------------------------------------------------------------------------

\* The parser's answer, for both versions.
ParsedAs(c) ==
    LET callStack == parseCallStack(c.calls)
    IN  /\ c.callsFromEntryPoint # <<>>
        /\ ~ (IF op.version = "v0.6" THEN illegalCallV06(callStack) ELSE illegalCallV07(callStack))
        /\ ~ illegalNonZeroValueCall(callStack)
        /\ levelsOf(c, "account") # {}
        /\ \A e \in Entities : levelsOf(c, e) # {} =>
             LET level == c.callsFromEntryPoint[Min(levelsOf(c, e))]
             IN  ~ breaksRules(op, e, level, KeccakOf(op, c), callStack, bannedNow(e, level))

LEMMA ParsedIs == ASSUME NEW c PROVE Parsed(c) <=> ParsedAs(c)
<1>1. CASE op.version = "v0.6"
  BY <1>1 DEF Parsed, ParsedAs, tracerResultParserV06, bannedNow
<1>2. CASE op.version # "v0.6"
  BY <1>2 DEF Parsed, ParsedAs, tracerResultParserV07, bannedNow
<1> QED BY <1>1, <1>2

\* Each entity's level is found.
LEMMA LevelsFound ==
    ASSUME NEW c, NEW q, q = c.callsFromEntryPoint, NEW called, NEW slots,
           LevelsAre(q, called, slots), NEW e \in Entities
    PROVE  /\ levelsOf(c, e) # {} <=> e \in called
           /\ levelsOf(c, e) # {} =>
                /\ Min(levelsOf(c, e)) \in 1..Len(q)
                /\ q[Min(levelsOf(c, e))].topLevelMethodSig = MethodOf[e]
                /\ \A k \in 1..Len(q) :
                     q[k].topLevelMethodSig = MethodOf[e] => k = Min(levelsOf(c, e))
<1> DEFINE n == Len(q)
           found == levelsOf(c, e)
<1>1. /\ n \in Nat /\ DOMAIN q = 1..n
      /\ \A k \in 1..n : \E f \in called : q[k].topLevelMethodSig = MethodOf[f]
      /\ \A f \in called : \E k \in 1..n : q[k].topLevelMethodSig = MethodOf[f]
      /\ \A j, k \in 1..n : q[j].topLevelMethodSig = q[k].topLevelMethodSig => j = k
      /\ called \subseteq Entities
  BY SequenceGrows DEF LevelsAre
<1>2. found = {k \in 1..n : q[k].topLevelMethodSig = MethodOf[e]}
  BY <1>1 DEF levelsOf
<1> HIDE DEF n, found
<1>3. found \in SUBSET Nat
  BY <1>1, <1>2
<1>4. found # {} => Min(found) \in found
  BY <1>3, FirstPosition
<1>5. found # {} <=> e \in called
  BY <1>1, <1>2, MethodsDiffer
<1>6. found # {} =>
        /\ Min(found) \in 1..n
        /\ q[Min(found)].topLevelMethodSig = MethodOf[e]
        /\ \A k \in 1..n : q[k].topLevelMethodSig = MethodOf[e] => k = Min(found)
  BY <1>1, <1>2, <1>4
<1> QED BY <1>5, <1>6 DEF n, found

LEMMA LevelsJudged ==
    ASSUME op \in Operations, NEW c, NEW q, q = c.callsFromEntryPoint, NEW slots,
           LevelsAre(q, PresentEntities(op), slots), slots \subseteq c.keccak, NEW out
    PROVE  (\A e \in Entities : levelsOf(c, e) # {} =>
             LET level == q[Min(levelsOf(c, e))]
             IN  ~ breaksRules(op, e, level, KeccakOf(op, c), out, bannedNow(e, level)))
           <=> /\ LevelsClean(op, q)
               /\ "paymaster" \in PresentEntities(op)
                    => ~ returnsContext(out) \/ isStaked(op.paymaster)
<1> DEFINE present == PresentEntities(op)
           at(e) == Min(levelsOf(c, e))
           wrong == returnsContext(out) /\ ~ isStaked(op.paymaster)
           breaks(e) == breaksRules(op, e, q[at(e)], KeccakOf(op, c), out, bannedNow(e, q[at(e)]))
           clean(e) == LevelClean(op, e, q[at(e)])
<1>1. \A k \in 1..Len(q) : LevelOk(q[k], slots)
  BY DEF LevelsAre
<1>2. \A e \in Entities : levelsOf(c, e) # {} <=> e \in present
  BY LevelsFound
<1>3. \A e \in Entities : e \in present =>
        /\ at(e) \in 1..Len(q) /\ q[at(e)].topLevelMethodSig = MethodOf[e]
        /\ \A k \in 1..Len(q) : q[k].topLevelMethodSig = MethodOf[e] => k = at(e)
  BY <1>2, LevelsFound
<1>4. \A k \in 1..Len(q) : \E e \in present : q[k].topLevelMethodSig = MethodOf[e]
  BY DEF LevelsAre
<1>5. present \subseteq Entities
  BY DEF PresentEntities
<1>6. \A e \in present : breaks(e) <=> ~ clean(e) \/ (e = "paymaster" /\ wrong)
  <2> SUFFICES ASSUME NEW e \in present
               PROVE  breaks(e) <=> ~ clean(e) \/ (e = "paymaster" /\ wrong)
    OBVIOUS
  <2> DEFINE l == q[at(e)]
  <2>1. LevelOk(l, slots)
    BY <1>1, <1>3, <1>5
  <2> HIDE DEF l, present
  <2>2. e \in PresentEntities(op)
    BY DEF present
  <2>3. breaksRules(op, e, l, KeccakOf(op, c), out, bannedNow(e, l)) <=>
             \/ ~ LevelClean(op, e, l)
             \/ e = "paymaster" /\ returnsContext(out) /\ ~ isStaked(op.paymaster)
    BY <2>1, <2>2, BreaksExact
  <2> QED BY <2>3 DEF l
<1>7. LevelsClean(op, q) <=> \A e \in present : clean(e)
  <2> HIDE DEF at, present
  <2> QED BY <1>3, <1>4, <1>5, MethodsDiffer DEF LevelsClean
<1> HIDE DEF present, breaks, clean, wrong, at
<1>8. (\A e \in Entities : levelsOf(c, e) # {} => ~ breaks(e))
        <=> LevelsClean(op, q) /\ ("paymaster" \in present => ~ wrong)
  BY <1>2, <1>5, <1>6, <1>7
<1> QED BY <1>8 DEF present, breaks, wrong, at

\* The calls are refused exactly if one breaks a rule, but for what can be mistaken.
LEMMA CallsJudged ==
    ASSUME NEW s, NEW mistaken, NEW ended, OutInv(mistaken, s, ended), NEW out, Extended(s, out),
           NEW into, into = IF op.version = "v0.6" THEN illegalCallV06(out) ELSE illegalCallV07(out)
    PROVE  /\ into => ~ OutClean("OP052", op, s)
           /\ "OP052" \notin mistaken => (OutClean("OP052", op, s) <=> ~ into)
           /\ OutClean("OP061", op, s) <=> ~ illegalNonZeroValueCall(out)
           /\ "EREP050" \notin mistaken =>
                /\ OutClean("EREP050", op, s) <=> ~ returnsContext(out) \/ isStaked(op.paymaster)
                /\ returnsContext(out) => ended
<1>1. \A x : GoodReturn("OP052", op, x) /\ GoodReturn("OP061", op, x)
  BY DEF GoodReturn
<1>2. /\ OutClean("OP052", op, s) <=> ~ \E k \in 1..Len(s) : BadCall(s[k])
      /\ OutClean("OP061", op, s) <=> ~ \E k \in 1..Len(s) : BadValue(s[k])
  BY <1>1, GoodIs DEF OutClean
<1>3. illegalNonZeroValueCall(out) <=> \E k \in 1..Len(s) : BadValue(s[k])
  BY ValuesExact
<1>4. /\ into => \E k \in 1..Len(s) : BadCall(s[k])
      /\ "OP052" \notin mistaken => ((\E k \in 1..Len(s) : BadCall(s[k])) => into)
  BY IntoExact
<1>5. ASSUME "EREP050" \notin mistaken
      PROVE  /\ OutClean("EREP050", op, s) <=> ~ returnsContext(out) \/ isStaked(op.paymaster)
             /\ returnsContext(out) => ended
  <2>1. returnsContext(out) <=> \E k \in 1..Len(s) : IsSought(s[k]) /\ s[k].return = "context"
    BY <1>5, ContextExact
  <2>2. \A k \in 1..Len(s) : IsSought(s[k]) => ended
    BY <1>5 DEF OutInv
  <2>3. \A x : GoodReturn("EREP050", op, x) <=>
               (IsSought(x) /\ x.return = "context" => isStaked(op.paymaster))
    BY DEF GoodReturn
  <2>4. OutClean("EREP050", op, s) <=>
          \/ ~ \E k \in 1..Len(s) : IsSought(s[k]) /\ s[k].return = "context"
          \/ isStaked(op.paymaster)
    BY <2>3, GoodIs DEF OutClean
  <2> QED BY <2>1, <2>2, <2>4
<1> QED BY <1>2, <1>3, <1>4, <1>5

\* The answer to debug_traceCall is judged by what was broken, but for what the
\* parser cannot tell.
LEMMA AnswerJudged ==
    ASSUME Tracks, Seeing, frames = <<>>, calling = <<>>
    PROVE  /\ Parsed(FinishedTrace) => broken \subseteq Indistinct
           /\ ~ Parsed(FinishedTrace) =>
                broken \ {"GasBeforeCaller"} # {} \/ "EREP050" \in mistakable
           /\ ~ FinishedTrace.thrown /\ Last(FinishedTrace.calls).type = "REVERT"
<1> DEFINE d == FinishedTrace
           q == d.callsFromEntryPoint
           p == parseCalls(trace.calls)
           s == p.out
           out == parseCallStack(d.calls)
           present == PresentEntities(op)
           into == IF op.version = "v0.6" THEN illegalCallV06(out) ELSE illegalCallV07(out)
           paid == illegalNonZeroValueCall(out)
           context == returnsContext(out)
           clean == LevelsClean(op, trace.callsFromEntryPoint)
           judged == \A e \in Entities : levelsOf(d, e) # {} =>
                        LET level == q[Min(levelsOf(d, e))]
                        IN  ~ breaksRules(op, e, level, KeccakOf(op, d), out, bannedNow(e, level))
           staked == isStaked(op.paymaster)
<1>1. EndsAs(trace, d) /\ Last(d.calls).type = "REVERT" /\ Extended(s, out)
  BY FinishedExact DEF FinishedSays
<1>2. /\ op \in Operations /\ hashed \subseteq trace.keccak
      /\ LevelsAre(trace.callsFromEntryPoint, Called, hashed)
      /\ broken \subseteq Rules
      /\ broken \cap LevelRules = {} <=> clean
      /\ clean => \A rule \in CallRules : Told(mistakable, rule) =>
           (rule \notin broken <=> CallsClean(rule, op, p))
  BY DEF Tracks, TurnsInv, LevelsInv, BrokenNoted
<1>3. OutInv(mistakable, s, Ended) /\ \A rule : StackClean(rule, op, p.stack)
  BY OnlyBase
<1>4. Called = present /\ (Ended => "paymaster" \in present)
  BY NobodyAwaited DEF Called, Ended, PresentEntities, Entities
<1>5. "account" \in present /\ present \subseteq Entities
  <2>1. op.account # "absent"
    BY <1>2, ValidationAssumption DEF Operation
  <2> QED BY <2>1 DEF PresentEntities, Entities
<1> HIDE DEF d, out
<1>6. /\ ~ d.thrown /\ q = trace.callsFromEntryPoint /\ LevelsAre(q, present, hashed)
      /\ hashed \subseteq d.keccak
  BY <1>1, <1>2, <1>4 DEF EndsAs
<1>7. \A rule : CallsClean(rule, op, p) <=> OutClean(rule, op, s)
  BY <1>3 DEF CallsClean
<1> HIDE DEF p, s, into
<1>8. /\ into => ~ OutClean("OP052", op, s)
      /\ "OP052" \notin mistakable => (OutClean("OP052", op, s) <=> ~ into)
      /\ OutClean("OP061", op, s) <=> ~ paid
      /\ "EREP050" \notin mistakable =>
           /\ OutClean("EREP050", op, s) <=> ~ context \/ staked
           /\ context => Ended
  <2>1. into = IF op.version = "v0.6" THEN illegalCallV06(out) ELSE illegalCallV07(out)
    BY DEF into
  <2> QED BY <1>1, <1>3, <2>1, CallsJudged
<1>9. judged <=> LevelsClean(op, q) /\ ("paymaster" \in present => ~ context \/ staked)
  <2> HIDE DEF q
  <2>1. q = d.callsFromEntryPoint
    BY DEF q
  <2> QED BY <1>2, <1>6, <2>1, LevelsJudged
<1>10. levelsOf(d, "account") # {} /\ q # <<>>
  <2>1. levelsOf(d, "account") # {}
    <3> DEFINE e == "account"
    <3>1. e \in Entities /\ e \in present /\ q = d.callsFromEntryPoint
      BY <1>5
    <3> HIDE DEF e, q
    <3>2. levelsOf(d, e) # {} <=> e \in present
      BY <1>6, <3>1, LevelsFound
    <3> QED BY <3>1, <3>2 DEF e
  <2>2. q # <<>>
    <3>1. DOMAIN <<>> = {}
      OBVIOUS
    <3> QED BY <2>1, <3>1 DEF levelsOf
  <2> QED BY <2>1, <2>2
<1>11. Parsed(d) <=> ParsedAs(d)
  BY ParsedIs
<1>12. ParsedAs(d) <=> q # <<>> /\ ~ into /\ ~ paid /\ levelsOf(d, "account") # {} /\ judged
  BY DEF ParsedAs, out, into
<1>13. clean <=> LevelsClean(op, q)
  BY <1>6
<1> HIDE DEF q, paid, context, clean, judged, staked, present
<1>14. Parsed(d) <=> ~ into /\ ~ paid /\ clean /\ ("paymaster" \in present => ~ context \/ staked)
  BY <1>9, <1>10, <1>11, <1>12, <1>13
<1>15. clean =>
         /\ "OP061" \notin broken <=> ~ paid
         /\ "OP052" \notin broken <=> OutClean("OP052", op, s)
         /\ "EREP050" \notin mistakable => ("EREP050" \notin broken <=> ~ context \/ staked)
  <2>1. {"OP052", "OP061", "EREP050"} \subseteq CallRules
    BY DEF CallRules
  <2>2. /\ Told(mistakable, "OP052") /\ Told(mistakable, "OP061")
        /\ "EREP050" \notin mistakable => Told(mistakable, "EREP050")
    BY DEF Told
  <2> QED BY <1>2, <1>7, <1>8, <2>1, <2>2
<1>16. ASSUME Parsed(d) PROVE broken \subseteq Indistinct
  <2>1. broken \cap LevelRules = {} /\ "OP061" \notin broken
    BY <1>2, <1>14, <1>15, <1>16
  <2>2. "OP052" \in broken => "OP052" \in mistakable
    BY <1>8, <1>14, <1>15, <1>16
  <2>3. "EREP050" \in broken => "EREP050" \in mistakable
    BY <1>4, <1>8, <1>14, <1>15, <1>16
  <2> QED BY <1>2, <2>1, <2>2, <2>3 DEF Rules, CallRules, Indistinct
<1>17. ASSUME ~ Parsed(d), "EREP050" \notin mistakable
       PROVE  broken \ {"GasBeforeCaller"} # {}
  <2>1. "GasBeforeCaller" \notin LevelRules \cup CallRules
    BY DEF LevelRules, CallRules
  <2>2. CASE ~ clean
    BY <1>2, <2>1, <2>2
  <2>3. CASE clean
    <3>1. "OP052" \in broken \/ "OP061" \in broken \/ "EREP050" \in broken
      BY <1>8, <1>14, <1>15, <1>17, <2>3
    <3> QED BY <3>1
  <2> QED BY <2>2, <2>3
<1> QED BY <1>1, <1>6, <1>16, <1>17 DEF d

-----------------------------------------------------------------------------

\* The inductive invariant: while the trace grows, it tracks, if the collector sees
\* the contracts; the verdict is then what it should be.
VerdictInv ==
    /\ op \in Operations
    /\ Seeing => /\ phase = "tracing" => Tracks
                 /\ RulesEnforced /\ NoFalseAlarm

\* A step that leaves the trace and the contracts alone.
LEMMA SameTracks ==
    ASSUME Tracks, UNCHANGED <<op, program, frames, calling, deployed, hashed, previous, broken,
                               mistakable, trace>>
    PROVE  Tracks'
<1>1. /\ Entity' = Entity /\ Called' = Called /\ Ended' = Ended
      /\ LastLevel(trace') = LastLevel(trace)
  BY DEF Entity, Called, Ended, LastLevel
<1>2. TurnsInv' /\ FramesInv'
  BY <1>1 DEF Tracks, TurnsInv, FramesInv
<1>3. DeployInv'
  BY <1>1 DEF Tracks, DeployInv
<1>4. LevelsInv' /\ MemoryInv'
  BY <1>1 DEF Tracks, LevelsInv, MemoryInv
<1>5. CallingInv' /\ BrokenNoted'
  BY <1>1 DEF Tracks, CallingInv, BrokenNoted
<1> QED BY <1>2, <1>3, <1>4, <1>5 DEF Tracks

\* The verdict.
LEMMA TracedVerdict ==
    ASSUME Tracks, Seeing, Traced
    PROVE  phase' \in {"untimely", "illegal", "hashing"} /\ RulesEnforced' /\ NoFalseAlarm'
<1>1. /\ frames = <<>> /\ calling = <<>> /\ trace' = FinishedTrace
      /\ broken' = broken /\ mistakable' = mistakable
      /\ phase' = IF trace'.thrown \/ Last(trace'.calls).type # "REVERT" THEN "invalid"
                  ELSE IF op.version = "v0.7" /\ ~ inTimeSafe THEN "untimely"
                  ELSE IF ~ Parsed(trace') THEN "illegal"
                  ELSE "hashing"
  BY DEF Traced, fixed, evm
<1>2. /\ Parsed(trace') => broken \subseteq Indistinct
      /\ ~ Parsed(trace') => broken \ {"GasBeforeCaller"} # {} \/ "EREP050" \in mistakable
      /\ ~ trace'.thrown /\ Last(trace'.calls).type = "REVERT"
  BY <1>1, AnswerJudged
<1> HIDE DEF Parsed
<1>3. /\ phase' \in {"untimely", "illegal", "hashing"}
      /\ phase' = "hashing" => broken \subseteq Indistinct
      /\ phase' = "illegal" => broken \ {"GasBeforeCaller"} # {} \/ "EREP050" \in mistakable
  BY <1>1, <1>2
<1> QED BY <1>1, <1>3 DEF RulesEnforced, NoFalseAlarm, Indistinct

\* A step to a phase of which the verdict says nothing.
Elsewhere == phase' \notin {"tracing", "hashing", "illegal", "invalid"}

\* Every step keeps the invariant.
LEMMA VerdictStep == VerdictInv /\ [Next]_vars => VerdictInv'
<1> SUFFICES ASSUME VerdictInv, [Next]_vars PROVE VerdictInv'
  OBVIOUS
<1>0. op' = op /\ (Seeing' <=> Seeing)
  BY DEF Next, vars, fixed, Seeing, CallEntity, Execute, Return, Revert, NoSender, Traced, Hashed,
     Rechecked, Retraced, ValidatedUnsafely, Upgrade, Wait
<1>01. CASE ~ Seeing
  BY <1>0, <1>01 DEF VerdictInv
<1>02. /\ Elsewhere => VerdictInv'
       /\ Seeing /\ phase' = "tracing" /\ Tracks' => VerdictInv'
  BY <1>0 DEF Elsewhere, VerdictInv, RulesEnforced, NoFalseAlarm
<1>03. ASSUME Seeing, phase' \in {phase, "failed"}, phase = "tracing",
              phase' = "tracing" => Tracks'
       PROVE  VerdictInv'
  BY <1>02, <1>03 DEF Elsewhere
<1>1. CASE Seeing /\ CallEntity
  <2>1. phase = "tracing" /\ phase' = phase
    BY <1>1 DEF CallEntity
  <2> QED BY <1>1, <1>03, <2>1, CallTracks DEF VerdictInv
<1>2. CASE Seeing /\ \E i \in program : Execute(i)
  <2>1. PICK i \in program : Execute(i)
    BY <1>2
  <2>2. phase = "tracing"
    BY <2>1 DEF Execute
  <2>3. phase' = "failed" \/ (phase' = phase /\ Tracks')
    BY <1>2, <2>1, <2>2, ExecuteTracks DEF VerdictInv
  <2> QED BY <1>2, <1>03, <2>2, <2>3
<1>3. CASE Seeing /\ Return
  <2>1. phase = "tracing"
    BY <1>3 DEF Return
  <2> QED BY <1>3, <1>03, <2>1, ReturnTracks DEF VerdictInv
<1>4. CASE Seeing /\ Revert
  <2>1. phase = "tracing"
    BY <1>4 DEF Revert
  <2> QED BY <1>4, <1>03, <2>1, RevertTracks DEF VerdictInv
<1>5. CASE Seeing /\ Traced
  <2>1. phase = "tracing"
    BY <1>5 DEF Traced
  <2>2. phase' \in {"untimely", "illegal", "hashing"} /\ RulesEnforced' /\ NoFalseAlarm'
    BY <1>5, <2>1, TracedVerdict DEF VerdictInv
  <2> QED BY <1>0, <2>2 DEF VerdictInv
<1>6. CASE NoSender \/ Hashed \/ Rechecked \/ Retraced \/ ValidatedUnsafely
  <2>1. Elsewhere
    BY <1>6 DEF Elsewhere, NoSender, Hashed, Rechecked, Retraced, ValidatedUnsafely
  <2> QED BY <1>02, <2>1
<1>7. CASE Upgrade \/ Wait
  BY <1>7 DEF Upgrade, Wait, fixed, evm, VerdictInv, RulesEnforced, NoFalseAlarm, Indistinct, Seeing
<1>8. CASE UNCHANGED vars
  <2>1. /\ phase' = phase /\ UNCHANGED <<op, program, frames, calling, deployed, hashed, previous,
                                         broken, mistakable, trace>>
    BY <1>8 DEF vars, fixed, evm
  <2>2. /\ Seeing /\ phase' = "tracing" => Tracks'
        /\ RulesEnforced => RulesEnforced'
        /\ NoFalseAlarm => NoFalseAlarm'
    BY <2>1, SameTracks DEF VerdictInv, RulesEnforced, NoFalseAlarm, Indistinct
  <2> QED BY <1>0, <2>2 DEF VerdictInv
<1> QED BY <1>01, <1>1, <1>2, <1>3, <1>4, <1>5, <1>6, <1>7, <1>8 DEF Next

\* tracerResultParserV06 and V07, for any contracts, programs, depths of calls and reverts,
\* and for each operation whose collector sees the contracts, as every one of v0.7 does:
\* what the parser refuses is what broke a rule, although it sees only what the collector
\* kept.  What it cannot tell is said in VerdictExact: GAS before CALLER, and, once a
\* contract has called the entry point's delegateAndRevert or the paymaster's validation,
\* the rules whose call it looks for by that name (TracerResultParserV07.ts:463-474 and
\* 663).
THEOREM VerdictDecided == Spec => []VerdictExact
<1>1. Init => VerdictInv
  BY InitTracks DEF Init, VerdictInv, RulesEnforced, NoFalseAlarm
<1>2. VerdictInv => VerdictExact
  BY DEF VerdictInv, VerdictExact
<1> QED BY <1>1, <1>2, VerdictStep, PTL DEF Spec
=============================================================================
