------------------------ MODULE SenderManagerProofs ------------------------
(***************************************************************************)
(* For any number of wallets and clients.                                  *)
(*                                                                         *)
(* The semaphore's permits and the clients it let through always add up to *)
(* the wallets in the array, so that getWallet never finds the array empty,*)
(* and no wallet has two holders.                                          *)
(*                                                                         *)
(* For its callers the manager is the abstract WalletPool: every step of it*)
(* is a step of the pool, or none.                                         *)
(*                                                                         *)
(* Refilling: a wallet's balance and what is on its way to it stay within  *)
(* one target for each call that may have looked at it, and a call that    *)
(* runs alone sends no more than it has found the utility account to have. *)
(***************************************************************************)
EXTENDS Refill, SequenceLemmas

\* The queue holds each waiting client once.
QueueInv ==
    /\ Distinct(queue)
    /\ Elements(queue) = At("queued")

\* A permit is left only if nobody wants it.
PermitInv == value > 0 => queue = <<>> /\ At("waiting") = {}

\* Wallets in the array = permits left + clients on their way to the array.
TokenInv == Len(availableWallets) = value + Cardinality(At("granted"))

\* Exactly the holders own a wallet.
HeldInv == \A c \in Clients : held[c] # NoWallet <=> pc[c] = "holding"

IInv ==
    /\ TypeOK
    /\ QueueInv
    /\ PermitInv
    /\ TokenInv
    /\ HeldInv
    /\ WalletsExclusive

-----------------------------------------------------------------------------

LEMMA PrefixType ==
    ASSUME NEW S, NEW q \in Seq(S), Distinct(q), NEW n \in Nat, n < Len(q)
    PROVE  /\ SubSeq(q, 1, n) \in Seq(Elements(SubSeq(q, 1, n)))
           /\ Elements(SubSeq(q, 1, n)) \subseteq Elements(q)
           /\ Distinct(SubSeq(q, 1, n))
<1> DEFINE p == SubSeq(q, 1, n)
<1>1. /\ p \in Seq(S) /\ Len(p) = n
      /\ \A i \in 1..n : p[i] = q[i] /\ i \in 1..Len(q)
  OBVIOUS
<1> HIDE DEF p
<1>2. \A i \in 1..Len(p) : p[i] \in Elements(p) /\ p[i] \in Elements(q)
  BY <1>1 DEF Elements
<1>3. p \in Seq(Elements(p))
  BY <1>1, <1>2
<1>4. Elements(p) \subseteq Elements(q)
  BY <1>2 DEF Elements
<1>5. Distinct(p)
  BY <1>1 DEF Distinct
<1> QED BY <1>3, <1>4, <1>5 DEF p

LEMMA WalletsType ==
    /\ wallets \in Seq(Wallets)
    /\ Distinct(wallets)
    /\ Wallets \subseteq Elements(ExecutorPrivateKeys)
<1>1. CASE Len(ExecutorPrivateKeys) > MaxExecutors
  BY <1>1, PrefixType, SenderAssumption DEF wallets, Wallets
<1>2. CASE ~ (Len(ExecutorPrivateKeys) > MaxExecutors)
  BY <1>2, SenderAssumption DEF wallets, Wallets
<1> QED BY <1>1, <1>2

LEMMA WalletsNotNone == NoWallet \notin Wallets
BY WalletsType, SenderAssumption

\* A dispatch either lets nobody through ...
LEMMA DispatchNone ==
    ASSUME NEW q \in Seq(Clients), NEW v \in Nat, q = <<>> \/ v = 0
    PROVE  /\ Granted(q, v) = 0
           /\ {q[i] : i \in 1..Granted(q, v)} = {}
           /\ SubSeq(q, Granted(q, v) + 1, Len(q)) = q
<1>1. Granted(q, v) = 0
  BY DEF Granted
<1>2. SubSeq(q, 1, Len(q)) = q
  OBVIOUS
<1> QED BY <1>1, <1>2

\* ... or, with one permit or one client in the queue, its head.
LEMMA DispatchOne ==
    ASSUME NEW q \in Seq(Clients), NEW v \in Nat,
           q # <<>>, v > 0, v = 1 \/ Len(q) =< 1
    PROVE  /\ Granted(q, v) = 1
           /\ {q[i] : i \in 1..Granted(q, v)} = {Head(q)}
           /\ SubSeq(q, Granted(q, v) + 1, Len(q)) = Tail(q)
<1>1. Granted(q, v) = 1
  <2>1. Len(q) \in Nat /\ Len(q) >= 1
    BY EmptySeq
  <2>2. CASE v < Len(q)
    <3>1. v = 1
      BY <2>1, <2>2
    <3> QED BY <2>2, <3>1 DEF Granted
  <2>3. CASE ~ (v < Len(q))
    <3>1. Len(q) =< 1
      BY <2>1, <2>3
    <3>2. Granted(q, v) = Len(q)
      BY <2>3 DEF Granted
    <3> QED BY <2>1, <3>1, <3>2
  <2> QED BY <2>2, <2>3
<1>2. {q[i] : i \in 1..1} = {Head(q)}
  OBVIOUS
<1>3. SubSeq(q, 2, Len(q)) = Tail(q)
  BY TailIsSubSeq
<1> QED BY <1>1, <1>2, <1>3

LEMMA DistinctTail ==
    ASSUME NEW S, NEW q \in Seq(S), q # <<>>, Distinct(q)
    PROVE  /\ Tail(q) \in Seq(S)
           /\ Distinct(Tail(q))
           /\ Elements(Tail(q)) = Elements(q) \ {Head(q)}
           /\ Head(q) \in Elements(q)
           /\ Head(q) \in S
<1>1. /\ Tail(q) \in Seq(S) /\ Len(Tail(q)) = Len(q) - 1
      /\ \A i \in 1..Len(Tail(q)) : Tail(q)[i] = q[i + 1]
      /\ Head(q) = q[1] /\ Len(q) \in Nat /\ Len(q) >= 1 /\ q[1] \in S
  OBVIOUS
<1>2. Distinct(Tail(q))
  BY <1>1 DEF Distinct
<1>3. Elements(Tail(q)) \subseteq Elements(q) \ {Head(q)}
  BY <1>1 DEF Elements, Distinct
<1>4. ASSUME NEW x \in Elements(q) \ {Head(q)} PROVE x \in Elements(Tail(q))
  <2>1. PICK i \in 1..Len(q) : x = q[i] /\ i # 1
    BY <1>1, <1>4 DEF Elements
  <2>2. i - 1 \in 1..Len(Tail(q)) /\ Tail(q)[i - 1] = x
    BY <1>1, <2>1
  <2> QED BY <2>2 DEF Elements
<1> QED BY <1>1, <1>2, <1>3, <1>4 DEF Elements

LEMMA DistinctAppend ==
    ASSUME NEW S, NEW q \in Seq(S), NEW x \in S
    PROVE  /\ Append(q, x) \in Seq(S)
           /\ Append(q, x) # <<>>
           /\ Elements(Append(q, x)) = Elements(q) \cup {x}
           /\ Distinct(q) /\ x \notin Elements(q) => Distinct(Append(q, x))
           /\ Len(Append(q, x)) = Len(q) + 1
<1>1. /\ Append(q, x) \in Seq(S) /\ Len(Append(q, x)) = Len(q) + 1
      /\ Len(q) \in Nat
      /\ \A i \in 1..Len(q) : Append(q, x)[i] = q[i]
      /\ Append(q, x)[Len(q) + 1] = x
  OBVIOUS
<1>2. Elements(Append(q, x)) \subseteq Elements(q) \cup {x}
  BY <1>1 DEF Elements
<1>3. Elements(q) \cup {x} \subseteq Elements(Append(q, x))
  BY <1>1 DEF Elements
<1>4. Distinct(q) /\ x \notin Elements(q) => Distinct(Append(q, x))
  BY <1>1 DEF Elements, Distinct
<1> QED BY <1>1, <1>2, <1>3, <1>4

LEMMA AtFinite == \A l : IsFiniteSet(At(l))
BY SenderAssumption, FS_Subset DEF At

\* Moving one client in or out of a label changes its population by one.
LEMMA Arrives ==
    ASSUME NEW S, NEW T, NEW c, IsFiniteSet(S), T = S \cup {c}, c \notin S
    PROVE  Cardinality(T) = Cardinality(S) + 1
BY FS_AddElement, FS_CardinalityType

LEMMA Leaves ==
    ASSUME NEW S, NEW T, NEW c, IsFiniteSet(S), T = S \ {c}, c \in S
    PROVE  Cardinality(T) = Cardinality(S) - 1
BY FS_RemoveElement, FS_CardinalityType

-----------------------------------------------------------------------------

LEMMA InitIInv == Init => IInv
<1> SUFFICES ASSUME Init PROVE IInv
  OBVIOUS
<1>1. TypeOK
  BY WalletsType, SenderAssumption DEF Init, TypeOK
<1>2. QueueInv
  BY DEF Init, QueueInv, Distinct, Elements, At
<1>3. PermitInv
  BY DEF Init, PermitInv, At
<1>4. TokenInv
  <2>1. At("granted") = {}
    BY DEF Init, At
  <2>2. availableWallets = wallets /\ value = Len(wallets) /\ Len(wallets) \in Nat
    BY WalletsType DEF Init
  <2>3. Cardinality(At("granted")) = 0
    BY <2>1, FS_EmptySet
  <2> QED BY <2>2, <2>3 DEF TokenInv
<1>5. HeldInv
  BY DEF Init, HeldInv
<1>6. WalletsExclusive
  BY WalletsType DEF Init, WalletsExclusive, At
<1> QED BY <1>1, <1>2, <1>3, <1>4, <1>5, <1>6 DEF IInv

LEMMA WaitForUnlockStep ==
    ASSUME IInv, NEW c \in Clients, waitForUnlock(c) PROVE IInv'
<1> DEFINE at == [pc EXCEPT ![c] = "waiting"]
<1>1. pc[c] = "idle" /\ queue \in Seq(Clients) /\ value \in Nat
  BY DEF waitForUnlock, IInv, TypeOK
<1>2. /\ queue' = queue
      /\ value' = value
      /\ pc' = [d \in Clients |->
                   IF at[d] = "waiting" /\ value > 0 THEN "unlocked" ELSE at[d]]
      /\ UNCHANGED <<availableWallets, held>>
  <2>1. queue = <<>> \/ value = 0
    BY DEF IInv, PermitInv, TypeOK
  <2> QED BY <1>1, <2>1, DispatchNone DEF waitForUnlock, dispatch
<1>3. /\ At("granted")' = At("granted")
      /\ At("queued")' = At("queued")
      /\ At("holding")' = At("holding")
      /\ value > 0 => At("waiting")' = {}
  BY <1>1, <1>2 DEF At, IInv, TypeOK
<1>4. TypeOK'
  BY <1>1, <1>2 DEF IInv, TypeOK
<1>5. QueueInv' /\ PermitInv' /\ TokenInv' /\ WalletsExclusive'
  BY <1>2, <1>3 DEF IInv, QueueInv, PermitInv, TokenInv, WalletsExclusive
<1>6. HeldInv'
  BY <1>1, <1>2 DEF IInv, TypeOK, HeldInv
<1> QED BY <1>4, <1>5, <1>6 DEF IInv

LEMMA AcquireStep ==
    ASSUME IInv, NEW c \in Clients, acquire(c) PROVE IInv'
<1> DEFINE at == [pc EXCEPT ![c] = "queued"]
           q == Append(queue, c)
<1>1. /\ pc[c] = "unlocked" /\ queue \in Seq(Clients) /\ value \in Nat
      /\ dispatch(q, value, at) /\ UNCHANGED <<availableWallets, held>>
  BY DEF acquire, IInv, TypeOK
<1>2. c \notin Elements(queue)
  BY <1>1 DEF IInv, QueueInv, At
<1>3. q \in Seq(Clients) /\ q # <<>> /\ Distinct(q)
      /\ Elements(q) = Elements(queue) \cup {c} /\ Len(q) = Len(queue) + 1
  BY <1>1, <1>2, DistinctAppend DEF IInv, QueueInv
<1>4. CASE value = 0
  <2>1. queue' = q /\ value' = 0 /\ pc' = at
    <3>1. /\ Granted(q, value) = 0
          /\ {q[i] : i \in 1..Granted(q, value)} = {}
          /\ SubSeq(q, Granted(q, value) + 1, Len(q)) = q
      BY <1>1, <1>3, <1>4, DispatchNone
    <3> HIDE DEF q
    <3>2. queue' = q /\ value' = value - 0
      BY <1>1, <3>1 DEF dispatch
    <3>3. pc' = [d \in Clients |-> at[d]]
      BY <1>1, <1>4, <3>1 DEF dispatch
    <3>4. pc' = at
      BY <3>3 DEF IInv, TypeOK
    <3> QED BY <1>4, <3>2, <3>4
  <2>2. /\ At("granted")' = At("granted")
        /\ At("queued")' = At("queued") \cup {c}
        /\ At("holding")' = At("holding")
    BY <1>1, <2>1 DEF At, IInv, TypeOK
  <2>3. TypeOK'
    BY <1>1, <1>3, <2>1 DEF IInv, TypeOK
  <2>4. QueueInv' /\ PermitInv' /\ TokenInv' /\ WalletsExclusive'
    <3>1. queue' = q /\ value' = value /\ availableWallets' = availableWallets
          /\ held' = held
      BY <1>1, <1>4, <2>1
    <3>2. QueueInv'
      BY <1>3, <3>1, <2>2 DEF IInv, QueueInv
    <3>3. PermitInv'
      BY <1>4, <3>1 DEF PermitInv
    <3>4. TokenInv' /\ WalletsExclusive'
      BY <3>1, <2>2 DEF IInv, TokenInv, WalletsExclusive
    <3> QED BY <3>2, <3>3, <3>4
  <2>5. HeldInv'
    BY <1>1, <2>1 DEF IInv, TypeOK, HeldInv
  <2> QED BY <2>3, <2>4, <2>5 DEF IInv
<1>5. CASE value > 0
  <2>1. queue = <<>> /\ q = <<c>> /\ At("waiting") = {}
    BY <1>1, <1>5 DEF IInv, PermitInv
  <2>2. /\ queue' = <<>> /\ value' = value - 1
        /\ pc' = [pc EXCEPT ![c] = "granted"]
    <3>1. Len(q) = 1 /\ Head(q) = c /\ Tail(q) = <<>>
      BY <2>1
    <3>2. /\ queue' = Tail(q) /\ value' = value - 1
          /\ pc' = [d \in Clients |->
                       IF d = Head(q) THEN "granted"
                       ELSE IF at[d] = "waiting" /\ value - 1 > 0
                            THEN "unlocked" ELSE at[d]]
      <4>1. /\ Granted(q, value) = 1
            /\ {q[i] : i \in 1..Granted(q, value)} = {Head(q)}
            /\ SubSeq(q, Granted(q, value) + 1, Len(q)) = Tail(q)
        <5>1. Len(q) =< 1
          BY <3>1
        <5> HIDE DEF q
        <5> QED BY <1>1, <1>3, <1>5, <5>1, DispatchOne
      <4> HIDE DEF q
      <4> QED BY <1>1, <4>1 DEF dispatch
    <3>3. \A d \in Clients : at[d] # "waiting"
      BY <1>1, <2>1 DEF At, IInv, TypeOK
    <3> QED BY <3>1, <3>2, <3>3, <1>1 DEF IInv, TypeOK
  <2>3. /\ At("granted")' = At("granted") \cup {c} /\ c \notin At("granted")
        /\ At("queued")' = At("queued")
        /\ At("waiting")' = At("waiting")
        /\ At("holding")' = At("holding")
    BY <1>1, <2>2 DEF At, IInv, TypeOK
  <2>4. Cardinality(At("granted")') = Cardinality(At("granted")) + 1
    BY <2>3, AtFinite, Arrives
  <2>5. TypeOK'
    BY <1>1, <1>5, <2>2 DEF IInv, TypeOK
  <2>6. QueueInv' /\ PermitInv' /\ WalletsExclusive'
    BY <1>1, <2>1, <2>2, <2>3
       DEF IInv, QueueInv, PermitInv, WalletsExclusive, Distinct, Elements
  <2>7. TokenInv'
    <3>1. Cardinality(At("granted")) \in Nat
      BY AtFinite, FS_CardinalityType
    <3> QED BY <3>1, <1>1, <2>2, <2>4 DEF IInv, TokenInv, TypeOK
  <2>8. HeldInv'
    BY <1>1, <2>2 DEF IInv, TypeOK, HeldInv
  <2> QED BY <2>5, <2>6, <2>7, <2>8 DEF IInv
<1> QED BY <1>1, <1>4, <1>5

\* The client the semaphore let through finds a wallet.
LEMMA GrantedFindsWallet ==
    ASSUME IInv, NEW c \in Clients, pc[c] = "granted"
    PROVE  availableWallets # <<>>
<1>1. c \in At("granted")
  BY DEF At
<1>2. Cardinality(At("granted")) \in Nat /\ Cardinality(At("granted")) # 0
  BY <1>1, AtFinite, FS_CardinalityType, FS_EmptySet
<1>3. Len(availableWallets) > 0
  BY <1>2 DEF IInv, TokenInv, TypeOK
<1> QED BY <1>3, EmptySeq

LEMMA GetWalletStep ==
    ASSUME IInv, NEW c \in Clients, getWallet(c) PROVE IInv'
<1>1. /\ pc[c] = "granted" /\ availableWallets # <<>>
      /\ held' = [held EXCEPT ![c] = Head(availableWallets)]
      /\ availableWallets' = Tail(availableWallets)
      /\ pc' = [pc EXCEPT ![c] = "holding"]
      /\ UNCHANGED <<value, queue>>
  BY GrantedFindsWallet DEF getWallet
<1>2. /\ Tail(availableWallets) \in Seq(Wallets)
      /\ Distinct(Tail(availableWallets))
      /\ Elements(Tail(availableWallets))
            = Elements(availableWallets) \ {Head(availableWallets)}
      /\ Head(availableWallets) \in Elements(availableWallets)
      /\ Head(availableWallets) \in Wallets
      /\ Len(Tail(availableWallets)) = Len(availableWallets) - 1
  BY <1>1, DistinctTail, HeadTailProperties DEF IInv, TypeOK, WalletsExclusive
<1>3. /\ At("granted")' = At("granted") \ {c} /\ c \in At("granted")
      /\ At("queued")' = At("queued")
      /\ At("waiting")' = At("waiting")
      /\ At("holding")' = At("holding") \cup {c}
      /\ c \notin At("holding")
  BY <1>1 DEF At, IInv, TypeOK
<1>4. TypeOK'
  BY <1>1, <1>2 DEF IInv, TypeOK
<1>5. QueueInv' /\ PermitInv'
  BY <1>1, <1>3 DEF IInv, QueueInv, PermitInv
<1>6. TokenInv'
  <2>1. Cardinality(At("granted")') = Cardinality(At("granted")) - 1
    BY <1>3, AtFinite, Leaves
  <2>2. Cardinality(At("granted")) \in Nat
    BY AtFinite, FS_CardinalityType
  <2>3. Len(availableWallets) \in Nat
    BY DEF IInv, TypeOK
  <2> QED BY <1>1, <1>2, <2>1, <2>2, <2>3 DEF IInv, TokenInv, TypeOK
<1>7. HeldInv'
  BY <1>1, <1>2, WalletsNotNone DEF IInv, TypeOK, HeldInv
<1>8. WalletsExclusive'
  <2>1. Distinct(availableWallets)'
    BY <1>1, <1>2 DEF Distinct
  <2>2. ASSUME NEW d \in At("holding")'
        PROVE  held'[d] \notin Elements(availableWallets)'
    <3>1. Elements(availableWallets)' = Elements(Tail(availableWallets))
      BY <1>1 DEF Elements
    <3>2. CASE d = c
      BY <1>1, <1>2, <3>1, <3>2 DEF IInv, TypeOK
    <3>3. CASE d # c
      <4>1. d \in At("holding") /\ held'[d] = held[d]
        BY <1>1, <1>3, <2>2, <3>3 DEF IInv, TypeOK, At
      <4> QED BY <1>2, <3>1, <4>1 DEF IInv, WalletsExclusive
    <3> QED BY <3>2, <3>3
  <2>3. ASSUME NEW d \in At("holding")', NEW e \in At("holding")',
               held'[d] = held'[e]
        PROVE  d = e
    BY <1>1, <1>2, <1>3, <2>3 DEF IInv, WalletsExclusive, TypeOK, At
  <2> QED BY <2>1, <2>2, <2>3 DEF WalletsExclusive
<1> QED BY <1>4, <1>5, <1>6, <1>7, <1>8 DEF IInv

\* Returning a wallet: the permit wakes the waiters or goes to the queue.
LEMMA ReleaseStep ==
    ASSUME IInv, NEW c \in Clients, pc[c] = "holding", Push(c),
           held' = [held EXCEPT ![c] = NoWallet]
    PROVE  IInv'
<1> DEFINE at == [pc EXCEPT ![c] = "idle"]
<1>1. /\ availableWallets' = Append(availableWallets, held[c])
      /\ dispatch(queue, value + 1, at)
      /\ queue \in Seq(Clients) /\ value \in Nat /\ value + 1 \in Nat
      /\ c \in At("holding")
  BY DEF Push, IInv, TypeOK, At
<1>2. held[c] \in Wallets /\ held[c] \notin Elements(availableWallets)
  BY <1>1 DEF IInv, TypeOK, HeldInv, WalletsExclusive
<1>3. /\ availableWallets' \in Seq(Wallets)
      /\ Distinct(availableWallets')
      /\ Elements(availableWallets') = Elements(availableWallets) \cup {held[c]}
      /\ Len(availableWallets') = Len(availableWallets) + 1
  BY <1>1, <1>2, DistinctAppend DEF IInv, TypeOK, WalletsExclusive
<1>4. \A d \in Clients : held'[d] = IF d = c THEN NoWallet ELSE held[d]
  BY DEF IInv, TypeOK
<1>5. Cardinality(At("granted")) \in Nat /\ Len(availableWallets) \in Nat
  BY AtFinite, FS_CardinalityType DEF IInv, TypeOK
<1>6. CASE queue = <<>>
  <2>1. /\ queue' = <<>> /\ value' = value + 1
        /\ pc' = [d \in Clients |->
                     IF at[d] = "waiting" THEN "unlocked" ELSE at[d]]
    <3>1. /\ Granted(queue, value + 1) = 0
          /\ {queue[i] : i \in 1..Granted(queue, value + 1)} = {}
          /\ SubSeq(queue, Granted(queue, value + 1) + 1, Len(queue)) = queue
      BY <1>1, <1>6, DispatchNone
    <3>2. value + 1 - 0 = value + 1 /\ value + 1 > 0
      BY <1>1
    <3> QED BY <1>1, <1>6, <3>1, <3>2 DEF dispatch
  <2>2. /\ At("granted")' = At("granted")
        /\ At("queued")' = At("queued")
        /\ At("waiting")' = {}
        /\ At("holding")' = At("holding") \ {c}
    BY <1>1, <2>1 DEF At, IInv, TypeOK
  <2>3. TypeOK'
    BY <1>1, <1>3, <2>1 DEF IInv, TypeOK
  <2>4. QueueInv' /\ PermitInv'
    BY <1>6, <2>1, <2>2 DEF IInv, QueueInv, PermitInv
  <2>5. TokenInv'
    BY <1>1, <1>3, <1>5, <2>1, <2>2 DEF IInv, TokenInv
  <2>6. HeldInv'
    BY <1>1, <1>4, <2>1 DEF IInv, TypeOK, HeldInv
  <2>7. WalletsExclusive'
    BY <1>1, <1>2, <1>3, <1>4, <2>2 DEF IInv, WalletsExclusive, At
  <2> QED BY <2>3, <2>4, <2>5, <2>6, <2>7 DEF IInv
<1>7. CASE queue # <<>>
  <2>1. value = 0
    BY <1>1, <1>7 DEF IInv, PermitInv
  <2>2. /\ Tail(queue) \in Seq(Clients) /\ Distinct(Tail(queue))
        /\ Elements(Tail(queue)) = Elements(queue) \ {Head(queue)}
        /\ Head(queue) \in Elements(queue) /\ Head(queue) \in Clients
    BY <1>1, <1>7, DistinctTail DEF IInv, QueueInv
  <2>3. pc[Head(queue)] = "queued" /\ Head(queue) # c
    BY <1>1, <2>2 DEF IInv, QueueInv, At
  <2>4. /\ queue' = Tail(queue) /\ value' = 0
        /\ pc' = [d \in Clients |-> IF d = Head(queue) THEN "granted" ELSE at[d]]
    <3>1. /\ Granted(queue, value + 1) = 1
          /\ {queue[i] : i \in 1..Granted(queue, value + 1)} = {Head(queue)}
          /\ SubSeq(queue, Granted(queue, value + 1) + 1, Len(queue))
                = Tail(queue)
      BY <1>1, <1>7, <2>1, DispatchOne
    <3>2. /\ value + 1 - Granted(queue, value + 1) = 0
          /\ ~ (value + 1 - Granted(queue, value + 1) > 0)
      BY <2>1, <3>1
    <3>3. queue' = Tail(queue) /\ value' = 0
      BY <1>1, <3>1, <3>2 DEF dispatch
    <3>4. pc' = [d \in Clients |->
                   IF d = Head(queue) THEN "granted" ELSE at[d]]
      <4>1. pc' = [d \in Clients |->
                     IF d = Head(queue) THEN "granted"
                     ELSE IF at[d] = "waiting"
                             /\ value + 1 - Granted(queue, value + 1) > 0
                          THEN "unlocked" ELSE at[d]]
        BY <1>1, <3>1 DEF dispatch
      <4> QED BY <3>2, <4>1
    <3> QED BY <3>3, <3>4
  <2>5. /\ At("granted")' = At("granted") \cup {Head(queue)}
        /\ Head(queue) \notin At("granted")
        /\ At("queued")' = At("queued") \ {Head(queue)}
        /\ At("holding")' = At("holding") \ {c}
    BY <1>1, <2>2, <2>3, <2>4 DEF At, IInv, TypeOK
  <2>6. TypeOK'
    BY <1>1, <1>3, <2>2, <2>4 DEF IInv, TypeOK
  <2>7. QueueInv'
    BY <2>2, <2>4, <2>5 DEF IInv, QueueInv
  <2>8. PermitInv'
    BY <2>4 DEF PermitInv
  <2>9. TokenInv'
    <3>1. Cardinality(At("granted")') = Cardinality(At("granted")) + 1
      BY <2>5, AtFinite, Arrives
    <3> QED BY <1>3, <1>5, <2>1, <2>4, <3>1 DEF IInv, TokenInv
  <2>10. HeldInv'
    BY <1>1, <1>4, <2>2, <2>3, <2>4 DEF IInv, TypeOK, HeldInv
  <2>11. WalletsExclusive'
    BY <1>1, <1>2, <1>3, <1>4, <2>5 DEF IInv, WalletsExclusive, At
  <2> QED BY <2>6, <2>7, <2>8, <2>9, <2>10, <2>11 DEF IInv
<1> QED BY <1>6, <1>7

LEMMA AbandonStep ==
    ASSUME IInv, NEW c \in Clients, Abandon(c) PROVE IInv'
<1>1. /\ pc[c] = "holding"
      /\ pc' = [pc EXCEPT ![c] = "idle"]
      /\ held' = [held EXCEPT ![c] = NoWallet]
      /\ UNCHANGED <<availableWallets, value, queue>>
  BY DEF Abandon
<1>2. /\ At("granted")' = At("granted")
      /\ At("queued")' = At("queued")
      /\ At("waiting")' = At("waiting")
      /\ At("holding")' = At("holding") \ {c}
  BY <1>1 DEF At, IInv, TypeOK
<1>3. TypeOK'
  BY <1>1 DEF IInv, TypeOK
<1>4. QueueInv' /\ PermitInv' /\ TokenInv'
  BY <1>1, <1>2 DEF IInv, QueueInv, PermitInv, TokenInv
<1>5. HeldInv'
  BY <1>1 DEF IInv, TypeOK, HeldInv
<1>6. WalletsExclusive'
  BY <1>1, <1>2 DEF IInv, WalletsExclusive, TypeOK, At
<1> QED BY <1>3, <1>4, <1>5, <1>6 DEF IInv

LEMMA NextIInv == IInv /\ [Next]_vars => IInv'
<1> SUFFICES ASSUME IInv, [Next]_vars PROVE IInv'
  OBVIOUS
<1>1. CASE UNCHANGED vars
  BY <1>1 DEF IInv, TypeOK, QueueInv, PermitInv, TokenInv, HeldInv,
              WalletsExclusive, At, vars
<1>2. ASSUME NEW c \in Clients, waitForUnlock(c) PROVE IInv'
  BY <1>2, WaitForUnlockStep
<1>3. ASSUME NEW c \in Clients, acquire(c) PROVE IInv'
  BY <1>3, AcquireStep
<1>4. ASSUME NEW c \in Clients, getWallet(c) PROVE IInv'
  BY <1>4, GetWalletStep
<1>5. ASSUME NEW c \in Clients, pushWallet(c) PROVE IInv'
  BY <1>5, ReleaseStep DEF pushWallet
<1>6. ASSUME NEW c \in Clients, markWalletProcessed(c) PROVE IInv'
  <2>1. held[c] \notin Elements(availableWallets)
    BY <1>6 DEF markWalletProcessed, IInv, WalletsExclusive, At
  <2> QED BY <1>6, <2>1, ReleaseStep DEF markWalletProcessed
<1>7. ASSUME NEW c \in Clients, Abandon(c) PROVE IInv'
  BY <1>7, AbandonStep
<1> QED BY <1>1, <1>2, <1>3, <1>4, <1>5, <1>6, <1>7 DEF Next

LEMMA IInvAlways == Spec => []IInv
BY InitIInv, NextIInv, PTL DEF Spec

-----------------------------------------------------------------------------

\* Every variable keeps its shape.
THEOREM TypeCorrect == Spec => []TypeOK
<1>1. IInv => TypeOK
  BY DEF IInv
<1> QED BY <1>1, IInvAlways, PTL

\* getWallet never throws "no more wallets": whoever passed the semaphore
\* finds a wallet, for any number of wallets, clients and leaks.
THEOREM NoMoreWallets == Spec => []NoMoreWalletsNeverThrown
<1>1. IInv => NoMoreWalletsNeverThrown
  <2> SUFFICES ASSUME IInv PROVE NoMoreWalletsNeverThrown
    OBVIOUS
  <2>1. Cardinality(At("granted")) \in Nat
    BY AtFinite, FS_CardinalityType
  <2> QED BY <2>1 DEF IInv, TypeOK, TokenInv, NoMoreWalletsNeverThrown
<1> QED BY <1>1, IInvAlways, PTL

\* A wallet is in the array or with one client, never in two places.
THEOREM Exclusive == Spec => []WalletsExclusive
<1>1. IInv => WalletsExclusive
  BY DEF IInv
<1> QED BY <1>1, IInvAlways, PTL

\* No client sleeps while a permit is left.
THEOREM NoSleepers == Spec => []NoLostWakeup
<1>1. IInv => NoLostWakeup
  BY DEF IInv, PermitInv, QueueInv, NoLostWakeup, Elements
<1> QED BY <1>1, IInvAlways, PTL

-----------------------------------------------------------------------------
(* The abstract pool.                                                      *)

AskingLabels == {"waiting", "unlocked", "queued", "granted"}

Asking(at) == {c \in Clients : at[c] \in AskingLabels}

\* Dispatching turns nobody away, and lets nobody in who has not asked.
LEMMA DispatchAsking ==
    ASSUME NEW q \in Seq(Clients), NEW v \in Nat, NEW at, dispatch(q, v, at),
           Elements(q) \subseteq Asking(at)
    PROVE  Asking(pc') = Asking(at)
<1> DEFINE n == Granted(q, v)
           through == {q[i] : i \in 1..n}
<1>1. n \in Nat /\ n =< Len(q)
  BY DEF Granted
<1>2. through \subseteq Asking(at)
  BY <1>1 DEF Elements
<1>3. pc' = [c \in Clients |->
                CASE c \in through -> "granted"
                  [] c \notin through /\ at[c] = "waiting" /\ v - n > 0 -> "unlocked"
                  [] OTHER -> at[c]]
  BY DEF dispatch
<1> HIDE DEF through, n
<1>4. ASSUME NEW c \in Clients
      PROVE  pc'[c] \in AskingLabels <=> at[c] \in AskingLabels
  <2>1. CASE c \in through
    BY <1>2, <1>3, <2>1 DEF Asking, AskingLabels
  <2>2. CASE c \notin through /\ at[c] = "waiting" /\ v - n > 0
    BY <1>3, <2>2 DEF AskingLabels
  <2>3. CASE c \notin through /\ ~ (at[c] = "waiting" /\ v - n > 0)
    BY <1>3, <2>3
  <2> QED BY <2>1, <2>2, <2>3
<1> QED BY <1>4 DEF Asking

LEMMA AskingIsPool ==
    /\ At("waiting") \cup At("unlocked") \cup At("queued") \cup At("granted") = Asking(pc)
    /\ (At("waiting") \cup At("unlocked") \cup At("queued") \cup At("granted"))' = Asking(pc')
BY DEF At, Asking, AskingLabels

\* A call of the code is a step of the pool, or none.
LEMMA CallIsPoolStep ==
    ASSUME IInv, NEW c \in Clients,
           \/ waitForUnlock(c) \/ acquire(c) \/ getWallet(c)
           \/ pushWallet(c) \/ markWalletProcessed(c) \/ Abandon(c)
    PROVE  \/ Pool!Ask(c) \/ Pool!Take(c) \/ Pool!Give(c) \/ Pool!Lose(c)
           \/ UNCHANGED <<Elements(availableWallets), Asking(pc), held>>
<1>0. /\ queue \in Seq(Clients) /\ value \in Nat /\ availableWallets \in Seq(Wallets)
      /\ pc \in [Clients -> {"idle", "waiting", "unlocked", "queued", "granted", "holding"}]
      /\ held \in [Clients -> Wallets \cup {NoWallet}]
      /\ held[c] # NoWallet <=> pc[c] = "holding"
      /\ Elements(queue) = At("queued")
  BY DEF IInv, TypeOK, HeldInv, QueueInv
<1>1. CASE waitForUnlock(c)
  <2> DEFINE at == [pc EXCEPT ![c] = "waiting"]
  <2>1. pc[c] = "idle" /\ dispatch(queue, value, at) /\ UNCHANGED <<availableWallets, held>>
    BY <1>1 DEF waitForUnlock
  <2>2. Asking(at) = Asking(pc) \cup {c} /\ c \notin Asking(pc)
    BY <1>0, <2>1 DEF Asking, AskingLabels
  <2>3. Elements(queue) \subseteq Asking(at)
    BY <1>0, <2>1, <2>2 DEF At, Asking, AskingLabels
  <2>4. Asking(pc') = Asking(at)
    <3> HIDE DEF at
    <3> QED BY <1>0, <2>1, <2>3, DispatchAsking
  <2>5. Pool!Ask(c)
    BY <1>0, <2>1, <2>2, <2>4, AskingIsPool DEF Pool!Ask
  <2> QED BY <2>5
<1>2. CASE acquire(c)
  <2> DEFINE at == [pc EXCEPT ![c] = "queued"]
             q == Append(queue, c)
  <2>1. pc[c] = "unlocked" /\ dispatch(q, value, at) /\ UNCHANGED <<availableWallets, held>>
    BY <1>2 DEF acquire
  <2>2. Asking(at) = Asking(pc) /\ c \in Asking(pc)
    BY <1>0, <2>1 DEF Asking, AskingLabels
  <2>3. q \in Seq(Clients) /\ Elements(q) \subseteq Asking(at)
    BY <1>0, <2>2, DistinctAppend DEF At, Asking, AskingLabels
  <2>4. Asking(pc') = Asking(at)
    <3> HIDE DEF at, q
    <3> QED BY <1>0, <2>1, <2>3, DispatchAsking
  <2> QED BY <2>1, <2>2, <2>4
<1>3. CASE getWallet(c)
  <2>1. /\ pc[c] = "granted" /\ availableWallets # <<>>
        /\ held' = [held EXCEPT ![c] = Head(availableWallets)]
        /\ availableWallets' = Tail(availableWallets)
        /\ pc' = [pc EXCEPT ![c] = "holding"]
    BY <1>3, GrantedFindsWallet DEF getWallet
  <2>2. /\ Elements(availableWallets') = Elements(availableWallets) \ {Head(availableWallets)}
        /\ Head(availableWallets) \in Elements(availableWallets)
    BY <1>0, <2>1, DistinctTail DEF IInv, WalletsExclusive
  <2>3. c \in Asking(pc) /\ Asking(pc') = Asking(pc) \ {c}
    BY <1>0, <2>1 DEF Asking, AskingLabels
  <2>4. Pool!Take(c)
    BY <2>1, <2>2, <2>3, AskingIsPool DEF Pool!Take
  <2> QED BY <2>4
<1>4. ASSUME pc[c] = "holding", Push(c), held' = [held EXCEPT ![c] = NoWallet]
      PROVE  Pool!Give(c)
  <2> DEFINE at == [pc EXCEPT ![c] = "idle"]
  <2>1. dispatch(queue, value + 1, at) /\ availableWallets' = Append(availableWallets, held[c])
    BY <1>4 DEF Push
  <2>2. Asking(at) = Asking(pc)
    BY <1>0, <1>4 DEF Asking, AskingLabels
  <2>3. Elements(queue) \subseteq Asking(at)
    BY <1>0, <2>2 DEF At, Asking, AskingLabels
  <2>4. Asking(pc') = Asking(pc)
    <3> DEFINE v == value + 1
    <3>1. v \in Nat /\ dispatch(queue, v, at)
      BY <1>0, <2>1
    <3> HIDE DEF at, v
    <3> QED BY <1>0, <2>2, <2>3, <3>1, DispatchAsking
  <2>5. held[c] \in Wallets /\ held[c] # NoWallet
    BY <1>0, <1>4
  <2>6. Elements(availableWallets') = Elements(availableWallets) \cup {held[c]}
    BY <1>0, <2>1, <2>5, DistinctAppend
  <2> QED BY <1>4, <2>4, <2>5, <2>6, AskingIsPool DEF Pool!Give
<1>5. CASE pushWallet(c) \/ markWalletProcessed(c)
  <2>1. pc[c] = "holding" /\ held' = [held EXCEPT ![c] = NoWallet]
    BY <1>5 DEF pushWallet, markWalletProcessed
  <2>2. held[c] \notin Elements(availableWallets)
    BY <2>1 DEF IInv, WalletsExclusive, At
  <2>3. Push(c)
    BY <1>5, <2>2 DEF pushWallet, markWalletProcessed
  <2> QED BY <1>4, <2>1, <2>3
<1>6. CASE Abandon(c)
  <2>1. Asking(pc') = Asking(pc)
    BY <1>0, <1>6 DEF Abandon, Asking, AskingLabels
  <2>2. Pool!Lose(c)
    BY <1>0, <1>6, <2>1, AskingIsPool DEF Abandon, Pool!Lose
  <2> QED BY <2>2
<1> QED BY <1>1, <1>2, <1>3, <1>5, <1>6

\* getWallet, pushWallet and markWalletProcessed, with the array and async-mutex's
\* semaphore, are the abstract pool for their callers: a wallet is given to one of
\* those that ask, and to nobody else until it is back.
THEOREM Implements == Spec => ImplementsPool
<1>1. Init => Pool!Init
  <2> SUFFICES ASSUME Init PROVE Pool!Init
    OBVIOUS
  <2>1. Asking(pc) = {}
    BY DEF Init, Asking, AskingLabels
  <2> QED BY <2>1, AskingIsPool DEF Init, Pool!Init, Wallets
<1>2. IInv /\ [Next]_vars => [Pool!Next]_(Pool!vars)
  <2> SUFFICES ASSUME IInv, [Next]_vars PROVE [Pool!Next]_(Pool!vars)
    OBVIOUS
  <2>1. CASE Next
    <3>1. PICK c \in Clients :
              \/ waitForUnlock(c) \/ acquire(c) \/ getWallet(c)
              \/ pushWallet(c) \/ markWalletProcessed(c) \/ Abandon(c)
      BY <2>1 DEF Next
    <3>2. \/ Pool!Ask(c) \/ Pool!Take(c) \/ Pool!Give(c) \/ Pool!Lose(c)
          \/ UNCHANGED <<Elements(availableWallets), Asking(pc), held>>
      BY <3>1, CallIsPoolStep
    <3> QED BY <3>2, AskingIsPool DEF Pool!Next, Pool!vars
  <2>2. CASE UNCHANGED vars
    BY <2>2 DEF vars, Pool!vars, At
  <2> QED BY <2>1, <2>2
<1> QED BY <1>1, <1>2, IInvAlways, PTL DEF Spec, ImplementsPool, Pool!Spec

-----------------------------------------------------------------------------
(* Refilling.                                                              *)

Missings == UNION {[D -> 0..Target] : D \in SUBSET Wallets}

CallType == [at : {"idle", "wallets", "sending"}, funds : Nat,
             asked : SUBSET Wallets, missing : Missings]

RefillTypeOK ==
    /\ balance \in [Wallets -> Nat]
    /\ utility \in Nat
    /\ call \in [Refills -> CallType]
    /\ overlapped \in BOOLEAN

\* What call c may still send to w.
PendingIn(c, w) == IF w \in DOMAIN c.missing THEN c.missing[w] ELSE 0

Pending(calls, w) == [r \in Refills |-> PendingIn(calls[r], w)]

IdleInv == \A r \in Refills : call[r].at = "idle" => call[r] = Idle

\* A call that is alone has read the funds that are there, or has compared them.
AloneInv ==
    ~ overlapped =>
        \A r \in Refills :
            /\ \A q \in Refills : call[r].at # "idle" /\ call[q].at # "idle" => r = q
            /\ call[r].at = "wallets" => call[r].funds = utility
            /\ call[r].at = "sending" =>
                   utility >= Total(DOMAIN call[r].missing, call[r].missing)

Limit == Target * (IF overlapped THEN Cardinality(Refills) ELSE 1)

\* What is on its way to a wallet is counted as its own.
FillInv == \A w \in Wallets : balance[w] + Total(Refills, Pending(call, w)) =< Limit

RefillInv == IInv /\ RefillTypeOK /\ IdleInv /\ AloneInv /\ FillInv

LEMMA TargetType ==
    /\ Target \in Nat /\ minExecutorBalance \in Nat
    /\ \A b \in Nat : TooLow(b) => missingBalance(b) \in 0..Target /\ b + missingBalance(b) = Target
<1>1. minExecutorBalance \in Nat /\ minExecutorBalance =< Target /\ Target \in Nat
  BY RefillAssumption DEF Target
<1> QED BY <1>1 DEF TooLow, missingBalance

LEMMA WalletsFinite == IsFiniteSet(Wallets)
<1>1. wallets \in Seq(Wallets) /\ Len(wallets) \in Nat
  BY WalletsType
<1> DEFINE f == [i \in 1..Len(wallets) |-> wallets[i]]
<1>2. IsFiniteSet(1..Len(wallets))
  BY <1>1, FS_Interval
<1>3. f \in Surjection(1..Len(wallets), Wallets)
  BY DEF Surjection, Wallets, Elements
<1> QED BY <1>2, <1>3, FS_Surjection

LEMMA MissingType ==
    ASSUME NEW m \in Missings
    PROVE  /\ DOMAIN m \in SUBSET Wallets /\ IsFiniteSet(DOMAIN m) /\ Natural(DOMAIN m, m)
           /\ \A w \in DOMAIN m : m[w] \in 0..Target
           /\ \A w : (IF w \in DOMAIN m THEN m[w] ELSE 0) \in 0..Target
<1>1. PICK D \in SUBSET Wallets : m \in [D -> 0..Target]
  BY DEF Missings
<1>2. IsFiniteSet(DOMAIN m)
  BY <1>1, WalletsFinite, FS_Subset
<1> QED BY <1>1, <1>2, TargetType DEF Natural

LEMMA IdleType == Idle \in CallType /\ \A w : PendingIn(Idle, w) = 0
<1>1. DOMAIN <<>> = {}
  OBVIOUS
<1>2. <<>> \in [{} -> 0..Target]
  BY <1>1
<1>3. <<>> \in Missings
  BY <1>2 DEF Missings
<1> QED BY <1>1, <1>3 DEF Idle, CallType, PendingIn

LEMMA PendingType ==
    ASSUME NEW calls \in [Refills -> CallType], NEW w
    PROVE  /\ Natural(Refills, Pending(calls, w)) /\ IsFiniteSet(Refills)
           /\ \A r \in Refills : Pending(calls, w)[r] \in 0..Target
<1>1. \A r \in Refills : Pending(calls, w)[r] \in 0..Target
  <2> SUFFICES ASSUME NEW r \in Refills PROVE PendingIn(calls[r], w) \in 0..Target
    BY DEF Pending
  <2>1. calls[r].missing \in Missings
    BY DEF CallType
  <2> QED BY <2>1, MissingType DEF PendingIn
<1> QED BY <1>1, TargetType, RefillAssumption DEF Natural

\* Only what call r may still send has changed, to that of c.
Balanced(calls, r, c, after, w) ==
    Total(Refills, Pending(after, w)) + PendingIn(calls[r], w)
        = Total(Refills, Pending(calls, w)) + PendingIn(c, w)

LEMMA CallChanges ==
    ASSUME NEW calls \in [Refills -> CallType], NEW r \in Refills, NEW c \in CallType,
           NEW after, after = [calls EXCEPT ![r] = c], NEW w
    PROVE  /\ after \in [Refills -> CallType] /\ after[r] = c
           /\ \A q \in Refills : q # r => after[q] = calls[q]
           /\ Balanced(calls, r, c, after, w)
           /\ Total(Refills, Pending(after, w)) \in Nat
           /\ Total(Refills, Pending(calls, w)) \in Nat
           /\ PendingIn(calls[r], w) \in 0..Target /\ PendingIn(c, w) \in 0..Target
<1>1. /\ after \in [Refills -> CallType] /\ after[r] = c
      /\ \A q \in Refills : q # r => after[q] = calls[q]
  OBVIOUS
<1> DEFINE f == Pending(calls, w)
           e == Pending(after, w)
<1>2. /\ Natural(Refills, f) /\ Natural(Refills, e) /\ IsFiniteSet(Refills)
      /\ f[r] \in 0..Target /\ e[r] \in 0..Target
  BY <1>1, PendingType
<1>3. f[r] = PendingIn(calls[r], w) /\ e[r] = PendingIn(c, w)
  BY <1>1 DEF Pending
<1>4. \A q \in Refills \ {r} : e[q] = f[q]
  BY <1>1 DEF Pending
<1> HIDE DEF f, e
<1>5. /\ Total(Refills, e) + f[r] = Total(Refills, f) + e[r]
      /\ Total(Refills, e) \in Nat /\ Total(Refills, f) \in Nat
  BY <1>2, <1>4, TotalChanged
<1> QED BY <1>1, <1>2, <1>3, <1>5 DEF f, e, Balanced

LEMMA TotalMissing ==
    ASSUME NEW m \in Missings
    PROVE  total(m) = Total(DOMAIN m, m) /\ total(m) \in Nat
<1> DEFINE S == DOMAIN m
           Body(g) == [s \in SUBSET S |->
                          IF s = {} THEN 0 ELSE m[AnyOf(s)] + g[s \ {AnyOf(s)}]]
           h == CHOOSE g : g = Body(g)
<1>0. IsFiniteSet(S) /\ Natural(S, m)
  BY MissingType
<1>1. total(m) = h[S]
  BY DEF total, MapThenSumSet, MapThenFoldSet, AnyOf
<1>2. h = CHOOSE g : Adding(g, S, m)
  BY DEF Adding
<1>3. total(m) = Total(S, m)
  BY <1>1, <1>2 DEF Total
<1>4. Total(S, m) \in Nat
  <2> HIDE DEF S
  <2> QED BY <1>0, TotalType
<1> QED BY <1>3, <1>4

\* Two calls may each send what they found missing.
LEMMA LimitType ==
    ASSUME RefillTypeOK, NEW r \in Refills
    PROVE  /\ Limit \in Nat /\ Target =< Limit
           /\ Cardinality(Refills) \in Nat /\ Target * Cardinality(Refills) \in Nat
           /\ Target =< Target * Cardinality(Refills)
<1> DEFINE n == Cardinality(Refills)
<1>1. n \in Nat /\ n # 0
  BY RefillAssumption, FS_CardinalityType, FS_EmptySet
<1> HIDE DEF n
<1>2. Target * n \in Nat /\ Target =< Target * n
  <2>1. PICK m \in Nat : n = m + 1
    <3>1. n - 1 \in Nat /\ n = (n - 1) + 1
      BY <1>1
    <3> QED BY <3>1
  <2>2. Target * n = Target * m + Target /\ Target * m \in Nat
    BY <2>1, TargetType
  <2> QED BY <2>2, TargetType
<1> QED BY <1>1, <1>2, TargetType DEF Limit, n

SendsNothing(c) == \A w : PendingIn(c, w) = 0

\* A call that ends, or starts, has nothing on its way.
LEMMA CallWithoutMissing ==
    ASSUME RefillInv, NEW r \in Refills, NEW c \in CallType, call' = [call EXCEPT ![r] = c],
           SendsNothing(c), balance' = balance,
           overlapped => overlapped', overlapped' \in BOOLEAN
    PROVE  /\ call' \in [Refills -> CallType]
           /\ \A q \in Refills : q # r => call'[q] = call[q]
           /\ call'[r] = c
           /\ FillInv'
<1> DEFINE calls == call'
<1>1. calls = [call EXCEPT ![r] = c] /\ call \in [Refills -> CallType]
  BY DEF RefillInv, RefillTypeOK
<1> HIDE DEF calls
<1>2. /\ calls \in [Refills -> CallType] /\ calls[r] = c
      /\ \A q \in Refills : q # r => calls[q] = call[q]
  BY <1>1, CallChanges
<1>3. ASSUME NEW w \in Wallets
      PROVE  balance[w] + Total(Refills, Pending(calls, w)) =< Limit'
  <2>1. /\ Balanced(call, r, c, calls, w)
        /\ Total(Refills, Pending(calls, w)) \in Nat /\ Total(Refills, Pending(call, w)) \in Nat
        /\ PendingIn(call[r], w) \in 0..Target
    BY <1>1, CallChanges
  <2>6. PendingIn(c, w) = 0
    BY DEF SendsNothing
  <2> DEFINE a == Total(Refills, Pending(calls, w))
             b == Total(Refills, Pending(call, w))
             p == PendingIn(call[r], w)
  <2>2. balance[w] \in Nat /\ balance[w] + b =< Limit
    BY DEF RefillInv, RefillTypeOK, FillInv
  <2>3. Limit =< Limit' /\ Limit \in Nat /\ Limit' \in Nat
    BY LimitType, TargetType DEF RefillInv, RefillTypeOK, Limit
  <2>4. a =< b
    <3> HIDE DEF a, b, p
    <3>1. a + p = b
      BY <2>1, <2>6 DEF Balanced, a, b, p
    <3> QED BY <2>1, <3>1, TargetType DEF a, b, p
  <2>5. a \in Nat /\ b \in Nat
    BY <2>1
  <2> HIDE DEF a, b, p
  <2>7. balance[w] + a =< Limit'
    BY <2>2, <2>3, <2>4, <2>5
  <2> QED BY <2>7 DEF a
<1>4. FillInv'
  BY <1>3 DEF FillInv, Pending, calls
<1> QED BY <1>2, <1>4 DEF calls

LEMMA StartStep ==
    ASSUME RefillInv, NEW r \in Refills, validateAndRefillWallets(r)
    PROVE  RefillInv'
<1> DEFINE c == [Idle EXCEPT !.at = "wallets", !.funds = utility,
                             !.asked = Elements(availableWallets)]
<1>1. /\ call[r].at = "idle" /\ call' = [call EXCEPT ![r] = c]
      /\ overlapped' = (overlapped \/ \E q \in Refills \ {r} : call[q].at # "idle")
      /\ UNCHANGED <<balance, utility, vars>>
  BY DEF validateAndRefillWallets, Refilled
<1>2. c \in CallType /\ c.at = "wallets" /\ c.funds = utility /\ c.missing = <<>>
      /\ SendsNothing(c)
  <2>1. Elements(availableWallets) \subseteq Wallets /\ utility \in Nat
    BY DEF RefillInv, IInv, TypeOK, RefillTypeOK, Elements
  <2> QED BY <2>1, IdleType DEF Idle, CallType, PendingIn, SendsNothing
<1> HIDE DEF c
<1>3. overlapped \in BOOLEAN /\ overlapped' \in BOOLEAN /\ (overlapped => overlapped')
  BY <1>1 DEF RefillInv, RefillTypeOK
<1>4. /\ call' \in [Refills -> CallType]
      /\ \A q \in Refills : q # r => call'[q] = call[q]
      /\ call'[r] = c
      /\ FillInv'
  BY <1>1, <1>2, <1>3, CallWithoutMissing
<1>5. IInv'
  BY <1>1, NextIInv DEF RefillInv
<1>6. RefillTypeOK'
  BY <1>1, <1>3, <1>4 DEF RefillInv, RefillTypeOK
<1>7. IdleInv'
  BY <1>2, <1>4 DEF RefillInv, IdleInv
<1>8. AloneInv'
  <2> SUFFICES ASSUME ~ overlapped', NEW q \in Refills
               PROVE  /\ \A s \in Refills : call'[q].at # "idle" /\ call'[s].at # "idle" => q = s
                      /\ call'[q].at = "wallets" => call'[q].funds = utility'
                      /\ call'[q].at = "sending" =>
                             utility' >= Total(DOMAIN call'[q].missing, call'[q].missing)
    BY DEF AloneInv
  <2>1. \A s \in Refills : s # r => call'[s].at = "idle"
    BY <1>1, <1>4
  <2> QED BY <1>1, <1>2, <1>4, <2>1
<1> QED BY <1>4, <1>5, <1>6, <1>7, <1>8 DEF RefillInv

LEMMA EndStep ==
    ASSUME RefillInv, NEW r \in Refills, Refilled(r, Idle),
           UNCHANGED <<balance, utility, overlapped, vars>>
    PROVE  RefillInv'
<1>1. overlapped \in BOOLEAN /\ call' = [call EXCEPT ![r] = Idle]
  BY DEF RefillInv, RefillTypeOK, Refilled
<1>2. /\ call' \in [Refills -> CallType]
      /\ \A q \in Refills : q # r => call'[q] = call[q]
      /\ call'[r] = Idle
      /\ FillInv'
  BY <1>1, IdleType, CallWithoutMissing DEF SendsNothing
<1>3. IInv'
  BY NextIInv DEF RefillInv
<1>4. RefillTypeOK'
  BY <1>2 DEF RefillInv, RefillTypeOK
<1>5. IdleInv'
  BY <1>2 DEF RefillInv, IdleInv
<1>6. AloneInv'
  <2>1. Idle.at = "idle"
    BY DEF Idle
  <2> QED BY <1>2, <2>1 DEF RefillInv, AloneInv
<1> QED BY <1>2, <1>3, <1>4, <1>5, <1>6 DEF RefillInv

\* What the other calls have on their way leaves room for one target.
LEMMA OthersPending ==
    ASSUME RefillInv, NEW r \in Refills, call[r].at # "idle", NEW w
    PROVE  /\ Target + Total(Refills \ {r}, Pending(call, w)) =< Limit
           /\ Total(Refills \ {r}, Pending(call, w)) \in Nat
<1> DEFINE R == Refills \ {r}
           f == Pending(call, w)
<1>1. /\ IsFiniteSet(R) /\ Natural(R, f) /\ \A q \in R : f[q] \in 0..Target
  <2>1. call \in [Refills -> CallType]
    BY DEF RefillInv, RefillTypeOK
  <2>2. IsFiniteSet(Refills) /\ Natural(Refills, f) /\ \A q \in Refills : f[q] \in 0..Target
    BY <2>1, PendingType
  <2> HIDE DEF f
  <2> QED BY <2>2, FS_Subset DEF Natural
<1>2. Total(R, f) \in Nat
  <2> HIDE DEF R, f
  <2> QED BY <1>1, TotalType
<1>3. CASE overlapped
  <2> DEFINE n == Cardinality(Refills)
             m == Cardinality(R)
  <2>1. n \in Nat /\ m \in Nat /\ n = m + 1
    BY <1>1, RefillAssumption, FS_RemoveElement, FS_CardinalityType
  <2>2. Total(R, f) =< Target * m
    <3>1. Target \in Nat /\ \A q \in R : f[q] =< Target
      BY <1>1, TargetType
    <3> HIDE DEF R, f
    <3> QED BY <1>1, <3>1, TotalBounded
  <2>3. Limit = Target * n
    BY <1>3 DEF Limit
  <2> HIDE DEF R, f, n, m
  <2>4. Target * n = Target * m + Target /\ Target * m \in Nat
    BY <2>1, TargetType
  <2> QED BY <1>2, <2>2, <2>3, <2>4, TargetType DEF R, f
<1>4. CASE ~ overlapped
  <2>1. \A q \in R : call[q] = Idle
    BY <1>4 DEF RefillInv, AloneInv, IdleInv
  <2>2. \A q \in R : f[q] = 0
    BY <2>1, IdleType DEF Pending
  <2>3. Total(R, f) = 0
    <3> HIDE DEF R, f
    <3> QED BY <1>1, <2>2, TotalOfZeros
  <2>4. Limit = Target
    BY <1>4, TargetType DEF Limit
  <2> QED BY <2>3, <2>4, TargetType
<1>5. overlapped \in BOOLEAN
  BY DEF RefillInv, RefillTypeOK
<1> QED BY <1>2, <1>3, <1>4, <1>5

\* What is left of the funds does for what is left to be sent.
LEMMA AloneKept ==
    ASSUME RefillInv, NEW r \in Refills, call[r].at # "idle", NEW c \in CallType,
           call' = [call EXCEPT ![r] = c], UNCHANGED overlapped,
           ~ overlapped =>
               /\ c.at = "wallets" => c.funds = utility'
               /\ c.at = "sending" => utility' >= Total(DOMAIN c.missing, c.missing)
    PROVE  AloneInv'
<1>1. call'[r] = c /\ \A q \in Refills : q # r => call'[q] = call[q]
  BY DEF RefillInv, RefillTypeOK
<1> SUFFICES ASSUME ~ overlapped, NEW q \in Refills
             PROVE  /\ \A s \in Refills : call'[q].at # "idle" /\ call'[s].at # "idle" => q = s
                    /\ call'[q].at = "wallets" => call'[q].funds = utility'
                    /\ call'[q].at = "sending" =>
                           utility' >= Total(DOMAIN call'[q].missing, call'[q].missing)
  BY DEF AloneInv
<1>2. \A s \in Refills : s # r => call[s].at = "idle"
  BY DEF RefillInv, AloneInv
<1> QED BY <1>1, <1>2

LEMMA MarginType ==
    ASSUME NEW t \in Nat
    PROVE  (t * 11) \div 10 >= t
OBVIOUS

LEMMA ReadStep ==
    ASSUME RefillInv, NEW r \in Refills, NEW w \in Wallets, ReadWallet(r, w)
    PROVE  RefillInv'
<1> DEFINE c == call[r]
           m == IF TooLow(balance[w])
                THEN [x \in {w} \cup DOMAIN c.missing |->
                         IF x = w THEN missingBalance(balance[w]) ELSE c.missing[x]]
                ELSE c.missing
           read == [c EXCEPT !.asked = @ \ {w}, !.missing = m]
           next == AfterReading(c, w)
<1>1. /\ c.at = "wallets" /\ call' = [call EXCEPT ![r] = next]
      /\ UNCHANGED <<balance, utility, overlapped, vars>>
  BY DEF ReadWallet, Refilled
<1>2. /\ c \in CallType /\ balance[w] \in Nat /\ balance \in [Wallets -> Nat]
      /\ call \in [Refills -> CallType] /\ utility \in Nat
  BY DEF RefillInv, RefillTypeOK
<1>3. c.missing \in Missings
  BY <1>2 DEF CallType
<1>4. m \in Missings
  <2>1. CASE TooLow(balance[w])
    <3> DEFINE D == {w} \cup DOMAIN c.missing
    <3>1. D \in SUBSET Wallets
      BY <1>3, MissingType
    <3>2. m \in [D -> 0..Target]
      BY <1>2, <1>3, <2>1, MissingType, TargetType
    <3> QED BY <3>1, <3>2 DEF Missings
  <2>2. CASE ~ TooLow(balance[w])
    BY <1>3, <2>2
  <2> QED BY <2>1, <2>2
<1>5. /\ \A x : x # w => (IF x \in DOMAIN m THEN m[x] ELSE 0) = PendingIn(c, x)
      /\ ~ TooLow(balance[w]) => (IF w \in DOMAIN m THEN m[w] ELSE 0) = PendingIn(c, w)
      /\ TooLow(balance[w]) =>
             balance[w] + (IF w \in DOMAIN m THEN m[w] ELSE 0) = Target
  <2>1. CASE TooLow(balance[w])
    <3>1. DOMAIN m = {w} \cup DOMAIN c.missing /\ m[w] = missingBalance(balance[w])
          /\ \A x \in DOMAIN c.missing : x # w => m[x] = c.missing[x]
      BY <2>1
    <3>2. balance[w] + m[w] = Target
      BY <1>2, <2>1, <3>1, TargetType
    <3> HIDE DEF m, c
    <3> QED BY <2>1, <3>1, <3>2 DEF PendingIn
  <2>2. CASE ~ TooLow(balance[w])
    BY <2>2 DEF PendingIn
  <2> QED BY <2>1, <2>2
<1>6. \/ next = Idle
      \/ next = read
      \/ next = [read EXCEPT !.at = "sending"] /\ Affordable(c.funds, m)
  BY DEF AfterReading
<1> HIDE DEF m
<1>7. CASE next = Idle
  BY <1>1, <1>7, EndStep DEF Refilled
<1>8. ASSUME next = read \/ (next = [read EXCEPT !.at = "sending"] /\ Affordable(c.funds, m))
      PROVE  RefillInv'
  <2>1. /\ next \in CallType /\ next.missing = m /\ next.funds = c.funds
        /\ next.at # "idle"
        /\ next.at = "sending" => Affordable(c.funds, m)
    <3>1. /\ c.funds \in Nat /\ c.asked \ {w} \in SUBSET Wallets
          /\ c \in [at : {"idle", "wallets", "sending"}, funds : Nat,
                   asked : SUBSET Wallets, missing : Missings]
      BY <1>2 DEF CallType
    <3> HIDE DEF c
    <3>2. /\ read \in CallType /\ read.missing = m /\ read.funds = c.funds /\ read.at = "wallets"
      BY <1>1, <1>4, <3>1 DEF CallType
    <3> HIDE DEF read
    <3>3. CASE next = read
      BY <3>2, <3>3
    <3>4. CASE next = [read EXCEPT !.at = "sending"] /\ Affordable(c.funds, m)
      BY <3>2, <3>4 DEF CallType
    <3> QED BY <1>8, <3>3, <3>4
  <2> HIDE DEF next, read
  <2>2. AloneInv'
    <3> SUFFICES ASSUME ~ overlapped
                 PROVE  /\ next.at = "wallets" => next.funds = utility'
                        /\ next.at = "sending" =>
                               utility' >= Total(DOMAIN next.missing, next.missing)
      BY <1>1, <2>1, AloneKept
    <3>1. c.funds = utility
      BY <1>1 DEF RefillInv, AloneInv
    <3>2. Affordable(utility, m) => utility >= Total(DOMAIN m, m)
      <4>1. total(m) = Total(DOMAIN m, m) /\ total(m) \in Nat
        BY <1>4, TotalMissing
      <4>2. (total(m) * 11) \div 10 >= total(m) /\ (total(m) * 11) \div 10 \in Nat
        BY <4>1, MarginType
      <4> QED BY <1>2, <4>1, <4>2 DEF Affordable
    <3> QED BY <1>1, <2>1, <3>1, <3>2
  <2> DEFINE calls == call'
  <2>3. calls = [call EXCEPT ![r] = next]
    BY <1>1
  <2> HIDE DEF calls
  <2>4. calls \in [Refills -> CallType] /\ calls[r] = next
        /\ \A q \in Refills : q # r => calls[q] = call[q]
    BY <1>2, <2>1, <2>3, CallChanges
  <2>5. ASSUME NEW x \in Wallets
        PROVE  balance[x] + Total(Refills, Pending(calls, x)) =< Limit
    <3> DEFINE a == Total(Refills, Pending(calls, x))
               b == Total(Refills, Pending(call, x))
    <3>1. /\ Balanced(call, r, next, calls, x) /\ a \in Nat /\ b \in Nat
          /\ PendingIn(c, x) \in 0..Target /\ PendingIn(next, x) \in 0..Target
      <4> HIDE DEF next
      <4>1. c = call[r]
        OBVIOUS
      <4> HIDE DEF c
      <4> QED BY <1>2, <2>1, <2>3, <4>1, CallChanges
    <3>2. balance[x] + b =< Limit /\ balance[x] \in Nat /\ Limit \in Nat
      BY <1>2, LimitType DEF RefillInv, FillInv
    <3>3. CASE PendingIn(next, x) = PendingIn(c, x)
      <4>1. a = b
        <5> DEFINE p == PendingIn(c, x)
        <5>1. a + p = b + p
          BY <3>1, <3>3 DEF Balanced
        <5> HIDE DEF a, b, p
        <5> QED BY <3>1, <5>1, TargetType DEF p
      <4> QED BY <3>2, <4>1
    <3>4. CASE x = w /\ TooLow(balance[w])
      <4> DEFINE d == Total(Refills \ {r}, Pending(call, w))
                 p == PendingIn(next, w)
      <4>1. balance[w] + p = Target /\ p \in 0..Target
        BY <1>5, <2>1, <3>1, <3>4 DEF PendingIn
      <4>2. Target + d =< Limit /\ d \in Nat
        BY <1>1, OthersPending
      <4>3. a = p + d
        <5> DEFINE e == Pending(calls, w)
        <5>1. Natural(Refills, e) /\ IsFiniteSet(Refills)
          BY <2>4, PendingType
        <5>2. e[r] = p
          BY <2>4 DEF Pending
        <5>3. Total(Refills \ {r}, e) = d
          <6> DEFINE R == Refills \ {r}
                     f == Pending(call, w)
          <6>1. IsFiniteSet(R) /\ Natural(R, f)
            <7>1. Natural(Refills, f)
              BY <1>2, PendingType
            <7> HIDE DEF f
            <7> QED BY <5>1, <7>1, FS_Subset DEF Natural
          <6>2. \A q \in R : e[q] = f[q]
            BY <2>4 DEF Pending
          <6> HIDE DEF R, e, f
          <6>3. Total(R, e) = Total(R, f)
            BY <6>1, <6>2, TotalSame
          <6> QED BY <6>3 DEF R, f
        <5> HIDE DEF e
        <5>4. Total(Refills, e) = e[r] + Total(Refills \ {r}, e)
          BY <5>1, TotalRemoved
        <5> QED BY <3>4, <5>2, <5>3, <5>4 DEF e
      <4> HIDE DEF a, d, p
      <4>5. balance[w] + a =< Limit
        BY <1>2, <3>2, <4>1, <4>2, <4>3, TargetType
      <4> QED BY <3>4, <4>5 DEF a
    <3>5. (x = w /\ TooLow(balance[w])) \/ PendingIn(next, x) = PendingIn(c, x)
      BY <1>5, <2>1 DEF PendingIn
    <3> QED BY <3>3, <3>4, <3>5
  <2>6. Limit' = Limit
    BY <1>1 DEF Limit
  <2>7. FillInv'
    BY <1>1, <2>5, <2>6 DEF FillInv, Pending, calls
  <2>8. IInv'
    BY <1>1, NextIInv DEF RefillInv
  <2>9. RefillTypeOK'
    BY <1>1, <2>4 DEF RefillInv, RefillTypeOK, calls
  <2>10. IdleInv'
    BY <2>1, <2>4 DEF RefillInv, IdleInv, calls
  <2> QED BY <2>2, <2>7, <2>8, <2>9, <2>10 DEF RefillInv
<1> QED BY <1>6, <1>7, <1>8

\* A call's next state after ws has been paid.
Left(c, ws) == [c EXCEPT !.missing = [w \in DOMAIN c.missing \ ws |-> @[w]]]

LEMMA Paid ==
    ASSUME NEW c \in CallType, NEW ws \in SUBSET DOMAIN c.missing,
           NEW next, next = Left(c, ws)
    PROVE  /\ next \in CallType /\ next.at = c.at /\ next.funds = c.funds
           /\ DOMAIN next.missing = DOMAIN c.missing \ ws
           /\ \A w \in DOMAIN next.missing : next.missing[w] = c.missing[w]
<1> DEFINE m == c.missing
           rest == DOMAIN m \ ws
           left == [w \in rest |-> m[w]]
<1>1. m \in Missings
  BY DEF CallType
<1>2. left \in Missings
  <2>1. rest \in SUBSET Wallets /\ \A w \in rest : m[w] \in 0..Target
    BY <1>1, MissingType
  <2>2. left \in [rest -> 0..Target]
    BY <2>1
  <2> QED BY <2>1, <2>2 DEF Missings
<1>3. next = [c EXCEPT !.missing = left]
  BY DEF Left
<1>4. DOMAIN left = rest /\ \A w \in rest : left[w] = m[w]
  OBVIOUS
<1> HIDE DEF left
<1>5. next.missing = left /\ next.at = c.at /\ next.funds = c.funds /\ next \in CallType
  BY <1>2, <1>3 DEF CallType
<1> QED BY <1>4, <1>5

LEMMA SendStep ==
    ASSUME RefillInv, NEW r \in Refills, NEW ws \in SUBSET Wallets, Send(r, ws)
    PROVE  RefillInv'
<1> DEFINE c == call[r]
           m == c.missing
           paid == [w \in ws |-> m[w]]
           rest == DOMAIN m \ ws
           next == IF rest = {} THEN Idle
                   ELSE [c EXCEPT !.missing = [w \in rest |-> @[w]]]
<1>1. /\ c.at = "sending" /\ ws \in SUBSET DOMAIN m
      /\ UNCHANGED <<overlapped, vars>>
  BY DEF Send
<1>2. /\ c \in CallType /\ balance \in [Wallets -> Nat]
      /\ call \in [Refills -> CallType] /\ utility \in Nat /\ m \in Missings
  BY DEF RefillInv, RefillTypeOK, CallType
<1>3. CASE utility < total(paid)
  <2>1. ~ (utility >= total(paid))
    <3>1. paid \in Missings
      <4>1. paid \in [ws -> 0..Target]
        BY <1>1, <1>2, MissingType
      <4> QED BY <4>1 DEF Missings
    <3>2. total(paid) \in Nat
      BY <3>1, TotalMissing
    <3> HIDE DEF paid
    <3> QED BY <1>2, <1>3, <3>2
  <2>2. Refilled(r, Idle) /\ UNCHANGED <<balance, utility>>
    BY <2>1 DEF Send
  <2> QED BY <1>1, <2>2, EndStep
<1>4. CASE utility >= total(paid)
  <2>1. /\ utility' = utility - total(paid)
        /\ balance' = [w \in Wallets |-> balance[w] + IF w \in ws THEN m[w] ELSE 0]
        /\ call' = [call EXCEPT ![r] = next]
    BY <1>4 DEF Send, Refilled
  <2>2. total(paid) = Total(ws, m) /\ Total(ws, m) \in Nat
    <3>1. paid \in [ws -> 0..Target] /\ DOMAIN paid = ws
      BY <1>1, <1>2, MissingType
    <3>2. paid \in Missings
      BY <3>1 DEF Missings
    <3>3. total(paid) = Total(ws, paid) /\ total(paid) \in Nat
      BY <3>1, <3>2, TotalMissing
    <3>4. IsFiniteSet(ws) /\ Natural(ws, m) /\ \A w \in ws : paid[w] = m[w]
      BY <1>1, <1>2, MissingType, FS_Subset DEF Natural
    <3> HIDE DEF paid, m
    <3>5. Total(ws, paid) = Total(ws, m)
      BY <3>4, TotalSame
    <3> QED BY <3>3, <3>5
  <2>3. Total(DOMAIN m, m) = Total(ws, m) + Total(rest, m) /\ Total(rest, m) \in Nat
    <3> DEFINE D == DOMAIN m
    <3>1. IsFiniteSet(D) /\ Natural(D, m) /\ ws \in SUBSET D
      BY <1>1, <1>2, MissingType
    <3> HIDE DEF D
    <3>2. Total(D, m) = Total(ws, m) + Total(D \ ws, m) /\ Total(D \ ws, m) \in Nat
      BY <3>1, TotalSplit
    <3> QED BY <3>2 DEF D
  <2>4. /\ next \in CallType
        /\ rest = {} => next = Idle
        /\ rest # {} => /\ next.at = c.at /\ next.funds = c.funds
                        /\ DOMAIN next.missing = rest
                        /\ \A w \in rest : next.missing[w] = m[w]
    <3>1. CASE rest = {}
      BY <3>1, IdleType
    <3>2. CASE rest # {}
      <4> DEFINE left == next
      <4>1. next = left
        OBVIOUS
      <4>2. ws \in SUBSET DOMAIN c.missing /\ left = Left(c, ws)
        BY <1>1, <3>2 DEF Left
      <4> HIDE DEF left, next, c
      <4>3. /\ left \in CallType /\ left.at = c.at /\ left.funds = c.funds
            /\ DOMAIN left.missing = DOMAIN c.missing \ ws
            /\ \A w \in DOMAIN left.missing : left.missing[w] = c.missing[w]
        BY <1>2, <4>2, Paid
      <4> QED BY <3>2, <4>1, <4>3 DEF left
    <3> QED BY <3>1, <3>2
  <2>5. /\ Idle.at = "idle" /\ \A w : PendingIn(Idle, w) = 0
    BY IdleType DEF Idle
  <2>6. \A w : PendingIn(c, w) = PendingIn(next, w) + (IF w \in ws THEN m[w] ELSE 0)
    <3> SUFFICES ASSUME NEW w
                 PROVE  PendingIn(c, w) = PendingIn(next, w) + (IF w \in ws THEN m[w] ELSE 0)
      OBVIOUS
    <3>1. w \in DOMAIN m => m[w] \in Nat
      BY <1>2, MissingType, TargetType
    <3>2. CASE rest = {}
      BY <1>1, <2>4, <2>5, <3>1, <3>2 DEF PendingIn
    <3>3. CASE rest # {}
      <4>1. PendingIn(next, w) = IF w \in rest THEN m[w] ELSE 0
        BY <2>4, <3>3 DEF PendingIn
      <4>2. PendingIn(c, w) = IF w \in DOMAIN m THEN m[w] ELSE 0
        BY DEF PendingIn
      <4>3. /\ w \in rest <=> (w \in DOMAIN m /\ w \notin ws)
            /\ w \in ws => w \in DOMAIN m
        BY <1>1
      <4> HIDE DEF next, rest, m, c
      <4> QED BY <3>1, <4>1, <4>2, <4>3
    <3> QED BY <3>2, <3>3
  <2> HIDE DEF next, paid
  <2>7. /\ utility' \in Nat /\ balance' \in [Wallets -> Nat]
    <3>1. utility' \in Nat
      BY <1>2, <1>4, <2>1, <2>2
    <3>2. \A w \in Wallets : balance[w] + (IF w \in ws THEN m[w] ELSE 0) \in Nat
      <4>1. \A w \in ws : m[w] \in Nat
        BY <1>1, <1>2, MissingType, TargetType
      <4> QED BY <1>2, <4>1
    <3> QED BY <2>1, <3>1, <3>2
  <2>8. AloneInv'
    <3> SUFFICES ASSUME ~ overlapped
                 PROVE  /\ next.at = "wallets" => next.funds = utility'
                        /\ next.at = "sending" =>
                               utility' >= Total(DOMAIN next.missing, next.missing)
      BY <1>1, <2>1, <2>4, AloneKept
    <3>1. CASE rest = {}
      BY <2>4, <2>5, <3>1
    <3>2. CASE rest # {}
      <4>1. utility >= Total(DOMAIN m, m)
        BY <1>1 DEF RefillInv, AloneInv
      <4>2. utility' >= Total(rest, m)
        BY <1>2, <2>1, <2>2, <2>3, <4>1
      <4>3. Total(rest, next.missing) = Total(rest, m)
        <5> DEFINE e == next.missing
        <5>1. IsFiniteSet(rest) /\ Natural(rest, m) /\ \A w \in rest : e[w] = m[w]
          BY <1>2, <2>4, <3>2, MissingType, FS_Subset DEF Natural
        <5> HIDE DEF e, rest, m
        <5>2. Total(rest, e) = Total(rest, m)
          BY <5>1, TotalSame
        <5> QED BY <5>2 DEF e
      <4> QED BY <1>1, <2>4, <3>2, <4>2, <4>3
    <3> QED BY <3>1, <3>2
  <2> DEFINE calls == call'
             money == balance'
  <2>9. calls = [call EXCEPT ![r] = next]
    BY <2>1
  <2>10. \A w \in Wallets : money[w] = balance[w] + (IF w \in ws THEN m[w] ELSE 0)
    BY <2>1
  <2> HIDE DEF calls, money
  <2>11. calls \in [Refills -> CallType] /\ calls[r] = next
        /\ \A q \in Refills : q # r => calls[q] = call[q]
    BY <1>2, <2>4, <2>9, CallChanges
  <2>12. ASSUME NEW w \in Wallets
         PROVE  money[w] + Total(Refills, Pending(calls, w)) =< Limit
    <3> DEFINE a == Total(Refills, Pending(calls, w))
               b == Total(Refills, Pending(call, w))
               p == PendingIn(c, w)
               q == PendingIn(next, w)
               d == IF w \in ws THEN m[w] ELSE 0
    <3>1. /\ Balanced(call, r, next, calls, w) /\ a \in Nat /\ b \in Nat
          /\ p \in 0..Target /\ q \in 0..Target
      BY <1>2, <2>4, <2>9, CallChanges
    <3>2. a + p = b + q
      BY <3>1 DEF Balanced
    <3>3. p = q + d /\ d \in Nat
      <4>1. p = q + d
        BY <2>6
      <4>2. d \in Nat
        BY <1>1, <1>2, MissingType, TargetType
      <4> QED BY <4>1, <4>2
    <3>4. balance[w] + b =< Limit /\ balance[w] \in Nat /\ Limit \in Nat
      BY <1>2, LimitType DEF RefillInv, FillInv
    <3>5. money[w] = balance[w] + d
      BY <2>10
    <3> HIDE DEF a, b, p, q, d
    <3>6. money[w] + a =< Limit
      BY <3>1, <3>2, <3>3, <3>4, <3>5, TargetType
    <3> QED BY <3>6 DEF a
  <2>13. Limit' = Limit
    BY <1>1 DEF Limit
  <2>14. FillInv'
    BY <2>12, <2>13 DEF FillInv, Pending, calls, money
  <2>15. IInv'
    BY <1>1, NextIInv DEF RefillInv
  <2>16. RefillTypeOK'
    BY <1>1, <2>7, <2>11 DEF RefillInv, RefillTypeOK, calls
  <2>17. IdleInv'
    <3>1. next.at = "idle" => next = Idle
      BY <1>1, <2>4
    <3> QED BY <2>11, <3>1 DEF RefillInv, IdleInv, calls
  <2> QED BY <2>8, <2>14, <2>15, <2>16, <2>17 DEF RefillInv
<1>5. utility >= total(paid) \/ utility < total(paid)
  <2>1. paid \in [ws -> 0..Target]
    BY <1>1, <1>2, MissingType
  <2>2. paid \in Missings
    BY <2>1 DEF Missings
  <2>3. total(paid) \in Nat
    BY <2>2, TotalMissing
  <2> HIDE DEF paid
  <2> QED BY <1>2, <2>3
<1> QED BY <1>3, <1>4, <1>5

\* What a client has spent is no longer there.
LEMMA SpendStep ==
    ASSUME RefillInv, NEW c \in Clients, Spend(c)
    PROVE  RefillInv'
<1>1. PICK cost \in Costs :
          cost =< balance[held[c]] /\ balance' = [balance EXCEPT ![held[c]] = @ - cost]
  BY DEF Spend
<1>2. pc[c] = "holding" /\ UNCHANGED <<utility, call, overlapped, vars>>
  BY DEF Spend
<1>3. cost \in Nat /\ balance \in [Wallets -> Nat]
  BY RefillAssumption DEF RefillInv, RefillTypeOK
<1>4. held[c] \in Wallets
  BY <1>2 DEF RefillInv, IInv, HeldInv, TypeOK
<1>5. /\ balance' \in [Wallets -> Nat]
      /\ \A w \in Wallets : balance'[w] =< balance[w]
  BY <1>1, <1>3, <1>4
<1>6. IInv'
  BY <1>2, NextIInv DEF RefillInv
<1>7. RefillTypeOK' /\ IdleInv' /\ AloneInv'
  BY <1>2, <1>5 DEF RefillInv, RefillTypeOK, IdleInv, AloneInv
<1>8. FillInv'
  <2>1. ASSUME NEW w \in Wallets
        PROVE  balance'[w] + Total(Refills, Pending(call, w)) =< Limit
    <3> DEFINE a == Total(Refills, Pending(call, w))
               x == balance'[w]
               y == balance[w]
    <3>1. y + a =< Limit
      BY DEF RefillInv, FillInv
    <3>2. x \in Nat /\ y \in Nat /\ x =< y
      BY <1>3, <1>5
    <3>3. a \in Nat
      <4>1. Natural(Refills, Pending(call, w)) /\ IsFiniteSet(Refills)
        BY PendingType DEF RefillInv, RefillTypeOK
      <4> QED BY <4>1, TotalType
    <3>4. Limit \in Nat
      <4>1. Cardinality(Refills) \in Nat /\ overlapped \in BOOLEAN
        BY RefillAssumption, FS_CardinalityType DEF RefillInv, RefillTypeOK
      <4> QED BY <4>1, TargetType DEF Limit
    <3> HIDE DEF a, x, y
    <3>5. x + a =< Limit
      BY <3>1, <3>2, <3>3, <3>4
    <3> QED BY <3>5 DEF a, x
  <2>2. Limit' = Limit
    BY <1>2 DEF Limit
  <2> QED BY <1>2, <2>1, <2>2 DEF FillInv, Pending
<1> QED BY <1>6, <1>7, <1>8 DEF RefillInv

LEMMA InitRefillInv == ASSUME StartBalance =< Target PROVE RefillInit => RefillInv
<1> SUFFICES ASSUME RefillInit PROVE RefillInv
  OBVIOUS
<1>1. /\ balance = [w \in Wallets |-> StartBalance] /\ utility = Funds
      /\ call = [r \in Refills |-> Idle] /\ overlapped = FALSE
      /\ StartBalance \in Nat /\ Funds \in Nat
  BY RefillAssumption DEF RefillInit
<1>2. IInv
  BY InitIInv DEF RefillInit
<1>3. RefillTypeOK
  BY <1>1, IdleType DEF RefillTypeOK
<1>4. IdleInv
  BY <1>1 DEF IdleInv
<1>5. AloneInv
  <2>1. Idle.at = "idle"
    BY DEF Idle
  <2> QED BY <1>1, <2>1 DEF AloneInv
<1>6. FillInv
  <2> SUFFICES ASSUME NEW w \in Wallets
               PROVE  balance[w] + Total(Refills, Pending(call, w)) =< Limit
    BY DEF FillInv
  <2>1. Total(Refills, Pending(call, w)) = 0
    <3> DEFINE f == Pending(call, w)
    <3>1. \A r \in Refills : f[r] = 0
      BY <1>1, IdleType DEF Pending
    <3> HIDE DEF f
    <3>2. Total(Refills, f) = 0
      BY <3>1, RefillAssumption, TotalOfZeros
    <3> QED BY <3>2 DEF f
  <2>2. Limit = Target
    BY <1>1, TargetType DEF Limit
  <2> QED BY <1>1, <2>1, <2>2, TargetType
<1> QED BY <1>2, <1>3, <1>4, <1>5, <1>6 DEF RefillInv

LEMMA NextRefillInv == RefillInv /\ [RefillNext]_<<vars, refillVars>> => RefillInv'
<1> SUFFICES ASSUME RefillInv, [RefillNext]_<<vars, refillVars>> PROVE RefillInv'
  OBVIOUS
<1>1. ASSUME UNCHANGED refillVars, [Next]_vars PROVE RefillInv'
  <2>1. IInv'
    BY <1>1, NextIInv DEF RefillInv
  <2>2. UNCHANGED <<balance, utility, call, overlapped>>
    BY <1>1 DEF refillVars
  <2> QED BY <2>1, <2>2 DEF RefillInv, RefillTypeOK, IdleInv, AloneInv, FillInv, Limit, Pending
<1>2. CASE UNCHANGED <<vars, refillVars>>
  BY <1>1, <1>2
<1>3. CASE Clientele
  BY <1>1, <1>3 DEF Clientele
<1>4. ASSUME NEW c \in Clients, Spend(c) PROVE RefillInv'
  BY <1>4, SpendStep
<1>5. ASSUME NEW r \in Refills, validateAndRefillWallets(r) PROVE RefillInv'
  BY <1>5, StartStep
<1>6. ASSUME NEW r \in Refills, RefillStep(r) PROVE RefillInv'
  BY <1>6, ReadStep, SendStep DEF RefillStep
<1>7. ASSUME NEW r \in Refills, Throws(r) PROVE RefillInv'
  BY <1>7, EndStep DEF Throws
<1> QED BY <1>2, <1>3, <1>4, <1>5, <1>6, <1>7 DEF RefillNext

\* Refilling never sends more than the utility account has, unless two calls
\* have run at once, and fills no wallet beyond the target once for each call
\* that may run at the same time (validateAndRefillWallets).
THEOREM WithinMeans == ASSUME StartBalance =< Target PROVE RefillSpec => []RefillsWithinMeans
<1>1. RefillInv => RefillsWithinMeans
  <2> SUFFICES ASSUME RefillInv PROVE RefillsWithinMeans
    OBVIOUS
  <2>1. FundsSuffice
    <3> SUFFICES ASSUME ~ overlapped, NEW r \in Refills, call[r].at = "sending"
                 PROVE  utility >= total(call[r].missing)
      BY DEF FundsSuffice
    <3>1. call[r].missing \in Missings
      BY DEF RefillInv, RefillTypeOK, CallType
    <3>2. total(call[r].missing) = Total(DOMAIN call[r].missing, call[r].missing)
      BY <3>1, TotalMissing
    <3> QED BY <3>2 DEF RefillInv, AloneInv
  <2>2. NotOverfilled
    <3> SUFFICES ASSUME NEW w \in Wallets PROVE balance[w] =< Limit
      BY DEF NotOverfilled, Limit
    <3> DEFINE a == Total(Refills, Pending(call, w))
    <3>1. balance[w] + a =< Limit /\ balance[w] \in Nat
      BY DEF RefillInv, FillInv, RefillTypeOK
    <3>2. a \in Nat
      <4>1. Natural(Refills, Pending(call, w)) /\ IsFiniteSet(Refills)
        BY PendingType DEF RefillInv, RefillTypeOK
      <4> QED BY <4>1, TotalType
    <3>3. Limit \in Nat
      <4>1. Cardinality(Refills) \in Nat /\ overlapped \in BOOLEAN
        BY RefillAssumption, FS_CardinalityType DEF RefillInv, RefillTypeOK
      <4> QED BY <4>1, TargetType DEF Limit
    <3> HIDE DEF a
    <3> QED BY <3>1, <3>2, <3>3
  <2> QED BY <2>1, <2>2 DEF RefillsWithinMeans
<1> QED BY <1>1, InitRefillInv, NextRefillInv, PTL DEF RefillSpec
=============================================================================
