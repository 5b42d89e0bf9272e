------------------------------ MODULE OpOrder ------------------------------
(***************************************************************************)
(* The order in which MemoryMempool.process considers user operations: the *)
(* comparator of src/mempool/mempool.ts and what Array.prototype.sort does *)
(* with it.                                                                *)
(*                                                                         *)
(* The comparator answers 0 for two different senders, whatever else it    *)
(* says about them, so it is not a consistent order and ECMAScript leaves  *)
(* the result to the engine.  V8Sort is V8's: it keeps the first run that  *)
(* is already in order (reversed if it is strictly descending) and inserts *)
(* the remaining elements by binary search.  It covers arrays of fewer     *)
(* than 64 elements, for which V8 does nothing else.                       *)
(***************************************************************************)
EXTENDS Integers, SequencesExt

CONSTANTS
    Ops,      \* user operation hashes
    userOp    \* what an operation says, by hash

Field(f) == {userOp[o][f] : o \in Ops}

ASSUME OpsAssumption ==
    userOp \in [Ops -> [sender         : Field("sender"),
                        nonceKey       : Nat,
                        nonceValue     : Nat,
                        maxFee         : Nat,
                        maxPriorityFee : Nat,
                        gas            : Nat,
                        prefund        : Nat,
                        entryPoint     : Field("entryPoint"),
                        paymaster      : Field("paymaster"),
                        factory        : Field("factory")]]

Sender(o) == userOp[o].sender

SameNonce(a, b) ==
    /\ Sender(a) = Sender(b)
    /\ userOp[a].nonceKey = userOp[b].nonceKey
    /\ userOp[a].nonceValue = userOp[b].nonceValue

\* Mutant: the later key first.
compareKeysReversed(a, b) ==
    IF Sender(a) # Sender(b) THEN 0
    ELSE IF userOp[a].nonceKey = userOp[b].nonceKey
         THEN userOp[a].nonceValue - userOp[b].nonceValue
         ELSE userOp[b].nonceKey - userOp[a].nonceKey

\* Mutant: nonces of different keys are compared.
compareValues(a, b) ==
    IF Sender(a) # Sender(b) THEN 0
    ELSE userOp[a].nonceValue - userOp[b].nonceValue

compare(a, b) ==
    IF Sender(a) # Sender(b) THEN 0
    ELSE IF userOp[a].nonceKey = userOp[b].nonceKey
         THEN userOp[a].nonceValue - userOp[b].nonceValue
         ELSE userOp[a].nonceKey - userOp[b].nonceKey

\* How many elements at the front of s are in one run.
RunLength(s) ==
    LET Less(i) == compare(s[i], s[i - 1]) < 0
    IN  IF Len(s) < 2 THEN Len(s)
        ELSE Max({k \in 2..Len(s) : \A i \in 3..k : Less(i) = Less(2)})

FirstRun(s) ==
    LET run == SubSeq(s, 1, RunLength(s))
    IN  IF Len(s) >= 2 /\ compare(s[2], s[1]) < 0 THEN Reverse(run) ELSE run

\* The loop of the binary search that puts x into t; it has ended after as
\* many turns as t has elements.
Search(t, x) ==
    LET Turn(b, o) ==
            LET mid == b.left + (b.right - b.left) \div 2
            IN  IF b.left >= b.right THEN b
                ELSE IF compare(x, t[mid + 1]) < 0 THEN [b EXCEPT !.right = mid]
                ELSE [b EXCEPT !.left = mid + 1]
    IN  FoldLeft(Turn, [left |-> 0, right |-> Len(t)], t)

\* The position found, counted from 0.
SearchPosition(t, x) == Search(t, x).left

BinaryInsert(t, x) == InsertAt(t, SearchPosition(t, x) + 1, x)

V8Sort(s) ==
    FoldLeft(BinaryInsert, FirstRun(s), SubSeq(s, RunLength(s) + 1, Len(s)))
=============================================================================
