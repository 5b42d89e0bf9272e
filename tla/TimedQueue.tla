----------------------------- MODULE TimedQueue -----------------------------
(***************************************************************************)
(* TimedQueue of src/utils/timedQueue.ts: values with the second they were *)
(* saved in, oldest first.  No value of a queue is 0.                      *)
(***************************************************************************)
EXTENDS Integers, Sequences

CONSTANTS
    queueValidity,   \* in seconds: gasPriceExpiry
    maxQueueSize     \* the same number in the code, apart in the models

ASSUME TimedQueueAssumption ==
    /\ queueValidity \in Nat
    /\ maxQueueSize \in Nat

Saved == [value : Nat \ {0}, timestamp : Nat]

last(queue) == queue[Len(queue)]

\* A new value is due: the last one has had its time.
Due(queue, now) ==
    \/ queue = <<>>
    \/ now - last(queue).timestamp >= queueValidity

\* Mutant: a full queue also loses its oldest value when the last one is lowered.
saveValueShifts(queue, value, now) ==
    LET new == [value |-> value, timestamp |-> now]
        rest == IF queue # <<>> /\ Len(queue) >= maxQueueSize THEN Tail(queue) ELSE queue
    IN  IF value = 0 THEN queue
        ELSE IF Due(queue, now) \/ value < last(queue).value THEN Append(rest, new)
        ELSE queue

saveValue(queue, value, now) ==
    LET new == [value |-> value, timestamp |-> now]
        rest == IF queue # <<>> /\ Len(queue) >= maxQueueSize THEN Tail(queue) ELSE queue
    IN  IF value = 0 THEN queue
        ELSE IF Due(queue, now) THEN Append(rest, new)
        ELSE IF value < last(queue).value THEN [queue EXCEPT ![Len(queue)] = new]
        ELSE queue

Values(queue) == {queue[i].value : i \in DOMAIN queue}

\* These three are asked of queues that are not empty.
getLatestValue(queue) == last(queue).value

getMinValue(queue) == CHOOSE v \in Values(queue) : \A w \in Values(queue) : v =< w

getMaxValue(queue) == CHOOSE v \in Values(queue) : \A w \in Values(queue) : v >= w
=============================================================================
