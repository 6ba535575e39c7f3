---------------------------- MODULE SampleQueue ----------------------------
(* What a sample ring promises its users: a bounded first-in first-out     *)
(* queue.  A producer appends batches that fit, a consumer takes a prefix, *)
(* and a reset empties it.  SPSCRing is shown to implement this module.    *)
EXTENDS Naturals, Sequences

CONSTANTS Capacity,   \* number of samples the queue can hold
          Samples     \* the values that can be queued

VARIABLES queue,      \* the samples written and not yet read, oldest first
          delivered   \* every sample handed to the consumer, in order

vars == <<queue, delivered>>

Init == queue = <<>> /\ delivered = <<>>

Put == \E n \in 0..(Capacity - Len(queue)) :
         \E batch \in [1..n -> Samples] : queue' = queue \o batch
       /\ UNCHANGED delivered

Take == \E n \in 1..Len(queue) :
          /\ delivered' = delivered \o SubSeq(queue, 1, n)
          /\ queue' = SubSeq(queue, n + 1, Len(queue))

Reset == queue' = <<>> /\ delivered' = <<>>

Next == Put \/ Take \/ Reset

Spec == Init /\ [][Next]_vars

\* The queue never holds more than its capacity.
Bounded == Len(queue) <= Capacity
=============================================================================
