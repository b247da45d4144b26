----------------------------- MODULE BoundedFIFO -----------------------------
(* What spsc_queue.h promises its producer and its consumer: a FIFO queue  *)
(* of bounded length that neither loses, duplicates nor reorders an item.  *)
EXTENDS Integers, Sequences

CONSTANTS Items,   \* what can be pushed
          Bound    \* how many items the queue can hold

VARIABLES queue,      \* items accepted and not yet delivered, oldest first
          delivered   \* the items of the last successful pop

Init == queue = << >> /\ delivered = << >>

\* An accepted push.  A push that is refused changes nothing.
Enqueue ==
  /\ Len(queue) < Bound
  /\ \E x \in Items : queue' = Append(queue, x)
  /\ UNCHANGED delivered

\* A pop that finds an item.
Dequeue ==
  /\ queue # << >>
  /\ queue' = Tail(queue)
  /\ delivered' = <<Head(queue)>>

Next == Enqueue \/ Dequeue

Spec == Init /\ [][Next]_<<queue, delivered>>

=============================================================================
