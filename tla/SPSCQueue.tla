------------------------------ MODULE SPSCQueue ------------------------------
(***************************************************************************)
(* The lock-free ring of spsc_queue.h: one producer thread in push, one    *)
(* consumer thread in pop.  Every access to an atomic or to a buffer slot  *)
(* that the other thread can meet is a step of its own.                    *)
(*                                                                         *)
(* An index stored with release becomes visible to the other thread's      *)
(* acquire loads later, in the order it was stored: tail_seen is what the  *)
(* producer's load of tail_ returns now, head_seen what the consumer's     *)
(* load of head_ returns.  A slot is plain memory: it is written and read  *)
(* between an acquire and a release, and NoDataRace says that this is      *)
(* enough.                                                                 *)
(***************************************************************************)
EXTENDS Integers, Sequences

CONSTANTS Capacity,   \* number of slots, a power of 2 in the code
          Items,      \* what can be pushed
          NoItem      \* what a slot holds before it is first written

ASSUME QueueAssumption ==
  /\ Capacity \in Nat \ {0}
  /\ NoItem \notin Items

VARIABLES head,        \* head_, written by the producer
          tail,        \* tail_, written by the consumer
          head_seen,   \* head_ as the consumer's acquire load finds it
          tail_seen,   \* tail_ as the producer's acquire load finds it
          buffer,      \* buffer_
          pushing,     \* where push stands: "idle", "write", "store"
          item,        \* its argument
          popping,     \* where pop stands: "idle", "read", "store"
          got,         \* the item it has copied
          delivered    \* what the last successful pop returned

producer == <<head, pushing, item>>
consumer == <<tail, popping, got, delivered>>
vars == <<head, tail, head_seen, tail_seen, buffer, pushing, item, popping, got,
          delivered>>

Slots == 0 .. Capacity - 1

AdvanceSlip(i) == i + 1

\* (i + 1) & MASK.  A definition whose name ends in Slip is not part of the
\* model: it is the definition after it with a plausible bug, for the mutation
\* runs.
Advance(i) == (i + 1) % Capacity

-----------------------------------------------------------------------------

Init ==
  /\ head = 0
  /\ tail = 0
  /\ head_seen = 0
  /\ tail_seen = 0
  /\ buffer = [s \in Slots |-> NoItem]
  /\ pushing = "idle"
  /\ item = NoItem
  /\ popping = "idle"
  /\ got = NoItem
  /\ delivered = << >>

FullSlip == FALSE

\* next == tail_.load(acquire)
Full == Advance(head) = tail_seen

\* push up to its full check.  A full queue refuses the item: no step.
PushCheck ==
  /\ pushing = "idle"
  /\ ~ Full
  /\ item' \in Items
  /\ pushing' = "write"
  /\ UNCHANGED <<head, tail, head_seen, tail_seen, buffer, consumer>>

\* buffer_[head] = item
PushWrite ==
  /\ pushing = "write"
  /\ buffer' = [buffer EXCEPT ![head] = item]
  /\ pushing' = "store"
  /\ UNCHANGED <<head, tail, head_seen, tail_seen, item, consumer>>

\* head_.store(next, release); return true
PushStore ==
  /\ pushing = "store"
  /\ head' = Advance(head)
  /\ pushing' = "idle"
  /\ item' = NoItem
  /\ UNCHANGED <<tail, head_seen, tail_seen, buffer, consumer>>

EmptySlip == Advance(tail) = head_seen

\* tail == head_.load(acquire)
Empty == tail = head_seen

\* pop up to its empty check.  An empty queue returns nullopt: no step.
PopCheck ==
  /\ popping = "idle"
  /\ ~ Empty
  /\ popping' = "read"
  /\ UNCHANGED <<tail, head_seen, tail_seen, buffer, got, delivered, producer>>

\* T item = buffer_[tail]
PopRead ==
  /\ popping = "read"
  /\ got' = buffer[tail]
  /\ popping' = "store"
  /\ UNCHANGED <<tail, head_seen, tail_seen, buffer, delivered, producer>>

PopStoreSlip ==
  /\ popping = "store"
  /\ tail' = Advance(Advance(tail))
  /\ delivered' = <<got>>
  /\ got' = NoItem
  /\ popping' = "idle"
  /\ UNCHANGED <<head_seen, tail_seen, buffer, producer>>

\* tail_.store((tail + 1) & MASK, release); return item
PopStore ==
  /\ popping = "store"
  /\ tail' = Advance(tail)
  /\ delivered' = <<got>>
  /\ got' = NoItem
  /\ popping' = "idle"
  /\ UNCHANGED <<head_seen, tail_seen, buffer, producer>>

\* A released index reaches the other thread, one store after the other.
HeadVisible ==
  /\ head_seen # head
  /\ head_seen' = Advance(head_seen)
  /\ UNCHANGED <<tail_seen, buffer, producer, consumer>>

TailVisible ==
  /\ tail_seen # tail
  /\ tail_seen' = Advance(tail_seen)
  /\ UNCHANGED <<head_seen, buffer, producer, consumer>>

Push == PushCheck \/ PushWrite \/ PushStore
Pop  == PopCheck \/ PopRead \/ PopStore

Next == Push \/ Pop \/ HeadVisible \/ TailVisible

Spec == Init /\ [][Next]_vars

\* The consumer thread drains the queue in a loop, and a store to an atomic
\* becomes visible in finite time.  The producer may stop at any time.
FairSpec == Spec /\ WF_vars(Pop) /\ WF_vars(HeadVisible)

-----------------------------------------------------------------------------
(* Properties                                                              *)

\* Every variable has its type.
TypeOK ==
  /\ head \in Slots /\ head_seen \in Slots
  /\ tail \in Slots /\ tail_seen \in Slots
  /\ buffer \in [Slots -> Items \cup {NoItem}]
  /\ pushing \in {"idle", "write", "store"}
  /\ item \in Items \cup {NoItem}
  /\ pushing # "idle" => item \in Items
  /\ popping \in {"idle", "read", "store"}
  /\ got \in Items \cup {NoItem}
  /\ Len(delivered) \in {0, 1}

\* The producer never writes the slot that the consumer is about to copy or is
\* copying, whatever the two threads have seen of each other's index.
NoDataRace == ~ (pushing = "write" /\ popping = "read" /\ head = tail)

\* The items between tail_ and head_, oldest first.
Occupied == (head - tail) % Capacity
Contents == [k \in 1 .. Occupied |-> buffer[(tail + k - 1) % Capacity]]

FIFO == INSTANCE BoundedFIFO WITH Bound <- Capacity - 1, queue <- Contents

\* The ring implements a FIFO queue of Capacity-1 items: an item that push has
\* accepted is delivered once, in order and unchanged.
ImplementsFIFO == FIFO!Spec

\* A consumer that keeps popping gets every item: the oldest one never waits
\* for ever, even if the producer stops after it.
DeliversAll == \A s \in Slots : (tail = s /\ Contents # << >>) ~> (tail # s)

=============================================================================
