--------------------------- MODULE SPSCQueueProofs ---------------------------
(* Theorems about SPSCQueue, for every capacity and every set of items: no  *)
(* data race, and the ring implements a bounded FIFO queue.                 *)
EXTENDS SPSCQueue, SequenceTheorems, TLAPS

-----------------------------------------------------------------------------
(* Arithmetic on the ring                                                   *)

\* How many steps lead from slot i to slot j.
Dist(i, j) == IF i <= j THEN j - i ELSE j - i + Capacity

\* The k-th slot from slot i on, for k of at most Capacity.
Nth(i, k) == IF i + k - 1 < Capacity THEN i + k - 1 ELSE i + k - 1 - Capacity

\* A mask leaves a slot alone, and brings an index back by one turn of the ring.
LEMMA MaskNone == ASSUME NEW n \in Int, 0 <= n, n < Capacity PROVE n % Capacity = n
BY QueueAssumption

LEMMA MaskDown ==
  ASSUME NEW n \in Int, Capacity <= n, n < 2 * Capacity
  PROVE  n % Capacity = n - Capacity
BY QueueAssumption

LEMMA MaskUp ==
  ASSUME NEW n \in Int, 0 - Capacity <= n, n < 0
  PROVE  n % Capacity = n + Capacity
BY QueueAssumption

\* (i + 1) & MASK starts again at 0 after the last slot.
LEMMA AdvanceIs ==
  ASSUME NEW i \in Slots
  PROVE  Advance(i) = IF i = Capacity - 1 THEN 0 ELSE i + 1
<1>1. i \in Int /\ 0 <= i /\ i < Capacity /\ Capacity \in Nat \ {0}
  BY QueueAssumption DEF Slots
<1>2. CASE i = Capacity - 1
  <2>1. (i + 1) % Capacity = i + 1 - Capacity
    BY <1>1, <1>2, MaskDown
  <2> QED BY <1>1, <1>2, <2>1 DEF Advance
<1>3. CASE i # Capacity - 1
  <2>1. (i + 1) % Capacity = i + 1
    BY <1>1, <1>3, MaskNone
  <2> QED BY <1>3, <2>1 DEF Advance
<1> QED BY <1>2, <1>3

LEMMA DistIs ==
  ASSUME NEW i \in Slots, NEW j \in Slots
  PROVE  (j - i) % Capacity = Dist(i, j)
<1>1. i \in Int /\ j \in Int /\ 0 <= i /\ i < Capacity /\ 0 <= j /\ j < Capacity
  BY QueueAssumption DEF Slots
<1>2. Capacity \in Nat \ {0}
  BY QueueAssumption
<1>3. CASE i <= j
  <2>1. (j - i) % Capacity = j - i
    BY <1>1, <1>2, <1>3, MaskNone
  <2> QED BY <1>3, <2>1 DEF Dist
<1>4. CASE ~ i <= j
  <2>1. (j - i) % Capacity = j - i + Capacity
    BY <1>1, <1>2, <1>4, MaskUp
  <2> QED BY <1>4, <2>1 DEF Dist
<1> QED BY <1>3, <1>4

LEMMA NthIs ==
  ASSUME NEW i \in Slots, NEW k \in 1 .. Capacity
  PROVE  (i + k - 1) % Capacity = Nth(i, k)
<1>1. i \in Int /\ 0 <= i /\ i < Capacity /\ Capacity \in Nat \ {0}
  BY QueueAssumption DEF Slots
<1>2. k \in Int /\ 1 <= k /\ k <= Capacity
  BY <1>1
<1>3. CASE i + k - 1 < Capacity
  <2>1. (i + k - 1) % Capacity = i + k - 1
    BY <1>1, <1>2, <1>3, MaskNone
  <2> QED BY <1>3, <2>1 DEF Nth
<1>4. CASE ~ i + k - 1 < Capacity
  <2>1. (i + k - 1) % Capacity = i + k - 1 - Capacity
    BY <1>1, <1>2, <1>4, MaskDown
  <2> QED BY <1>4, <2>1 DEF Nth
<1> QED BY <1>3, <1>4

-----------------------------------------------------------------------------
(* The contents of the ring                                                 *)

Ring(b, t, h) == [k \in 1 .. ((h - t) % Capacity) |-> b[(t + k - 1) % Capacity]]

Values == Items \cup {NoItem}

LEMMA RingIs ==
  ASSUME NEW b \in [Slots -> Values], NEW t \in Slots, NEW h \in Slots
  PROVE  /\ Ring(b, t, h) \in Seq(Values)
         /\ Len(Ring(b, t, h)) = Dist(t, h)
         /\ Dist(t, h) \in 0 .. Capacity - 1
         /\ \A k \in 1 .. Dist(t, h) : Nth(t, k) \in Slots
         /\ \A k \in 1 .. Dist(t, h) : Ring(b, t, h)[k] = b[Nth(t, k)]
<1> DEFINE n == Dist(t, h)
           e(k) == b[(t + k - 1) % Capacity]
<1>1. Capacity \in Nat \ {0}
  BY QueueAssumption
<1>2. n \in 0 .. Capacity - 1
  BY <1>1 DEF Dist, Slots
<1>3. Ring(b, t, h) = [k \in 1 .. n |-> e(k)]
  BY DistIs DEF Ring
<1>4. ASSUME NEW k \in 1 .. n
      PROVE  Nth(t, k) \in Slots /\ e(k) = b[Nth(t, k)]
  <2>1. k \in 1 .. Capacity
    BY <1>1, <1>2
  <2>2. (t + k - 1) % Capacity = Nth(t, k)
    BY <2>1, NthIs
  <2>3. Nth(t, k) \in Slots
    BY <1>1, <2>1 DEF Nth, Slots
  <2> QED BY <2>2, <2>3
<1>5. \A k \in 1 .. n : e(k) \in Values
  BY <1>4
<1> HIDE DEF n, e
<1>6. [k \in 1 .. n |-> e(k)] \in Seq(Values)
  BY <1>2, <1>5, IsASeq
<1>7. Len([k \in 1 .. n |-> e(k)]) = n
  BY <1>2, <1>6
<1> QED BY <1>2, <1>3, <1>4, <1>6, <1>7 DEF n

-----------------------------------------------------------------------------
(* The inductive invariant: on the way around the ring come tail_seen, tail_, *)
(* head_seen and head_, and each thread keeps what it has checked until its   *)
(* own store.                                                                 *)

ProducerInv ==
  /\ pushing # "idle" => Advance(head) # tail_seen
  /\ pushing = "store" => buffer[head] = item

ConsumerInv ==
  /\ popping # "idle" => tail # head_seen
  /\ popping = "store" => got = buffer[tail]

ViewInv ==
  /\ Dist(tail_seen, tail) <= Dist(tail_seen, head)
  /\ Dist(tail, head_seen) <= Dist(tail, head)

RingInv == TypeOK /\ ViewInv /\ ProducerInv /\ ConsumerInv

LEMMA InitRing == Init => RingInv
<1> SUFFICES ASSUME Init PROVE RingInv
  OBVIOUS
<1> USE QueueAssumption
<1>1. 0 \in Slots
  BY DEF Slots
<1>2. TypeOK
  BY <1>1 DEF Init, TypeOK
<1> QED BY <1>1, <1>2 DEF Init, RingInv, ViewInv, ProducerInv, ConsumerInv, Dist

\* Indices stay slots when they advance.
LEMMA AdvanceType == ASSUME NEW i \in Slots PROVE Advance(i) \in Slots
BY AdvanceIs, QueueAssumption DEF Slots

\* What the two checks imply, however old the index they read: a push that has
\* passed its check finds room in the ring, and a pop finds an item.
LEMMA ChecksHold ==
  ASSUME RingInv
  PROVE  /\ pushing # "idle" => Advance(head) # tail
         /\ popping # "idle" => tail # head
<1> USE QueueAssumption
<1>1. head \in Slots /\ tail \in Slots /\ head_seen \in Slots /\ tail_seen \in Slots
  BY DEF RingInv, TypeOK
<1>2. Advance(head) = IF head = Capacity - 1 THEN 0 ELSE head + 1
  BY <1>1, AdvanceIs
<1>3. pushing # "idle" => Advance(head) # tail
  BY <1>1, <1>2 DEF RingInv, ViewInv, ProducerInv, Dist, Slots
<1>4. popping # "idle" => tail # head
  BY <1>1 DEF RingInv, ViewInv, ConsumerInv, Dist, Slots
<1> QED BY <1>3, <1>4

LEMMA PushCheckRing == ASSUME RingInv, PushCheck PROVE RingInv'
<1>1. TypeOK'
  BY DEF RingInv, PushCheck, TypeOK, consumer
<1>2. ViewInv' /\ ConsumerInv'
  BY DEF RingInv, PushCheck, ViewInv, ConsumerInv, consumer, Dist
<1>3. ProducerInv'
  BY DEF RingInv, PushCheck, Full, ProducerInv, Advance
<1> QED BY <1>1, <1>2, <1>3 DEF RingInv

LEMMA PushWriteRing == ASSUME RingInv, PushWrite PROVE RingInv'
<1>1. TypeOK'
  BY DEF RingInv, PushWrite, TypeOK, consumer
<1>2. ViewInv'
  BY DEF RingInv, PushWrite, ViewInv, consumer, Dist
<1>3. head \in Slots /\ buffer' = [buffer EXCEPT ![head] = item]
  BY DEF RingInv, TypeOK, PushWrite
<1>4. ProducerInv'
  BY <1>3 DEF RingInv, TypeOK, PushWrite, ProducerInv, Advance
<1>5. popping # "idle" => tail # head
  BY ChecksHold
<1>6. ConsumerInv'
  BY <1>3, <1>5 DEF RingInv, TypeOK, PushWrite, ConsumerInv, consumer
<1> QED BY <1>1, <1>2, <1>4, <1>6 DEF RingInv

LEMMA PushStoreRing == ASSUME RingInv, PushStore PROVE RingInv'
<1>1. head \in Slots /\ tail \in Slots /\ head_seen \in Slots /\ tail_seen \in Slots
  BY DEF RingInv, TypeOK
<1>2. Advance(head) \in Slots
  BY <1>1, AdvanceType
<1>3. TypeOK'
  BY <1>2 DEF RingInv, PushStore, TypeOK, consumer
<1>4. Advance(head) # tail /\ Advance(head) # tail_seen
  BY ChecksHold DEF RingInv, PushStore, ProducerInv
<1>5. Advance(head) = IF head = Capacity - 1 THEN 0 ELSE head + 1
  BY <1>1, AdvanceIs
<1>6. /\ head' = Advance(head)
      /\ tail' = tail /\ head_seen' = head_seen /\ tail_seen' = tail_seen
  BY DEF PushStore, consumer
<1>7. ViewInv'
  BY <1>1, <1>4, <1>5, <1>6, QueueAssumption DEF RingInv, ViewInv, Dist, Slots
<1>8. ProducerInv' /\ ConsumerInv'
  BY DEF RingInv, PushStore, ProducerInv, ConsumerInv, consumer
<1> QED BY <1>3, <1>7, <1>8 DEF RingInv

LEMMA PopCheckRing == ASSUME RingInv, PopCheck PROVE RingInv'
<1>1. TypeOK'
  BY DEF RingInv, PopCheck, TypeOK, producer
<1>2. ViewInv' /\ ProducerInv'
  BY DEF RingInv, PopCheck, ViewInv, ProducerInv, producer, Dist, Advance
<1>3. ConsumerInv'
  BY DEF RingInv, PopCheck, Empty, ConsumerInv
<1> QED BY <1>1, <1>2, <1>3 DEF RingInv

LEMMA PopReadRing == ASSUME RingInv, PopRead PROVE RingInv'
<1>1. TypeOK'
  BY DEF RingInv, PopRead, TypeOK, producer
<1>2. ViewInv' /\ ProducerInv'
  BY DEF RingInv, PopRead, ViewInv, ProducerInv, producer, Dist, Advance
<1>3. ConsumerInv'
  BY DEF RingInv, PopRead, ConsumerInv
<1> QED BY <1>1, <1>2, <1>3 DEF RingInv

LEMMA PopStoreRing == ASSUME RingInv, PopStore PROVE RingInv'
<1>1. head \in Slots /\ tail \in Slots /\ head_seen \in Slots /\ tail_seen \in Slots
  BY DEF RingInv, TypeOK
<1>2. Advance(tail) \in Slots
  BY <1>1, AdvanceType
<1>3. TypeOK'
  <2>1. delivered' = <<got>>
    BY DEF PopStore
  <2>2. Len(delivered') = 1
    BY <2>1
  <2> QED BY <1>2, <2>2 DEF RingInv, PopStore, TypeOK, producer
<1>4. tail # head /\ tail # head_seen
  BY ChecksHold DEF RingInv, PopStore, ConsumerInv
<1>5. Advance(tail) = IF tail = Capacity - 1 THEN 0 ELSE tail + 1
  BY <1>1, AdvanceIs
<1>6. /\ tail' = Advance(tail)
      /\ head' = head /\ head_seen' = head_seen /\ tail_seen' = tail_seen
  BY DEF PopStore, producer
<1>7. ViewInv'
  BY <1>1, <1>4, <1>5, <1>6, QueueAssumption DEF RingInv, ViewInv, Dist, Slots
<1>8. ProducerInv' /\ ConsumerInv'
  BY DEF RingInv, PopStore, ProducerInv, ConsumerInv, producer, Advance
<1> QED BY <1>3, <1>7, <1>8 DEF RingInv

LEMMA HeadVisibleRing == ASSUME RingInv, HeadVisible PROVE RingInv'
<1>1. head \in Slots /\ tail \in Slots /\ head_seen \in Slots /\ tail_seen \in Slots
  BY DEF RingInv, TypeOK
<1>2. Advance(head_seen) \in Slots
  BY <1>1, AdvanceType
<1>3. TypeOK'
  BY <1>2 DEF RingInv, HeadVisible, TypeOK, consumer, producer
<1>4. Advance(head_seen) = IF head_seen = Capacity - 1 THEN 0 ELSE head_seen + 1
  BY <1>1, AdvanceIs
<1>5. /\ head_seen # head
      /\ head_seen' = Advance(head_seen)
      /\ head' = head /\ tail' = tail /\ tail_seen' = tail_seen
  BY DEF HeadVisible, consumer, producer
<1>6. ViewInv' /\ head_seen' # tail'
  BY <1>1, <1>4, <1>5, QueueAssumption DEF RingInv, ViewInv, Dist, Slots
<1>7. ProducerInv' /\ ConsumerInv'
  BY <1>6 DEF RingInv, HeadVisible, ProducerInv, ConsumerInv, consumer, producer, Advance
<1> QED BY <1>3, <1>6, <1>7 DEF RingInv

LEMMA TailVisibleRing == ASSUME RingInv, TailVisible PROVE RingInv'
<1>1. head \in Slots /\ tail \in Slots /\ head_seen \in Slots /\ tail_seen \in Slots
  BY DEF RingInv, TypeOK
<1>2. Advance(tail_seen) \in Slots
  BY <1>1, AdvanceType
<1>3. TypeOK'
  BY <1>2 DEF RingInv, TailVisible, TypeOK, consumer, producer
<1>4. /\ Advance(tail_seen) = IF tail_seen = Capacity - 1 THEN 0 ELSE tail_seen + 1
      /\ Advance(head) = IF head = Capacity - 1 THEN 0 ELSE head + 1
  BY <1>1, AdvanceIs
<1>5. /\ tail_seen # tail
      /\ tail_seen' = Advance(tail_seen)
      /\ head' = head /\ tail' = tail /\ head_seen' = head_seen
  BY DEF TailVisible, consumer, producer
<1>6. ViewInv' /\ Advance(head) # tail_seen'
  BY <1>1, <1>4, <1>5, QueueAssumption DEF RingInv, ViewInv, Dist, Slots
<1>7. ProducerInv' /\ ConsumerInv'
  BY <1>6 DEF RingInv, TailVisible, ProducerInv, ConsumerInv, consumer, producer, Advance
<1> QED BY <1>3, <1>6, <1>7 DEF RingInv

LEMMA NextRing == RingInv /\ [Next]_vars => RingInv'
<1> SUFFICES ASSUME RingInv, [Next]_vars PROVE RingInv'
  OBVIOUS
<1>1. CASE UNCHANGED vars
  BY <1>1 DEF vars, RingInv, TypeOK, ViewInv, ProducerInv, ConsumerInv, Dist, Advance
<1> QED BY <1>1, PushCheckRing, PushWriteRing, PushStoreRing, PopCheckRing, PopReadRing,
           PopStoreRing, HeadVisibleRing, TailVisibleRing DEF Next, Push, Pop

LEMMA RingInvariant == Spec => []RingInv
BY InitRing, NextRing, PTL DEF Spec

\* Every variable has its type.
THEOREM QueueTypes == Spec => []TypeOK
BY RingInvariant, PTL DEF RingInv

\* The producer never writes the slot that the consumer copies, on a ring of any
\* size and however old the index that either of them has checked.
THEOREM NoRace == Spec => []NoDataRace
<1>1. RingInv => NoDataRace
  BY ChecksHold DEF NoDataRace
<1> QED BY <1>1, RingInvariant, PTL

-----------------------------------------------------------------------------
(* The ring implements the FIFO queue                                       *)

LEMMA ContentsAreRing == Contents = Ring(buffer, tail, head)
BY DEF Contents, Occupied, Ring

LEMMA NextContentsAreRing == Contents' = Ring(buffer', tail', head')
BY DEF Contents, Occupied, Ring

\* The slot being written is not one that the ring holds.
LEMMA WriteOutside ==
  ASSUME NEW b \in [Slots -> Values], NEW t \in Slots, NEW h \in Slots,
         NEW x \in Values
  PROVE  Ring([b EXCEPT ![h] = x], t, h) = Ring(b, t, h)
<1> DEFINE c == [b EXCEPT ![h] = x]
           n == Dist(t, h)
<1>1. c \in [Slots -> Values] /\ \A s \in Slots : s # h => c[s] = b[s]
  OBVIOUS
<1> HIDE DEF c
<1>2. /\ Ring(b, t, h) \in Seq(Values) /\ Len(Ring(b, t, h)) = n
      /\ \A k \in 1 .. n : Nth(t, k) \in Slots
      /\ \A k \in 1 .. n : Ring(b, t, h)[k] = b[Nth(t, k)]
  BY RingIs
<1>3. /\ Ring(c, t, h) \in Seq(Values) /\ Len(Ring(c, t, h)) = n
      /\ \A k \in 1 .. n : Ring(c, t, h)[k] = c[Nth(t, k)]
  BY <1>1, RingIs
<1>4. \A k \in 1 .. n : Nth(t, k) # h
  BY QueueAssumption DEF Nth, Dist, Slots
<1> HIDE DEF n
<1>5. \A k \in 1 .. Len(Ring(c, t, h)) : Ring(c, t, h)[k] = Ring(b, t, h)[k]
  BY <1>1, <1>2, <1>3, <1>4
<1>6. Ring(c, t, h) = Ring(b, t, h)
  BY <1>2, <1>3, <1>5, SeqEqual
<1> QED BY <1>6 DEF c

\* Storing head_ adds the item in the slot that it passes, at the end.
LEMMA StoreHeadAppends ==
  ASSUME NEW b \in [Slots -> Values], NEW t \in Slots, NEW h \in Slots,
         Advance(h) # t
  PROVE  /\ Ring(b, t, Advance(h)) = Append(Ring(b, t, h), b[h])
         /\ Len(Ring(b, t, h)) < Capacity - 1
<1> DEFINE g == Advance(h)
           n == Dist(t, h)
           r == Append(Ring(b, t, h), b[h])
<1>1. g \in Slots /\ g = IF h = Capacity - 1 THEN 0 ELSE h + 1
  BY AdvanceType, AdvanceIs
<1>2. g # t
  OBVIOUS
<1> HIDE DEF g
<1>3. /\ Ring(b, t, h) \in Seq(Values) /\ Len(Ring(b, t, h)) = n /\ n \in Nat
      /\ \A k \in 1 .. n : Ring(b, t, h)[k] = b[Nth(t, k)]
  BY RingIs
<1>4. /\ Ring(b, t, g) \in Seq(Values) /\ Len(Ring(b, t, g)) = Dist(t, g)
      /\ \A k \in 1 .. Dist(t, g) : Ring(b, t, g)[k] = b[Nth(t, k)]
  BY <1>1, RingIs
<1>5. Dist(t, g) = n + 1 /\ n < Capacity - 1 /\ Nth(t, n + 1) = h
  BY <1>1, <1>2, QueueAssumption DEF Dist, Nth, Slots
<1>6. b[h] \in Values
  OBVIOUS
<1> HIDE DEF n
<1>7. /\ r \in Seq(Values) /\ Len(r) = n + 1
      /\ \A k \in 1 .. n : r[k] = Ring(b, t, h)[k]
      /\ r[n + 1] = b[h]
  BY <1>3, <1>6, AppendProperties
<1> HIDE DEF r
<1>8. ASSUME NEW k \in 1 .. n + 1 PROVE Ring(b, t, g)[k] = r[k]
  <2>1. Ring(b, t, g)[k] = b[Nth(t, k)]
    BY <1>4, <1>5
  <2>2. CASE k = n + 1
    BY <1>5, <1>7, <2>1, <2>2
  <2>3. CASE k # n + 1
    <3>1. k \in 1 .. n
      BY <1>3, <2>3
    <3> QED BY <1>3, <1>7, <2>1, <3>1
  <2> QED BY <2>2, <2>3
<1>9. Ring(b, t, g) = r
  BY <1>4, <1>5, <1>7, <1>8, SeqEqual
<1> QED BY <1>3, <1>5, <1>9 DEF g, r

\* Storing tail_ removes the oldest item, the one in the slot that it passes.
LEMMA StoreTailRemoves ==
  ASSUME NEW b \in [Slots -> Values], NEW t \in Slots, NEW h \in Slots, t # h
  PROVE  /\ Ring(b, t, h) # << >>
         /\ Head(Ring(b, t, h)) = b[t]
         /\ Ring(b, Advance(t), h) = Tail(Ring(b, t, h))
<1> DEFINE u == Advance(t)
           q == Ring(b, t, h)
<1>1. u \in Slots /\ u = IF t = Capacity - 1 THEN 0 ELSE t + 1
  BY AdvanceType, AdvanceIs
<1> HIDE DEF u
<1>2. /\ q \in Seq(Values) /\ Len(q) = Dist(t, h)
      /\ \A k \in 1 .. Dist(t, h) : q[k] = b[Nth(t, k)]
  BY RingIs
<1>3. /\ Ring(b, u, h) \in Seq(Values) /\ Len(Ring(b, u, h)) = Dist(u, h)
      /\ \A k \in 1 .. Dist(u, h) : Ring(b, u, h)[k] = b[Nth(u, k)]
  BY <1>1, RingIs
<1>4. /\ Dist(t, h) \in Nat \ {0}
      /\ Dist(u, h) = Dist(t, h) - 1
      /\ Nth(t, 1) = t
  BY <1>1, QueueAssumption DEF Dist, Nth, Slots
<1>5. \A k \in 1 .. Dist(u, h) : Nth(u, k) = Nth(t, k + 1)
  BY <1>1, QueueAssumption DEF Dist, Nth, Slots
<1> HIDE DEF q
<1>6. q # << >>
  BY <1>2, <1>4
<1>7. Head(q) = b[t]
  <2>1. 1 \in 1 .. Dist(t, h)
    BY <1>4
  <2>2. q[1] = b[t]
    BY <1>2, <1>4, <2>1
  <2> QED BY <1>2, <1>6, <2>2
<1>8. /\ Tail(q) \in Seq(Values)
      /\ Len(Tail(q)) = Len(q) - 1
      /\ \A k \in 1 .. Len(Tail(q)) : Tail(q)[k] = q[k + 1]
  BY <1>2, <1>6, HeadTailProperties
<1>9. ASSUME NEW k \in 1 .. Dist(u, h) PROVE Ring(b, u, h)[k] = Tail(q)[k]
  <2>1. k + 1 \in 1 .. Dist(t, h)
    BY <1>4
  <2>2. Tail(q)[k] = b[Nth(t, k + 1)]
    BY <1>2, <1>4, <1>8, <2>1
  <2> QED BY <1>3, <1>5, <2>2
<1>10. Ring(b, u, h) = Tail(q)
  BY <1>2, <1>3, <1>4, <1>8, <1>9, SeqEqual
<1> QED BY <1>6, <1>7, <1>10 DEF u, q

\* Every step of the ring is a step of the FIFO queue or changes nothing in it.
LEMMA StepRefines ==
  RingInv /\ [Next]_vars => [FIFO!Next]_<<Contents, delivered>>
<1> SUFFICES ASSUME RingInv, [Next]_vars
             PROVE  FIFO!Next \/ UNCHANGED <<Contents, delivered>>
  OBVIOUS
<1>1. /\ buffer \in [Slots -> Values] /\ head \in Slots /\ tail \in Slots
      /\ item \in Values
  BY DEF RingInv, TypeOK, Values
<1>2. CASE PushWrite
  <2>0. buffer' = [buffer EXCEPT ![head] = item] /\ tail' = tail /\ head' = head
    BY <1>2 DEF PushWrite, consumer
  <2>1. Ring(buffer', tail', head') = Ring(buffer, tail, head)
    BY <1>1, <2>0, WriteOutside
  <2>2. delivered' = delivered
    BY <1>2 DEF PushWrite, consumer
  <2> QED BY <2>1, <2>2, ContentsAreRing, NextContentsAreRing
<1>3. CASE PushStore
  <2>1. Advance(head) # tail
    BY <1>3, ChecksHold DEF PushStore
  <2>2. item \in Items /\ buffer[head] = item
    BY <1>3 DEF RingInv, TypeOK, ProducerInv, PushStore
  <2>3. Contents' = Append(Contents, item) /\ Len(Contents) < Capacity - 1
    BY <1>1, <1>3, <2>1, <2>2, StoreHeadAppends, ContentsAreRing, NextContentsAreRing
       DEF PushStore, consumer
  <2> QED BY <1>3, <2>2, <2>3 DEF FIFO!Next, FIFO!Enqueue, PushStore, consumer
<1>4. CASE PopStore
  <2>1. tail # head /\ got = buffer[tail]
    BY <1>4, ChecksHold DEF RingInv, ConsumerInv, PopStore
  <2>2. Contents # << >> /\ Head(Contents) = got /\ Contents' = Tail(Contents)
    BY <1>1, <1>4, <2>1, StoreTailRemoves, ContentsAreRing, NextContentsAreRing
       DEF PopStore, producer
  <2> QED BY <1>4, <2>2 DEF FIFO!Next, FIFO!Dequeue, PopStore
<1>5. CASE UNCHANGED <<buffer, head, tail, delivered>>
  BY <1>5, ContentsAreRing, NextContentsAreRing
<1>6. CASE PushCheck
  BY <1>5, <1>6 DEF PushCheck, consumer
<1>7. CASE PopCheck
  BY <1>5, <1>7 DEF PopCheck, producer
<1>8. CASE PopRead
  BY <1>5, <1>8 DEF PopRead, producer
<1>9. CASE HeadVisible \/ TailVisible
  BY <1>5, <1>9 DEF HeadVisible, TailVisible, producer, consumer
<1>10. CASE UNCHANGED vars
  BY <1>5, <1>10 DEF vars
<1> QED BY <1>2, <1>3, <1>4, <1>6, <1>7, <1>8, <1>9, <1>10 DEF Next, Push, Pop

\* What push has accepted is popped once, in order and unchanged: the ring
\* implements a FIFO queue of Capacity-1 items.
THEOREM RingImplementsFIFO == Spec => ImplementsFIFO
<1>1. Init => FIFO!Init
  <2> SUFFICES ASSUME Init PROVE FIFO!Init
    OBVIOUS
  <2>1. RingInv
    BY InitRing
  <2>2. Dist(tail, head) = 0
    BY DEF Init, Dist
  <2>3. /\ buffer \in [Slots -> Values] /\ head \in Slots /\ tail \in Slots
    BY <2>1 DEF RingInv, TypeOK, Values
  <2>4. Contents \in Seq(Values) /\ Len(Contents) = 0
    BY <2>2, <2>3, RingIs, ContentsAreRing
  <2>5. Contents = << >>
    BY <2>4
  <2> QED BY <2>5 DEF Init, FIFO!Init
<1> QED BY <1>1, RingInvariant, StepRefines, PTL DEF Spec, ImplementsFIFO, FIFO!Spec

=============================================================================
