--------------------------- MODULE BookArenaProofs ---------------------------
(* Theorems about BookArena, for every value of its constants.             *)
EXTENDS BookArena, OrderBookProofs

-----------------------------------------------------------------------------
(* The inductive invariant: the pointers mirror the book, and the free list *)
(* can be enumerated.                                                       *)

\* What is stored in the slot of a live order is that order's.
FieldsMatch ==
  \A i \in Live :
    fields[slot[i]] = [id    |-> i,
                       price |-> order_map[i].price,
                       side  |-> order_map[i].side]

OneSlotEach == \A i, j \in Live : slot[i] = slot[j] => i = j

\* The pointers of one level, given its queue.
Linked(l, q) ==
  /\ l.head = At(q, 1)
  /\ l.tail = At(q, Len(q))
  /\ l.count = Len(q)
  /\ \A k \in DOMAIN q : /\ next[At(q, k)] = At(q, k + 1)
                         /\ prev[At(q, k)] = At(q, k - 1)

FreeListInv == \E f : IsFreeList(f)

BookInv == IndInv /\ RoomInv

ArenaInv ==
  /\ BookInv
  /\ ArenaTypeOK
  /\ OneSlotEach
  /\ FieldsMatch
  /\ ListsMatch
  /\ FreeListInv

LEMMA ListsAreLinked ==
  ListsMatch <=> \A s \in Sides, p \in Prices : Linked(list[s][p], levels[s][p].queue)
BY DEF ListsMatch, Linked

\* The same for the pointers after a step, with the queue w.
Link(sl, w, k) == IF k \in DOMAIN w THEN sl[w[k]] ELSE Null

LEMMA LinkedNext ==
  ASSUME NEW s \in Sides, NEW p \in Prices, NEW w, levels'[s][p].queue = w,
         list'[s][p].head = Link(slot', w, 1),
         list'[s][p].tail = Link(slot', w, Len(w)),
         list'[s][p].count = Len(w),
         \A k \in DOMAIN w : /\ next'[Link(slot', w, k)] = Link(slot', w, k + 1)
                             /\ prev'[Link(slot', w, k)] = Link(slot', w, k - 1)
  PROVE  Linked(list[s][p], levels[s][p].queue)'
BY DEF Linked, At, Link

\* A queue of the book: its orders are live, in one level, once.
LEMMA QueueFacts ==
  ASSUME IndInv, NEW s \in Sides, NEW p \in Prices
  PROVE  LET q == levels[s][p].queue IN
         /\ q \in Seq(Ids)
         /\ Len(q) \in Nat
         /\ DOMAIN q = 1 .. Len(q)
         /\ IsInjective(q)
         /\ \A k \in DOMAIN q : /\ q[k] \in Live \ InFlight
                                /\ order_map[q[k]].side = s
                                /\ order_map[q[k]].price = p
<1> DEFINE q == levels[s][p].queue
<1>1. q \in Seq(Ids) /\ IsInjective(q) /\ ToSet(q) = OrdersAt(s, p)
  BY DEF IndInv, TypeOK, Level, QueuedOnce
<1> HIDE DEF q
<1>2. Len(q) \in Nat /\ DOMAIN q = 1 .. Len(q)
  BY <1>1
<1>3. \A k \in DOMAIN q : q[k] \in OrdersAt(s, p)
  BY <1>1 DEF ToSet
<1> QED BY <1>1, <1>2, <1>3 DEF OrdersAt, q

\* The slots a level links: those of its orders, and Null past its ends.
LEMMA AtFacts ==
  ASSUME IndInv, ArenaTypeOK, OneSlotEach, NEW s \in Sides, NEW p \in Prices
  PROVE  LET q == levels[s][p].queue IN
         /\ \A k \in DOMAIN q : At(q, k) = slot[q[k]] /\ At(q, k) \in Slots
         /\ \A k : k \notin DOMAIN q => At(q, k) = Null
         /\ \A k, m \in DOMAIN q : At(q, k) = At(q, m) => k = m
         /\ \A k \in DOMAIN q, i \in Live : At(q, k) = slot[i] => q[k] = i
<1> DEFINE q == levels[s][p].queue
<1>1. \A k \in DOMAIN q : q[k] \in Live
  BY QueueFacts
<1>2. IsInjective(q)
  BY QueueFacts
<1> HIDE DEF q
<1>3. \A k \in DOMAIN q : At(q, k) = slot[q[k]] /\ At(q, k) \in Slots
  BY <1>1 DEF At, ArenaTypeOK
<1>4. \A k : k \notin DOMAIN q => At(q, k) = Null
  BY DEF At
<1>5. \A k \in DOMAIN q, i \in Live : At(q, k) = slot[i] => q[k] = i
  BY <1>1, <1>3 DEF OneSlotEach
<1>6. \A k, m \in DOMAIN q : At(q, k) = At(q, m) => k = m
  BY <1>1, <1>2, <1>3 DEF OneSlotEach, IsInjective
<1> QED BY <1>3, <1>4, <1>5, <1>6 DEF q

LEMMA NullIsNoSlot == Null \notin Slots /\ PoolSize \in Nat
BY BookAssumption DEF Null, Slots

LEMMA BookInvStep == BookInv /\ [Next]_vars => BookInv'
BY StepInv, StepRoom DEF BookInv

-----------------------------------------------------------------------------
(* The pool's free list                                                    *)

\* The free list is not empty when in_use says that a slot is left.
LEMMA FreeHeadIsFree ==
  ASSUME ArenaInv, HasRoom
  PROVE  free_head \in Slots \ HeldSlots
<1>1. PICK f : IsFreeList(f)
  BY DEF ArenaInv, FreeListInv
<1>2. 1 \in 1 .. PoolSize - in_use
  BY BookAssumption DEF HasRoom, ArenaInv, BookInv, RoomInv
<1>3. f \in [1 .. PoolSize - in_use -> Slots \ HeldSlots] /\ free_head = f[1]
  BY <1>1, <1>2 DEF IsFreeList
<1> QED BY <1>2, <1>3

\* A new order holds the slot that it was given, and the others keep theirs.
LEMMA AcquireSlots ==
  ASSUME ArenaInv, NEW c \in Call, c.id \notin Live, Accept(c), Acquire(c)
  PROVE  /\ Live' = Live \cup {c.id}
         /\ slot' \in [Live' -> Slots]
         /\ slot'[c.id] = free_head
         /\ \A j \in Live : slot'[j] = slot[j]
         /\ HeldSlots' = HeldSlots \cup {free_head}
         /\ OneSlotEach'
<1>1. HasRoom
  BY DEF Accept
<1>2. free_head \in Slots \ HeldSlots
  BY <1>1, FreeHeadIsFree
<1>3. Live' = Live \cup {c.id}
  BY DEF Accept, Insert, Live
<1>4. slot \in [Live -> Slots]
  BY DEF ArenaInv, ArenaTypeOK
<1>5. /\ slot' \in [Live' -> Slots]
      /\ slot'[c.id] = free_head
      /\ \A j \in Live : slot'[j] = slot[j]
  BY <1>2, <1>3, <1>4 DEF Acquire, Insert
<1>6. HeldSlots' = HeldSlots \cup {free_head}
  BY <1>3, <1>5 DEF HeldSlots
<1>7. \A j \in Live : slot'[j] # free_head
  BY <1>2, <1>5 DEF HeldSlots
<1>8. OneSlotEach'
  BY <1>3, <1>5, <1>7 DEF OneSlotEach, ArenaInv
<1> QED BY <1>3, <1>5, <1>6, <1>8

\* The list loses its head, the slot acquired.
LEMMA AcquireFreeList ==
  ASSUME ArenaInv, NEW c \in Call, c.id \notin Live, Accept(c), Acquire(c)
  PROVE  FreeListInv'
<1> DEFINE n == PoolSize - in_use
           o == free_head
<1>1. PICK f : IsFreeList(f)
  BY DEF ArenaInv, FreeListInv
<1>2. /\ n \in Nat /\ n >= 1
      /\ in_use' = in_use + 1
      /\ PoolSize - in_use' = n - 1
  BY BookAssumption DEF Accept, HasRoom, ArenaInv, BookInv, RoomInv
<1> HIDE DEF n
<1>3. /\ f \in [1 .. n -> Slots \ HeldSlots]
      /\ \A k, m \in 1 .. n : f[k] = f[m] => k = m
      /\ Slots \ HeldSlots \subseteq {f[k] : k \in 1 .. n}
      /\ o = f[1]
      /\ \A k \in 1 .. n : next[f[k]] = IF k + 1 \in 1 .. n THEN f[k + 1] ELSE Null
  BY <1>1, <1>2 DEF IsFreeList, IsInjective, n
<1>4. HeldSlots' = HeldSlots \cup {o}
  BY AcquireSlots
<1>5. /\ next' = [next EXCEPT ![o] = Null]
      /\ free_head' = next[o]
      /\ next \in [Slots -> Pointers]
  BY DEF Acquire, ArenaInv, ArenaTypeOK
<1>6. PICK g : g = [k \in 1 .. n - 1 |-> f[k + 1]]
  OBVIOUS
<1>7. \A k \in 1 .. n - 1 : k + 1 \in 1 .. n /\ g[k] = f[k + 1] /\ g[k] # o
  BY <1>2, <1>3, <1>6
<1>8. g \in [1 .. n - 1 -> Slots \ HeldSlots']
  BY <1>3, <1>4, <1>6, <1>7
<1>9. \A k, m \in 1 .. n - 1 : g[k] = g[m] => k = m
  BY <1>3, <1>7
<1>10. Slots \ HeldSlots' \subseteq {g[k] : k \in 1 .. n - 1}
  <2> SUFFICES ASSUME NEW x \in Slots \ HeldSlots' PROVE x \in {g[k] : k \in 1 .. n - 1}
    OBVIOUS
  <2>1. PICK k \in 1 .. n : f[k] = x
    BY <1>3, <1>4
  <2>2. k # 1
    BY <1>3, <1>4, <2>1
  <2>3. k - 1 \in 1 .. n - 1 /\ (k - 1) + 1 = k
    BY <1>2, <2>1, <2>2
  <2> QED BY <1>7, <2>1, <2>3
<1>11. free_head' = IF 1 \in 1 .. n - 1 THEN g[1] ELSE Null
  <2>1. 1 \in 1 .. n /\ (1 + 1 \in 1 .. n <=> 1 \in 1 .. n - 1)
    BY <1>2
  <2> QED BY <1>3, <1>5, <1>7, <2>1
<1>12. ASSUME NEW k \in 1 .. n - 1
       PROVE  next'[g[k]] = IF k + 1 \in 1 .. n - 1 THEN g[k + 1] ELSE Null
  <2>1. next'[g[k]] = next[f[k + 1]]
    BY <1>3, <1>5, <1>7
  <2>2. k + 1 \in 1 .. n /\ ((k + 1) + 1 \in 1 .. n <=> k + 1 \in 1 .. n - 1)
    BY <1>2
  <2> QED BY <1>3, <1>7, <2>1, <2>2
<1>13. IsFreeList(g)'
  <2>1. DOMAIN g = 1 .. n - 1
    BY <1>6
  <2> QED
    BY <1>2, <1>8, <1>9, <1>10, <1>11, <1>12, <2>1 DEF IsFreeList, IsInjective
<1> QED BY <1>13 DEF FreeListInv

\* An order that leaves gives its slot up, and the others keep theirs.
LEMMA ReleaseSlots ==
  ASSUME ArenaInv, NEW i \in Live, Live' = Live \ {i},
         slot' = Erase(slot, fields[slot[i]].id)
  PROVE  /\ slot[i] \in Slots
         /\ slot' \in [Live' -> Slots]
         /\ \A j \in Live' : slot'[j] = slot[j] /\ slot'[j] # slot[i]
         /\ HeldSlots' = HeldSlots \ {slot[i]}
         /\ OneSlotEach'
<1>1. fields[slot[i]].id = i
  <2>1. fields[slot[i]] = [id    |-> i,
                           price |-> order_map[i].price,
                           side  |-> order_map[i].side]
    BY DEF ArenaInv, FieldsMatch
  <2> QED BY <2>1
<1>2. slot \in [Live -> Slots]
  BY DEF ArenaInv, ArenaTypeOK
<1>3. /\ slot' \in [Live' -> Slots]
      /\ \A j \in Live' : slot'[j] = slot[j]
  BY <1>1, <1>2 DEF Erase
<1>4. \A j \in Live' : slot[j] # slot[i]
  BY DEF ArenaInv, OneSlotEach
<1>5. HeldSlots' = HeldSlots \ {slot[i]}
  BY <1>3, <1>4 DEF HeldSlots
<1>6. OneSlotEach'
  BY <1>3 DEF ArenaInv, OneSlotEach
<1> QED BY <1>2, <1>3, <1>4, <1>5, <1>6

\* release puts the slot in front of the list, which it was not in.
LEMMA ReleaseFreeList ==
  ASSUME ArenaInv, NEW i \in Live, Live' = Live \ {i}, in_use' = in_use - 1,
         slot' = Erase(slot, fields[slot[i]].id),
         free_head' = slot[i],
         next'[slot[i]] = free_head,
         \A x \in Slots \ HeldSlots : next'[x] = next[x]
  PROVE  FreeListInv'
<1> DEFINE n == PoolSize - in_use
           o == slot[i]
<1>1. PICK f : IsFreeList(f)
  BY DEF ArenaInv, FreeListInv
<1>2. n \in Nat /\ PoolSize - in_use' = n + 1
  BY BookAssumption DEF ArenaInv, BookInv, RoomInv
<1> HIDE DEF n
<1>3. /\ f \in [1 .. n -> Slots \ HeldSlots]
      /\ \A k, m \in 1 .. n : f[k] = f[m] => k = m
      /\ Slots \ HeldSlots \subseteq {f[k] : k \in 1 .. n}
      /\ free_head = IF 1 \in 1 .. n THEN f[1] ELSE Null
      /\ \A k \in 1 .. n : next[f[k]] = IF k + 1 \in 1 .. n THEN f[k + 1] ELSE Null
  BY <1>1, <1>2 DEF IsFreeList, IsInjective, n
<1>4. o \in Slots /\ o \in HeldSlots /\ HeldSlots' = HeldSlots \ {o}
  BY ReleaseSlots DEF HeldSlots
<1>5. PICK g : g = [k \in 1 .. n + 1 |-> IF k = 1 THEN o ELSE f[k - 1]]
  OBVIOUS
<1>6. /\ 1 \in 1 .. n + 1 /\ g[1] = o
      /\ \A k \in 2 .. n + 1 : k - 1 \in 1 .. n /\ g[k] = f[k - 1] /\ g[k] # o
      /\ 1 .. n + 1 = {1} \cup 2 .. n + 1
  BY <1>2, <1>3, <1>4, <1>5
<1>7. g \in [1 .. n + 1 -> Slots \ HeldSlots']
  BY <1>3, <1>4, <1>5, <1>6
<1>8. ASSUME NEW k \in 1 .. n + 1, NEW m \in 1 .. n + 1, g[k] = g[m]
      PROVE  k = m
  <2>1. CASE k = 1 \/ m = 1
    BY <1>6, <1>8, <2>1
  <2>2. CASE k # 1 /\ m # 1
    <3>1. k \in 2 .. n + 1 /\ m \in 2 .. n + 1
      BY <1>2, <2>2
    <3>2. f[k - 1] = f[m - 1] /\ k - 1 \in 1 .. n /\ m - 1 \in 1 .. n
      BY <1>6, <1>8, <3>1
    <3>3. k - 1 = m - 1
      BY <1>3, <3>2
    <3> QED BY <3>1, <3>3
  <2> QED BY <2>1, <2>2
<1>9. Slots \ HeldSlots' \subseteq {g[k] : k \in 1 .. n + 1}
  <2> SUFFICES ASSUME NEW x \in Slots \ HeldSlots' PROVE \E k \in 1 .. n + 1 : g[k] = x
    OBVIOUS
  <2>1. CASE x = o
    BY <1>6, <2>1
  <2>2. CASE x # o
    <3>1. PICK k \in 1 .. n : f[k] = x
      BY <1>3, <1>4, <2>2
    <3>2. k + 1 \in 2 .. n + 1 /\ k + 1 \in 1 .. n + 1 /\ (k + 1) - 1 = k
      BY <1>2, <3>1
    <3> QED BY <1>6, <3>1, <3>2
  <2> QED BY <2>1, <2>2
<1>10. ASSUME NEW k \in 1 .. n + 1
       PROVE  next'[g[k]] = IF k + 1 \in 1 .. n + 1 THEN g[k + 1] ELSE Null
  <2>1. CASE k = 1
    <3>1. 1 + 1 \in 1 .. n + 1 <=> 1 \in 1 .. n
      BY <1>2
    <3>2. 1 \in 1 .. n => 1 + 1 \in 2 .. n + 1 /\ (1 + 1) - 1 = 1
      BY <1>2
    <3> QED BY <1>3, <1>6, <2>1, <3>1, <3>2
  <2>2. CASE k # 1
    <3>1. k \in 2 .. n + 1 /\ k - 1 \in 1 .. n /\ (k - 1) + 1 = k
      BY <1>2, <2>2
    <3>2. g[k] = f[k - 1] /\ f[k - 1] \in Slots \ HeldSlots
      BY <1>3, <1>6, <3>1
    <3>3. next'[g[k]] = IF k \in 1 .. n THEN f[k] ELSE Null
      BY <1>3, <3>1, <3>2
    <3>4. k + 1 \in 1 .. n + 1 <=> k \in 1 .. n
      BY <1>2, <3>1
    <3>5. k \in 1 .. n => k + 1 \in 2 .. n + 1 /\ (k + 1) - 1 = k
      BY <1>2
    <3> QED BY <1>6, <3>3, <3>4, <3>5
  <2> QED BY <2>1, <2>2
<1>11. IsFreeList(g)'
  <2>1. DOMAIN g = 1 .. n + 1
    BY <1>5
  <2>2. free_head' = IF 1 \in DOMAIN g THEN g[1] ELSE Null
    BY <1>6, <2>1
  <2> QED
    BY <1>2, <1>7, <1>8, <1>9, <1>10, <2>1, <2>2 DEF IsFreeList, IsInjective
<1> QED BY <1>11 DEF FreeListInv

-----------------------------------------------------------------------------
(* The lists of the levels                                                 *)

\* A level stays linked when its queue, its orders' slots and the links in
\* these stay what they are.
LEMMA LinkedStays ==
  ASSUME IndInv, ArenaTypeOK, OneSlotEach, NEW s \in Sides, NEW p \in Prices,
         Linked(list[s][p], levels[s][p].queue),
         list'[s][p] = list[s][p],
         levels'[s][p].queue = levels[s][p].queue,
         \A k \in DOMAIN levels[s][p].queue :
           LET i == levels[s][p].queue[k] IN
           /\ slot'[i] = slot[i]
           /\ next'[slot[i]] = next[slot[i]]
           /\ prev'[slot[i]] = prev[slot[i]]
  PROVE  Linked(list[s][p], levels[s][p].queue)'
<1> DEFINE q == levels[s][p].queue
<1>1. PICK r : r = q
  OBVIOUS
<1>2. \A k \in DOMAIN r : At(r, k) = slot[r[k]]
  BY DEF At
<1>3. \A k : At(r, k)' = At(r, k)
  BY <1>1 DEF At
<1>4. \A k \in DOMAIN r : /\ next'[At(r, k)] = next[At(r, k)]
                          /\ prev'[At(r, k)] = prev[At(r, k)]
  BY <1>1, <1>2
<1>5. Linked(list[s][p], r)
  BY <1>1
<1>6. levels'[s][p].queue = r
  BY <1>1
<1> HIDE DEF q
<1>7. /\ list'[s][p].head = At(r, 1)'
      /\ list'[s][p].tail = At(r, Len(r))'
      /\ list'[s][p].count = Len(r)
      /\ \A k \in DOMAIN r : /\ next'[At(r, k)'] = At(r, k + 1)'
                             /\ prev'[At(r, k)'] = At(r, k - 1)'
  <2>1. /\ list[s][p].head = At(r, 1)
        /\ list[s][p].tail = At(r, Len(r))
        /\ list[s][p].count = Len(r)
    BY <1>5 DEF Linked
  <2>2. ASSUME NEW k \in DOMAIN r
        PROVE  next'[At(r, k)'] = At(r, k + 1)' /\ prev'[At(r, k)'] = At(r, k - 1)'
    <3>1. next[At(r, k)] = At(r, k + 1) /\ prev[At(r, k)] = At(r, k - 1)
      BY <1>5 DEF Linked
    <3>2. next'[At(r, k)] = next[At(r, k)] /\ prev'[At(r, k)] = prev[At(r, k)]
      BY <1>4
    <3>3. /\ At(r, k)' = At(r, k)
          /\ At(r, k + 1)' = At(r, k + 1)
          /\ At(r, k - 1)' = At(r, k - 1)
      BY <1>3
    <3> QED BY <3>1, <3>2, <3>3
  <2>3. At(r, 1)' = At(r, 1) /\ At(r, Len(r))' = At(r, Len(r))
    BY <1>3
  <2> QED BY <2>1, <2>2, <2>3
<1> QED BY <1>6, <1>7 DEF Linked

\* acquire writes no link of a slot that a list is in.
LEMMA AcquireLists ==
  ASSUME ArenaInv, NEW c \in Call, c.id \notin Live, Accept(c), Acquire(c)
  PROVE  ListsMatch'
<1> SUFFICES ASSUME NEW s \in Sides, NEW p \in Prices
             PROVE  Linked(list[s][p], levels[s][p].queue)'
  BY DEF ListsMatch, Linked
<1>1. /\ free_head \notin HeldSlots
      /\ \A j \in Live : slot'[j] = slot[j]
  BY FreeHeadIsFree, AcquireSlots DEF Accept
<1>2. \A j \in Live : /\ next'[slot[j]] = next[slot[j]]
                      /\ prev'[slot[j]] = prev[slot[j]]
  BY <1>1 DEF Acquire, HeldSlots, ArenaInv, ArenaTypeOK
<1>3. \A k \in DOMAIN levels[s][p].queue : levels[s][p].queue[k] \in Live
  BY QueueFacts DEF ArenaInv, BookInv
<1>4. Linked(list[s][p], levels[s][p].queue)
  BY ListsAreLinked DEF ArenaInv
<1>5. levels' = levels /\ list' = list
  BY DEF Accept, Acquire
<1> QED BY <1>1, <1>2, <1>3, <1>4, <1>5, LinkedStays DEF ArenaInv, BookInv

\* The slot of an order in one level is linked in no other.
LEMMA OtherLevel ==
  ASSUME IndInv, ArenaTypeOK, OneSlotEach,
         NEW s \in Sides, NEW p \in Prices, NEW t \in Sides, NEW r \in Prices,
         t # s \/ r # p,
         NEW k, NEW m \in DOMAIN levels[t][r].queue
  PROVE  slot[levels[t][r].queue[m]] # At(levels[s][p].queue, k)
<1> DEFINE q == levels[s][p].queue
           u == levels[t][r].queue
<1>1. u[m] \in Live /\ order_map[u[m]].side = t /\ order_map[u[m]].price = r
  BY QueueFacts
<1>2. slot[u[m]] # Null
  BY <1>1, NullIsNoSlot DEF ArenaTypeOK
<1>3. CASE k \in DOMAIN q
  <2>1. q[k] \in Live /\ order_map[q[k]].side = s /\ order_map[q[k]].price = p
    BY <1>3, QueueFacts
  <2>2. At(q, k) = slot[q[k]]
    BY <1>3, AtFacts
  <2> QED BY <1>1, <2>1, <2>2 DEF OneSlotEach
<1>4. CASE k \notin DOMAIN q
  BY <1>2, <1>4, AtFacts
<1> QED BY <1>3, <1>4

\* push_back links an order that no level holds behind the others of its level.
LEMMA PushBackLists ==
  ASSUME ArenaInv, NEW i \in InFlight, i \in Live, NEW s \in Sides, NEW p \in Prices,
         PushBackAt(s, p, slot[i]),
         levels'[s][p].queue = Append(levels[s][p].queue, i),
         \A t \in Sides, r \in Prices : t # s \/ r # p => levels'[t][r] = levels[t][r]
  PROVE  ListsMatch'
<1> SUFFICES \A t \in Sides, r \in Prices : Linked(list[t][r], levels[t][r].queue)'
  BY DEF ListsMatch, Linked
<1>0. IndInv /\ ArenaTypeOK /\ OneSlotEach /\ ListsMatch
  BY DEF ArenaInv, BookInv
<1> DEFINE o == slot[i]
           q == levels[s][p].queue
           n == Len(q)
           tail == list[s][p].tail
           l == [head  |-> IF tail = Null THEN o ELSE list[s][p].head,
                 tail  |-> o,
                 count |-> list[s][p].count + 1]
<1>1. o \in Slots /\ Null \notin Slots
  BY <1>0, NullIsNoSlot DEF ArenaTypeOK
<1>2. /\ list' = [list EXCEPT ![s][p] = l]
      /\ \A x \in Slots : next'[x] = IF x = o THEN Null ELSE IF x = tail THEN o ELSE next[x]
      /\ \A x \in Slots : prev'[x] = IF x = o THEN tail ELSE prev[x]
      /\ slot' = slot
  BY <1>0, <1>1 DEF PushBackAt, ArenaTypeOK
<1> HIDE DEF l
<1>b. /\ list'[s][p] = l
      /\ \A t \in Sides, r \in Prices : t # s \/ r # p => list'[t][r] = list[t][r]
  <2>1. DOMAIN list = Sides /\ \A t \in Sides : DOMAIN list[t] = Prices
    BY <1>0 DEF ArenaTypeOK
  <2>2. list' = [list EXCEPT ![s][p] = l]
    BY <1>2
  <2> HIDE DEF o, tail
  <2> QED BY <2>1, <2>2
<1>3. \A t \in Sides, r \in Prices : Linked(list[t][r], levels[t][r].queue)
  BY <1>0, ListsAreLinked
<1>4. \A t \in Sides, r \in Prices : \A m \in DOMAIN levels[t][r].queue :
        /\ levels[t][r].queue[m] \in Live
        /\ slot[levels[t][r].queue[m]] \in Slots
        /\ slot[levels[t][r].queue[m]] # o
  <2> SUFFICES ASSUME NEW t \in Sides, NEW r \in Prices,
                      NEW m \in DOMAIN levels[t][r].queue
               PROVE  /\ levels[t][r].queue[m] \in Live
                      /\ slot[levels[t][r].queue[m]] \in Slots
                      /\ slot[levels[t][r].queue[m]] # o
    OBVIOUS
  <2>1. levels[t][r].queue[m] \in Live /\ levels[t][r].queue[m] # i
    BY <1>0, QueueFacts
  <2> QED BY <1>0, <2>1 DEF ArenaTypeOK, OneSlotEach
<1>5. ASSUME NEW t \in Sides, NEW r \in Prices, t # s \/ r # p
      PROVE  Linked(list[t][r], levels[t][r].queue)'
  <2>1. \A m \in DOMAIN levels[t][r].queue : slot[levels[t][r].queue[m]] # tail
    <3>1. tail = At(q, n)
      BY <1>3 DEF Linked
    <3> QED BY <1>0, <1>5, <3>1, OtherLevel
  <2>2. list'[t][r] = list[t][r]
    BY <1>b, <1>5
  <2>3. levels'[t][r].queue = levels[t][r].queue
    BY <1>5
  <2>4. \A m \in DOMAIN levels[t][r].queue :
          LET j == levels[t][r].queue[m] IN
          /\ slot'[j] = slot[j]
          /\ next'[slot[j]] = next[slot[j]]
          /\ prev'[slot[j]] = prev[slot[j]]
    BY <1>2, <1>4, <2>1
  <2>5. Linked(list[t][r], levels[t][r].queue)
    BY <1>3
  <2> QED BY <1>0, <2>2, <2>3, <2>4, <2>5, LinkedStays
<1>6. Linked(list[s][p], levels[s][p].queue)'
  <2>1. /\ n \in Nat /\ DOMAIN q = 1 .. n /\ q \in Seq(Ids) /\ i \in Ids
    BY <1>0, QueueFacts DEF IndInv, TypeOK
  <2>0. Linked(list[s][p], q)
    BY <1>3
  <2>2. PICK w : w = Append(q, i)
    OBVIOUS
  <2> HIDE DEF q
  <2>3. /\ Len(w) = n + 1
        /\ DOMAIN w = 1 .. n + 1
        /\ \A k \in 1 .. n : w[k] = q[k]
        /\ w[n + 1] = i
    BY <2>1, <2>2, AppendProperties
  <2>4. /\ \A k \in 1 .. n : At(q, k) = slot[q[k]] /\ At(q, k) \in Slots
        /\ \A k : k \notin 1 .. n => At(q, k) = Null
        /\ \A k, m \in 1 .. n : At(q, k) = At(q, m) => k = m
        /\ \A k \in 1 .. n : At(q, k) # o
    <3>1. DOMAIN levels[s][p].queue = 1 .. n
      BY <2>1 DEF q
    <3>2. /\ \A k \in 1 .. n : At(q, k) = slot[q[k]] /\ At(q, k) \in Slots
          /\ \A k, m \in 1 .. n : At(q, k) = At(q, m) => k = m
      BY <1>0, <3>1, AtFacts DEF q
    <3>3. \A k : k \notin 1 .. n => At(q, k) = Null
      BY <3>1 DEF At, q
    <3>4. \A k \in 1 .. n : slot[q[k]] # o
      BY <1>4, <3>1 DEF q
    <3> QED BY <3>2, <3>3, <3>4
  <2> HIDE DEF o, n
  <2>5. PICK at : at = [k \in 0 .. n + 2 |-> IF k = n + 1 THEN o ELSE At(q, k)]
    OBVIOUS
  <2>6. \A k \in 0 .. n + 2 : Link(slot', w, k) = at[k]
    <3> SUFFICES ASSUME NEW k \in 0 .. n + 2 PROVE Link(slot', w, k) = at[k]
      OBVIOUS
    <3>1. CASE k \in 1 .. n
      <4>1. k \in DOMAIN w /\ w[k] = q[k] /\ k # n + 1
        BY <2>1, <2>3, <3>1 DEF n
      <4> QED BY <1>2, <2>4, <2>5, <3>1, <4>1 DEF Link
    <3>2. CASE k = n + 1
      BY <1>2, <2>1, <2>3, <2>5, <3>2 DEF Link, o, n
    <3>3. CASE k \notin 1 .. n + 1
      <4>1. k \notin 1 .. n /\ k # n + 1
        BY <2>1, <3>3 DEF n
      <4> QED BY <2>3, <2>4, <2>5, <3>3, <4>1 DEF Link
    <3> QED BY <2>1, <3>1, <3>2, <3>3 DEF n
  <2>7. /\ list[s][p].head = At(q, 1) /\ tail = At(q, n) /\ list[s][p].count = n
        /\ \A k \in 1 .. n : next[At(q, k)] = At(q, k + 1) /\ prev[At(q, k)] = At(q, k - 1)
    BY <2>0, <2>1 DEF Linked, n
  <2>8. /\ list'[s][p].head = IF tail = Null THEN o ELSE list[s][p].head
        /\ list'[s][p].tail = o
        /\ list'[s][p].count = list[s][p].count + 1
    BY <1>b DEF o, l
  <2>9. n \in Nat
    BY <2>1 DEF n
  <2>10. tail = Null <=> n = 0
    BY <1>1, <2>4, <2>7, <2>9
  <2>11. list'[s][p].head = at[1] /\ list'[s][p].tail = at[n + 1] /\ list'[s][p].count = n + 1
    BY <2>5, <2>7, <2>8, <2>9, <2>10
  <2>12. ASSUME NEW k \in 1 .. n + 1
         PROVE  next'[at[k]] = at[k + 1] /\ prev'[at[k]] = at[k - 1]
    <3>1. CASE k = n + 1
      <4>1. at[k] = o /\ at[k + 1] = Null /\ at[k - 1] = At(q, n)
        BY <2>4, <2>5, <2>9, <3>1
      <4> QED BY <1>1, <1>2, <2>7, <4>1 DEF o
    <3>2. CASE k \in 1 .. n
      <4>1. /\ at[k] = At(q, k) /\ at[k - 1] = At(q, k - 1)
            /\ at[k + 1] = IF k = n THEN o ELSE At(q, k + 1)
        BY <2>5, <2>9, <3>2
      <4>2. at[k] \in Slots /\ at[k] # o /\ (at[k] = tail <=> k = n)
        BY <2>4, <2>7, <2>9, <3>2, <4>1
      <4> QED BY <1>2, <2>7, <3>2, <4>1, <4>2 DEF o
    <3> QED BY <2>9, <3>1, <3>2
  <2>13. /\ list'[s][p].head = Link(slot', w, 1)
         /\ list'[s][p].tail = Link(slot', w, Len(w))
         /\ list'[s][p].count = Len(w)
         /\ \A k \in DOMAIN w : /\ next'[Link(slot', w, k)] = Link(slot', w, k + 1)
                                /\ prev'[Link(slot', w, k)] = Link(slot', w, k - 1)
    <3>1. /\ 1 \in 0 .. n + 2 /\ n + 1 \in 0 .. n + 2
          /\ \A k \in 1 .. n + 1 : /\ k \in 0 .. n + 2
                                   /\ k + 1 \in 0 .. n + 2
                                   /\ k - 1 \in 0 .. n + 2
      BY <2>9
    <3>2. Len(w) = n + 1 /\ DOMAIN w = 1 .. n + 1
      BY <2>3 DEF n
    <3>3. Link(slot', w, 1) = at[1] /\ Link(slot', w, n + 1) = at[n + 1]
      BY <2>6, <3>1
    <3>4. ASSUME NEW k \in 1 .. n + 1
          PROVE  /\ next'[Link(slot', w, k)] = Link(slot', w, k + 1)
                 /\ prev'[Link(slot', w, k)] = Link(slot', w, k - 1)
      <4>1. /\ Link(slot', w, k) = at[k]
            /\ Link(slot', w, k + 1) = at[k + 1]
            /\ Link(slot', w, k - 1) = at[k - 1]
        BY <2>6, <3>1
      <4> QED BY <2>12, <4>1
    <3> QED BY <2>11, <3>2, <3>3, <3>4
  <2>14. levels'[s][p].queue = w
    BY <2>2 DEF q
  <2> QED BY <2>13, <2>14, LinkedNext
<1> QED BY <1>5, <1>6

\* No level but one changes.
OthersStay(s, p) ==
  \A t \in Sides, r \in Prices : t # s \/ r # p => levels'[t][r] = levels[t][r]

\* remove joins the neighbours of an order, wherever in its list it stood, and
\* what release then writes is in no list any more.
LEMMA RemoveLists ==
  ASSUME ArenaInv, NEW i \in Live, Live' = Live \ {i},
         NEW s \in Sides, NEW p \in Prices,
         NEW k \in DOMAIN levels[s][p].queue, levels[s][p].queue[k] = i,
         RemoveAndRelease(s, p, slot[i]),
         NEW w, levels'[s][p].queue = w, Gap(w, levels[s][p].queue, k), OthersStay(s, p)
  PROVE  ListsMatch'
<1> SUFFICES \A t \in Sides, r \in Prices : Linked(list[t][r], levels[t][r].queue)'
  BY DEF ListsMatch, Linked
<1>1. IndInv /\ ArenaTypeOK /\ OneSlotEach /\ ListsMatch
  BY DEF ArenaInv, BookInv
<1>0. /\ Len(w) = Len(levels[s][p].queue) - 1
      /\ DOMAIN w = 1 .. Len(levels[s][p].queue) - 1
      /\ \A m \in DOMAIN w : w[m] = IF m < k THEN levels[s][p].queue[m]
                                             ELSE levels[s][p].queue[m + 1]
      /\ \A t \in Sides, r \in Prices : t # s \/ r # p => levels'[t][r] = levels[t][r]
  BY DEF Gap, OthersStay
<1> DEFINE o == slot[i]
           q == levels[s][p].queue
           n == Len(q)
           before == prev[o]
           after == next[o]
           l == [head  |-> IF before = Null THEN after ELSE list[s][p].head,
                 tail  |-> IF after = Null THEN before ELSE list[s][p].tail,
                 count |-> list[s][p].count - 1]
<1>2. \A t \in Sides, r \in Prices : Linked(list[t][r], levels[t][r].queue)
  BY <1>1, ListsAreLinked
<1>3. /\ n \in Nat /\ DOMAIN q = 1 .. n /\ k \in 1 .. n
      /\ \A m \in 1 .. n : q[m] \in Live
      /\ \A m \in 1 .. n : q[m] = i => m = k
  BY <1>1, QueueFacts DEF IsInjective
<1>4. /\ \A m \in 1 .. n : At(q, m) = slot[q[m]] /\ At(q, m) \in Slots
      /\ \A m \in 1 .. n : \A j \in 1 .. n : At(q, m) = At(q, j) => m = j
      /\ \A m : m \notin 1 .. n => At(q, m) = Null
  <2>1. DOMAIN levels[s][p].queue = 1 .. n
    BY <1>3
  <2>2. /\ \A m \in 1 .. n : At(q, m) = slot[q[m]] /\ At(q, m) \in Slots
        /\ \A m \in 1 .. n : \A j \in 1 .. n : At(q, m) = At(q, j) => m = j
    BY <1>1, <2>1, AtFacts
  <2>3. \A m : m \notin 1 .. n => At(q, m) = Null
    BY <1>1, <2>1, AtFacts
  <2> QED BY <2>2, <2>3
<1>5. /\ o = At(q, k) /\ before = At(q, k - 1) /\ after = At(q, k + 1)
      /\ o \in Slots /\ Null \notin Slots
  <2>1. o = At(q, k) /\ o \in Slots
    BY <1>3, <1>4
  <2>2. next[At(q, k)] = At(q, k + 1) /\ prev[At(q, k)] = At(q, k - 1)
    BY <1>2, <1>3 DEF Linked
  <2> QED BY <2>1, <2>2, NullIsNoSlot
<1>6. /\ list' = [list EXCEPT ![s][p] = l]
      /\ \A x \in Slots :
           /\ next'[x] = IF x = o THEN free_head ELSE IF x = before THEN after ELSE next[x]
           /\ prev'[x] = IF x = o THEN Null ELSE IF x = after THEN before ELSE prev[x]
      /\ slot' = Erase(slot, fields[o].id)
  BY <1>5 DEF RemoveAndRelease, Release
<1> HIDE DEF l
<1>7. /\ list'[s][p] = l
      /\ \A t \in Sides, r \in Prices : t # s \/ r # p => list'[t][r] = list[t][r]
  <2>1. list' = [list EXCEPT ![s][p] = l]
    BY <1>6
  <2>2. DOMAIN list = Sides /\ \A t \in Sides : DOMAIN list[t] = Prices
    BY <1>1 DEF ArenaTypeOK
  <2> QED BY <2>1, <2>2
<1>8. \A j \in Live \ {i} : slot'[j] = slot[j]
  BY <1>6, ReleaseSlots
<1>9. ASSUME NEW t \in Sides, NEW r \in Prices, t # s \/ r # p
      PROVE  Linked(list[t][r], levels[t][r].queue)'
  <2> DEFINE u == levels[t][r].queue
  <2>1. \A m \in DOMAIN u : /\ slot[u[m]] # At(q, k)
                            /\ slot[u[m]] # At(q, k - 1)
                            /\ slot[u[m]] # At(q, k + 1)
    <3>1. \A j : \A m \in DOMAIN u : slot[u[m]] # At(q, j)
      BY <1>1, <1>9, OtherLevel
    <3> QED BY <3>1
  <2>2. \A m \in DOMAIN u : u[m] \in Live /\ slot[u[m]] \in Slots
    BY <1>1, QueueFacts DEF ArenaTypeOK
  <2>3. \A m \in DOMAIN u : /\ slot'[u[m]] = slot[u[m]]
                            /\ next'[slot[u[m]]] = next[slot[u[m]]]
                            /\ prev'[slot[u[m]]] = prev[slot[u[m]]]
    <3> SUFFICES ASSUME NEW m \in DOMAIN u
                 PROVE  /\ slot'[u[m]] = slot[u[m]]
                        /\ next'[slot[u[m]]] = next[slot[u[m]]]
                        /\ prev'[slot[u[m]]] = prev[slot[u[m]]]
      OBVIOUS
    <3> DEFINE x == slot[u[m]]
    <3>1. x \in Slots /\ x # o /\ x # before /\ x # after
      BY <1>5, <2>1, <2>2
    <3>2. u[m] \in Live \ {i}
      BY <2>2, <3>1
    <3>3. slot'[u[m]] = x
      BY <1>8, <3>2
    <3> HIDE DEF x, o, before, after
    <3>4. next'[x] = next[x] /\ prev'[x] = prev[x]
      BY <1>6, <3>1
    <3> QED BY <3>3, <3>4 DEF x
  <2>4. list'[t][r] = list[t][r] /\ levels'[t][r].queue = u
    BY <1>0, <1>7, <1>9
  <2>5. Linked(list[t][r], u)
    BY <1>2
  <2> QED BY <1>1, <2>3, <2>4, <2>5, LinkedStays
<1>10. Linked(list[s][p], levels[s][p].queue)'
  <2>1. Linked(list[s][p], q) /\ DOMAIN w = 1 .. n - 1 /\ Len(w) = n - 1
    BY <1>0, <1>2
  <2>2. \A m \in 1 .. n - 1 : w[m] = IF m < k THEN q[m] ELSE q[m + 1]
    BY <1>0, <2>1
  <2>3. levels'[s][p].queue = w
    OBVIOUS
  <2> HIDE DEF q, n, o, before, after
  <2>4. PICK at : at = [m \in 0 .. n |-> IF m < k THEN At(q, m) ELSE At(q, m + 1)]
    OBVIOUS
  <2>5. ASSUME NEW m \in 0 .. n PROVE Link(slot', w, m) = at[m]
    <3>1. CASE m \in 1 .. n - 1
      <4>1. PICK j \in 1 .. n : j = IF m < k THEN m ELSE m + 1
        BY <1>3, <3>1
      <4>2. j # k /\ w[m] = q[j] /\ at[m] = At(q, j)
        BY <1>3, <2>2, <2>4, <3>1, <4>1
      <4>3. slot'[q[j]] = slot[q[j]]
        BY <1>3, <1>8, <4>2
      <4> QED BY <1>4, <2>1, <3>1, <4>2, <4>3 DEF Link
    <3>2. CASE m = 0 \/ m = n
      <4>1. at[m] = Null
        BY <1>3, <1>4, <2>4, <3>2
      <4>2. m \notin 1 .. n - 1
        BY <1>3, <3>2
      <4> QED BY <2>1, <4>1, <4>2 DEF Link
    <3> QED BY <1>3, <3>1, <3>2
  <2>6. /\ list[s][p].head = At(q, 1) /\ list[s][p].tail = At(q, n) /\ list[s][p].count = n
        /\ \A m \in 1 .. n : next[At(q, m)] = At(q, m + 1) /\ prev[At(q, m)] = At(q, m - 1)
    BY <1>3, <2>1 DEF Linked, n
  <2>7. (before = Null <=> k = 1) /\ (after = Null <=> k = n)
    BY <1>3, <1>4, <1>5
  <2>8. l.head = at[1] /\ l.tail = at[n - 1] /\ l.count = n - 1
    <3>1. l.head = at[1]
      <4>1. CASE k = 1
        BY <1>3, <1>5, <2>4, <2>7, <4>1 DEF l
      <4>2. CASE k # 1
        BY <1>3, <2>4, <2>6, <2>7, <4>2 DEF l
      <4> QED BY <4>1, <4>2
    <3>2. l.tail = at[n - 1]
      <4>1. CASE k = n
        BY <1>3, <1>5, <2>4, <2>7, <4>1 DEF l
      <4>2. CASE k # n
        BY <1>3, <2>4, <2>6, <2>7, <4>2 DEF l
      <4> QED BY <4>1, <4>2
    <3> QED BY <2>6, <3>1, <3>2 DEF l
  <2>9. ASSUME NEW m \in 1 .. n - 1
        PROVE  next'[at[m]] = at[m + 1] /\ prev'[at[m]] = at[m - 1]
    <3>1. CASE m < k
      <4>1. /\ m \in 1 .. n /\ at[m] = At(q, m) /\ at[m - 1] = At(q, m - 1)
            /\ at[m + 1] = IF m = k - 1 THEN At(q, k + 1) ELSE At(q, m + 1)
        <5>1. m \in 0 .. n /\ m - 1 \in 0 .. n /\ m + 1 \in 0 .. n /\ m - 1 < k /\ m \in 1 .. n
          BY <1>3, <3>1
        <5>2. CASE m = k - 1
          <6>1. m + 1 = k /\ ~ (k < k)
            BY <1>3, <5>2
          <6> QED BY <2>4, <3>1, <5>1, <5>2, <6>1
        <5>3. CASE m # k - 1
          <6>1. m + 1 < k
            BY <1>3, <3>1, <5>3
          <6> QED BY <2>4, <3>1, <5>1, <5>3, <6>1
        <5> QED BY <5>2, <5>3
      <4>2. at[m] # o /\ (at[m] = before <=> m = k - 1) /\ at[m] # after
        <5>1. m \in 1 .. n /\ k - 1 \in 1 .. n /\ m # k /\ m # k + 1
          BY <1>3, <3>1
        <5>2. at[m] # At(q, k) /\ (at[m] = At(q, k - 1) <=> m = k - 1) /\ at[m] \in Slots
          BY <1>3, <1>4, <4>1, <5>1
        <5>3. at[m] # At(q, k + 1)
          <6>1. CASE k + 1 \in 1 .. n
            BY <1>4, <4>1, <5>1, <6>1
          <6>2. CASE k + 1 \notin 1 .. n
            BY <1>4, <1>5, <5>2, <6>2
          <6> QED BY <6>1, <6>2
        <5> QED BY <1>5, <5>2, <5>3
      <4> QED BY <1>4, <1>5, <1>6, <2>6, <4>1, <4>2
    <3>2. CASE ~ (m < k)
      <4>1. /\ m + 1 \in 1 .. n /\ at[m] = At(q, m + 1) /\ at[m + 1] = At(q, (m + 1) + 1)
            /\ at[m - 1] = IF m = k THEN At(q, k - 1) ELSE At(q, (m + 1) - 1)
        <5>1. /\ m \in 0 .. n /\ m - 1 \in 0 .. n /\ m + 1 \in 0 .. n /\ m + 1 \in 1 .. n
              /\ ~ (m + 1 < k) /\ (m + 1) - 1 = m
          BY <1>3, <3>2
        <5>2. at[m] = At(q, m + 1) /\ at[m + 1] = At(q, (m + 1) + 1)
          BY <2>4, <3>2, <5>1
        <5>3. CASE m = k
          <6>1. m - 1 < k /\ m - 1 = k - 1
            BY <1>3, <5>3
          <6> QED BY <2>4, <5>1, <5>2, <5>3, <6>1
        <5>4. CASE m # k
          <6>1. ~ (m - 1 < k) /\ (m - 1) + 1 = m
            BY <1>3, <3>2, <5>4
          <6> QED BY <2>4, <5>1, <5>2, <5>4, <6>1
        <5> QED BY <5>3, <5>4
      <4>2. at[m] # o /\ at[m] # before /\ (at[m] = after <=> m = k)
        BY <1>3, <1>4, <1>5, <3>2, <4>1
      <4> QED BY <1>4, <1>5, <1>6, <2>6, <4>1, <4>2
    <3> QED BY <3>1, <3>2
  <2>10. /\ list'[s][p].head = Link(slot', w, 1)
         /\ list'[s][p].tail = Link(slot', w, Len(w))
         /\ list'[s][p].count = Len(w)
         /\ \A m \in DOMAIN w : /\ next'[Link(slot', w, m)] = Link(slot', w, m + 1)
                                /\ prev'[Link(slot', w, m)] = Link(slot', w, m - 1)
    <3>1. /\ 1 \in 0 .. n /\ n - 1 \in 0 .. n
          /\ \A m \in 1 .. n - 1 : m \in 0 .. n /\ m + 1 \in 0 .. n /\ m - 1 \in 0 .. n
      BY <1>3
    <3>2. Link(slot', w, 1) = at[1] /\ Link(slot', w, n - 1) = at[n - 1]
      BY <2>5, <3>1
    <3>3. ASSUME NEW m \in 1 .. n - 1
          PROVE  /\ next'[Link(slot', w, m)] = Link(slot', w, m + 1)
                 /\ prev'[Link(slot', w, m)] = Link(slot', w, m - 1)
      <4>1. /\ Link(slot', w, m) = at[m]
            /\ Link(slot', w, m + 1) = at[m + 1]
            /\ Link(slot', w, m - 1) = at[m - 1]
        BY <2>5, <3>1
      <4> QED BY <2>9, <4>1
    <3> QED BY <1>7, <2>1, <2>8, <3>2, <3>3
  <2> QED BY <2>3, <2>10, LinkedNext
<1> QED BY <1>9, <1>10

-----------------------------------------------------------------------------
(* Every step keeps the invariant.                                         *)

ListType == [head : Pointers, tail : Pointers, count : Int]

LEMMA AcquireInv ==
  ASSUME ArenaInv, [Next]_vars, NEW c \in Call, c.id \notin Live, Accept(c), Acquire(c)
  PROVE  ArenaInv'
<1> DEFINE o == free_head
           new == [id |-> c.id, price |-> c.price, side |-> c.side]
<1>1. /\ o \in Slots /\ o \notin HeldSlots
  BY FreeHeadIsFree DEF Accept
<1>2. /\ Live' = Live \cup {c.id}
      /\ slot' \in [Live' -> Slots]
      /\ slot'[c.id] = o
      /\ \A j \in Live : slot'[j] = slot[j]
  BY AcquireSlots
<1>3. ArenaTypeOK
  BY DEF ArenaInv
<1>4. new \in Fields
  <2>1. c.price < MaxPriceLevels
    BY DEF Accept
  <2> QED BY <2>1, BookAssumption DEF Call, Fields, Prices
<1>5. fields' = [fields EXCEPT ![o] = new]
  BY DEF Acquire
<1> HIDE DEF new
<1>6. ArenaTypeOK'
  <2>1. fields' \in [Slots -> Fields \cup {Unused}]
    BY <1>3, <1>4, <1>5 DEF ArenaTypeOK
  <2>2. /\ next' \in [Slots -> Pointers] /\ prev' \in [Slots -> Pointers]
        /\ free_head' \in Pointers /\ list' = list
    BY <1>1, <1>3 DEF Acquire, ArenaTypeOK, Pointers
  <2> QED BY <1>2, <1>3, <2>1, <2>2 DEF ArenaTypeOK
<1>7. FieldsMatch'
  <2>1. /\ order_map'[c.id] = [price |-> c.price, remaining |-> c.qty, side |-> c.side]
        /\ \A j \in Live : order_map'[j] = order_map[j]
    BY DEF Accept, Insert, Live
  <2>2. fields'[o] = new /\ \A x \in Slots \ {o} : fields'[x] = fields[x]
    BY <1>1, <1>3, <1>5 DEF ArenaTypeOK
  <2>3. \A j \in Live : slot[j] \in Slots \ {o}
    BY <1>1, <1>3 DEF HeldSlots, ArenaTypeOK
  <2>4. ASSUME NEW j \in Live
        PROVE  fields'[slot'[j]] = [id    |-> j,
                                    price |-> order_map'[j].price,
                                    side  |-> order_map'[j].side]
    <3>1. fields'[slot'[j]] = fields[slot[j]]
      BY <1>2, <2>2, <2>3
    <3>2. fields[slot[j]] = [id    |-> j,
                             price |-> order_map[j].price,
                             side  |-> order_map[j].side]
      BY DEF ArenaInv, FieldsMatch
    <3> QED BY <2>1, <3>1, <3>2
  <2>5. fields'[slot'[c.id]] = [id    |-> c.id,
                                price |-> order_map'[c.id].price,
                                side  |-> order_map'[c.id].side]
    BY <1>2, <2>1, <2>2 DEF new
  <2> QED BY <1>2, <2>4, <2>5 DEF FieldsMatch
<1>8. BookInv'
  BY BookInvStep DEF ArenaInv
<1> QED BY <1>6, <1>7, <1>8, AcquireSlots, AcquireLists, AcquireFreeList DEF ArenaInv

\* Steps of the book that leave memory, levels and the terms of orders alone.
LEMMA QuietArena ==
  ASSUME ArenaInv, [Next]_vars, UNCHANGED arenaVars, Live' = Live, in_use' = in_use,
         \A j \in Live : /\ order_map'[j].price = order_map[j].price
                         /\ order_map'[j].side = order_map[j].side,
         \A s \in Sides, p \in Prices : levels'[s][p].queue = levels[s][p].queue
  PROVE  ArenaInv'
<1>1. UNCHANGED <<slot, fields, next, prev, free_head, list>>
  BY DEF arenaVars
<1>2. BookInv'
  BY BookInvStep DEF ArenaInv
<1>3. ArenaTypeOK' /\ OneSlotEach'
  BY <1>1 DEF ArenaInv, ArenaTypeOK, OneSlotEach
<1>4. FieldsMatch'
  BY <1>1 DEF ArenaInv, FieldsMatch
<1>5. FreeListInv'
  <2>1. PICK f : IsFreeList(f)
    BY DEF ArenaInv, FreeListInv
  <2>2. HeldSlots' = HeldSlots
    BY <1>1 DEF HeldSlots
  <2>3. IsFreeList(f)'
    BY <1>1, <2>1, <2>2 DEF IsFreeList
  <2> QED BY <2>3 DEF FreeListInv
<1>6. ListsMatch'
  <2> SUFFICES ASSUME NEW s \in Sides, NEW p \in Prices
               PROVE  Linked(list[s][p], levels[s][p].queue)'
    BY DEF ListsMatch, Linked
  <2>1. Linked(list[s][p], levels[s][p].queue)
    BY ListsAreLinked DEF ArenaInv
  <2> QED BY <1>1, <2>1, LinkedStays DEF ArenaInv, BookInv
<1> QED BY <1>2, <1>3, <1>4, <1>5, <1>6 DEF ArenaInv

\* A slot that is given back because the table is full was free, and is again:
\* no order's fields and no link of a list or of the free list is written.
LEMMA RefusedArena ==
  ASSUME ArenaInv, ArenaInsertRefused
  PROVE  ArenaInv' /\ free_head \in Slots \ HeldSlots
<1>1. free_head \in Slots \ HeldSlots
  <2>1. PICK f : IsFreeList(f)
    BY DEF ArenaInv, FreeListInv
  <2>2. free_head # Null
    BY DEF ArenaInsertRefused
  <2>3. 1 \in DOMAIN f /\ free_head = f[1]
    BY <2>1, <2>2 DEF IsFreeList
  <2> QED BY <2>1, <2>3 DEF IsFreeList
<1>2. /\ UNCHANGED <<vars, slot, next, free_head, list>>
      /\ prev' = [prev EXCEPT ![free_head] = Null]
  BY DEF ArenaInsertRefused
<1>3. UNCHANGED <<order_map, in_use, levels>>
  BY <1>2 DEF vars
<1>4. PICK new \in Fields : fields' = [fields EXCEPT ![free_head] = new]
  <2>1. PICK c \in Call :
          /\ c.price < MaxPriceLevels
          /\ fields' = [fields EXCEPT ![free_head] =
                          [id |-> c.id, price |-> c.price, side |-> c.side]]
    BY DEF ArenaInsertRefused
  <2>2. [id |-> c.id, price |-> c.price, side |-> c.side] \in Fields
    BY <2>1, BookAssumption DEF Call, Fields, Prices
  <2> QED BY <2>1, <2>2
<1>5. ArenaTypeOK
  BY DEF ArenaInv
<1>6. \A j \in Live : /\ fields'[slot[j]] = fields[slot[j]]
                      /\ prev'[slot[j]] = prev[slot[j]]
  BY <1>1, <1>2, <1>4, <1>5 DEF HeldSlots, ArenaTypeOK
<1>7. BookInv'
  BY <1>2, BookInvStep DEF ArenaInv
<1>8. ArenaTypeOK'
  <2>1. fields' \in [Slots -> Fields \cup {Unused}]
    BY <1>4, <1>5 DEF ArenaTypeOK
  <2>2. prev' \in [Slots -> Pointers]
    BY <1>2, <1>5 DEF ArenaTypeOK, Pointers
  <2> QED BY <1>2, <1>3, <1>5, <2>1, <2>2 DEF ArenaTypeOK, Live
<1>9. OneSlotEach' /\ FieldsMatch'
  BY <1>2, <1>3, <1>6 DEF ArenaInv, OneSlotEach, FieldsMatch, Live
<1>10. FreeListInv'
  <2>1. PICK f : IsFreeList(f)
    BY DEF ArenaInv, FreeListInv
  <2>2. HeldSlots' = HeldSlots
    BY <1>2, <1>3 DEF HeldSlots, Live
  <2>3. IsFreeList(f)'
    BY <1>2, <1>3, <2>1, <2>2 DEF IsFreeList
  <2> QED BY <2>3 DEF FreeListInv
<1>11. ListsMatch'
  <2> SUFFICES ASSUME NEW s \in Sides, NEW p \in Prices
               PROVE  Linked(list[s][p], levels[s][p].queue)'
    BY DEF ListsMatch, Linked
  <2>1. Linked(list[s][p], levels[s][p].queue)
    BY ListsAreLinked DEF ArenaInv
  <2>2. \A k \in DOMAIN levels[s][p].queue : levels[s][p].queue[k] \in Live
    BY QueueFacts DEF ArenaInv, BookInv
  <2> QED BY <1>2, <1>3, <1>6, <2>1, <2>2, LinkedStays DEF ArenaInv, BookInv
<1> QED BY <1>1, <1>7, <1>8, <1>9, <1>10, <1>11 DEF ArenaInv

\* An order leaves the list it is in, and its slot.
LEMMA RemoveInv ==
  ASSUME ArenaInv, [Next]_vars,
         NEW i \in Live, Live' = Live \ {i}, in_use' = in_use - 1,
         \A j \in Live' : /\ order_map'[j].price = order_map[j].price
                          /\ order_map'[j].side = order_map[j].side,
         NEW s \in Sides, NEW p \in Prices, RemoveAndRelease(s, p, slot[i]),
         NEW k \in DOMAIN levels[s][p].queue, levels[s][p].queue[k] = i,
         ListsMatch'
  PROVE  ArenaInv'
<1> DEFINE o == slot[i]
           before == prev[o]
           after == next[o]
           l == [head  |-> IF before = Null THEN after ELSE list[s][p].head,
                 tail  |-> IF after = Null THEN before ELSE list[s][p].tail,
                 count |-> list[s][p].count - 1]
<1>1. ArenaTypeOK
  BY DEF ArenaInv
<1>2. o \in Slots /\ before \in Pointers /\ after \in Pointers /\ free_head \in Pointers
  BY <1>1 DEF ArenaTypeOK
<1>3. /\ list' = [list EXCEPT ![s][p] = l]
      /\ next' = [x \in Slots |-> IF x = o THEN free_head
                                  ELSE IF x = before THEN after ELSE next[x]]
      /\ prev' = [x \in Slots |-> IF x = o THEN Null
                                  ELSE IF x = after THEN before ELSE prev[x]]
      /\ free_head' = o
      /\ slot' = Erase(slot, fields[o].id)
      /\ fields' = fields
  BY <1>2 DEF RemoveAndRelease, Release
<1>4. /\ slot' \in [Live' -> Slots]
      /\ \A j \in Live' : slot'[j] = slot[j]
      /\ OneSlotEach'
  BY <1>3, ReleaseSlots
<1>5. ArenaTypeOK'
  <2>1. l \in ListType
    <3>1. list[s][p] \in ListType
      BY <1>1 DEF ArenaTypeOK, ListType
    <3> HIDE DEF before, after
    <3> QED BY <1>2, <3>1 DEF ListType
  <2>2. list \in [Sides -> [Prices -> ListType]]
    BY <1>1 DEF ArenaTypeOK, ListType
  <2> HIDE DEF l
  <2>3. list' \in [Sides -> [Prices -> ListType]]
    BY <1>3, <2>1, <2>2
  <2>4. next' \in [Slots -> Pointers] /\ prev' \in [Slots -> Pointers]
    <3> HIDE DEF o, before, after
    <3> QED BY <1>1, <1>2, <1>3 DEF ArenaTypeOK, Pointers
  <2>5. free_head' \in Pointers
    BY <1>2, <1>3 DEF Pointers
  <2> QED BY <1>1, <1>3, <1>4, <2>3, <2>4, <2>5 DEF ArenaTypeOK, ListType
<1>6. FieldsMatch'
  <2>1. \A j \in Live' : j \in Live /\ fields[slot[j]] = [id    |-> j,
                                                         price |-> order_map[j].price,
                                                         side  |-> order_map[j].side]
    BY DEF ArenaInv, FieldsMatch
  <2> QED BY <1>3, <1>4, <2>1 DEF FieldsMatch
<1>7. FreeListInv'
  <2>1. before \notin Slots \ HeldSlots
    <3> DEFINE q == levels[s][p].queue
    <3>1. Linked(list[s][p], q) /\ At(q, k) = o
      BY ListsAreLinked DEF ArenaInv, At
    <3>2. before = At(q, k - 1)
      BY <3>1 DEF Linked
    <3>3. CASE k - 1 \in DOMAIN q
      <4>1. q[k - 1] \in Live
        BY <3>3, QueueFacts DEF ArenaInv, BookInv
      <4> QED BY <3>2, <3>3, <4>1 DEF At, HeldSlots
    <3>4. CASE k - 1 \notin DOMAIN q
      BY <3>2, <3>4, NullIsNoSlot DEF At
    <3> QED BY <3>3, <3>4
  <2>2. next'[o] = free_head
    BY <1>2, <1>3
  <2>3. \A x \in Slots \ HeldSlots : x # o /\ x # before
    BY <2>1 DEF HeldSlots
  <2>4. \A x \in Slots \ HeldSlots : next'[x] = next[x]
    BY <1>3, <2>3
  <2> QED BY <1>3, <2>2, <2>4, ReleaseFreeList
<1>8. BookInv'
  BY BookInvStep DEF ArenaInv
<1> QED BY <1>4, <1>5, <1>6, <1>7, <1>8 DEF ArenaInv

\* The rest of an order joins its level.
LEMMA RestArena ==
  ASSUME ArenaInv, ArenaRestRemainder
  PROVE  ArenaInv'
<1> DEFINE i == call.id
           s == order_map[i].side
           p == order_map[i].price
           o == slot[i]
<1>1. IndInv /\ ArenaTypeOK /\ OneSlotEach
  BY DEF ArenaInv, BookInv
<1>2. /\ pc = "finish" /\ i \in Live /\ i \in InFlight
      /\ s \in Sides /\ p \in Prices
      /\ UNCHANGED <<order_map, in_use>>
      /\ RestRemainder
  <2>1. RestRemainder /\ pc = "finish" /\ UNCHANGED <<order_map, in_use>>
    BY DEF ArenaRestRemainder, RestRemainder
  <2>2. i \in Live
    BY <1>1, <2>1 DEF IndInv, CallOK
  <2>3. order_map[i] \in Order
    BY <1>1, <2>2 DEF IndInv, TypeOK
  <2> QED BY <2>1, <2>2, <2>3 DEF Order, InFlight
<1>3. fields[o].side = s /\ fields[o].price = p
  <2>1. fields[o] = [id |-> i, price |-> p, side |-> s]
    BY <1>2 DEF ArenaInv, FieldsMatch
  <2> QED BY <2>1
<1>4. PushBackAt(s, p, o)
  BY <1>3 DEF ArenaRestRemainder
<1>5. /\ levels'[s][p].queue = Append(levels[s][p].queue, i)
      /\ \A t \in Sides, r \in Prices : t # s \/ r # p => levels'[t][r] = levels[t][r]
  <2> DEFINE v == PushBack(levels[s][p], i, order_map[i].remaining)
  <2>1. levels' = [levels EXCEPT ![s][p] = v]
    BY <1>2 DEF RestRemainder
  <2>2. v.queue = Append(levels[s][p].queue, i)
    BY DEF PushBack
  <2>3. DOMAIN levels = Sides /\ \A t \in Sides : DOMAIN levels[t] = Prices
    BY <1>1 DEF IndInv, TypeOK
  <2> HIDE DEF v, s, p
  <2>4. /\ levels'[s][p] = v
        /\ \A t \in Sides, r \in Prices : t # s \/ r # p => levels'[t][r] = levels[t][r]
    BY <1>2, <2>1, <2>3
  <2> QED BY <2>2, <2>4
<1> HIDE DEF i, s, p
<1>6. ListsMatch'
  BY <1>2, <1>4, <1>5, PushBackLists DEF o
<1>7. BookInv'
  BY <1>2, BookInvStep DEF ArenaInv, Next, Proceed
<1>8. o \in Slots /\ o \in HeldSlots
  BY <1>1, <1>2 DEF ArenaTypeOK, HeldSlots
<1> DEFINE tail == list[s][p].tail
           l == [head  |-> IF tail = Null THEN o ELSE list[s][p].head,
                 tail  |-> o,
                 count |-> list[s][p].count + 1]
<1>9. /\ list' = [list EXCEPT ![s][p] = l]
      /\ next' = [x \in Slots |-> IF x = o THEN Null ELSE IF x = tail THEN o ELSE next[x]]
      /\ prev' = [prev EXCEPT ![o] = tail]
      /\ UNCHANGED <<slot, fields, free_head>>
  BY <1>4 DEF PushBackAt
<1>10. tail \in Pointers
  BY <1>1, <1>2 DEF ArenaTypeOK
<1>11. ArenaTypeOK'
  <2>1. l \in ListType
    <3>1. list[s][p] \in ListType
      BY <1>1, <1>2 DEF ArenaTypeOK, ListType
    <3> HIDE DEF o
    <3> QED BY <1>8, <3>1 DEF ListType, Pointers
  <2>2. list \in [Sides -> [Prices -> ListType]]
    BY <1>1 DEF ArenaTypeOK, ListType
  <2> HIDE DEF l
  <2>3. list' \in [Sides -> [Prices -> ListType]]
    BY <1>9, <2>1, <2>2
  <2>4. next' \in [Slots -> Pointers] /\ prev' \in [Slots -> Pointers]
    <3> HIDE DEF o, tail
    <3> QED BY <1>1, <1>8, <1>9, <1>10 DEF ArenaTypeOK, Pointers
  <2>5. Live' = Live
    BY <1>2 DEF Live
  <2> QED BY <1>1, <1>9, <2>3, <2>4, <2>5 DEF ArenaTypeOK, ListType
<1>12. OneSlotEach' /\ FieldsMatch'
  BY <1>2, <1>9 DEF ArenaInv, OneSlotEach, FieldsMatch, Live
<1>13. FreeListInv'
  <2>1. PICK f : IsFreeList(f)
    BY DEF ArenaInv, FreeListInv
  <2>2. HeldSlots' = HeldSlots /\ in_use' = in_use
    BY <1>2, <1>9 DEF HeldSlots, Live
  <2>3. tail \notin Slots \ HeldSlots
    <3> DEFINE q == levels[s][p].queue
    <3>1. tail = At(q, Len(q))
      BY <1>2, ListsAreLinked DEF ArenaInv, Linked
    <3>2. CASE Len(q) \in DOMAIN q
      <4>1. q[Len(q)] \in Live
        BY <1>1, <1>2, <3>2, QueueFacts
      <4> QED BY <3>1, <3>2, <4>1 DEF At, HeldSlots
    <3>3. CASE Len(q) \notin DOMAIN q
      BY <3>1, <3>3, NullIsNoSlot DEF At
    <3> QED BY <3>2, <3>3
  <2>4. \A x \in Slots \ HeldSlots : next'[x] = next[x]
    <3>1. \A x \in Slots \ HeldSlots : x # o /\ x # tail
      BY <1>8, <2>3
    <3> QED BY <1>9, <3>1
  <2>5. \A k \in DOMAIN f : f[k] \in Slots \ HeldSlots
    BY <2>1 DEF IsFreeList
  <2>6. IsFreeList(f)'
    BY <1>9, <2>1, <2>2, <2>4, <2>5 DEF IsFreeList
  <2> QED BY <2>6 DEF FreeListInv
<1> QED BY <1>6, <1>7, <1>11, <1>12, <1>13 DEF ArenaInv

\* A filled aggressor gives back a slot that no list is in.
LEMMA ReclaimArena ==
  ASSUME ArenaInv, ArenaReclaimFilled
  PROVE  ArenaInv'
<1> DEFINE i == call.id
           o == slot[i]
<1>1. IndInv /\ ArenaTypeOK /\ OneSlotEach
  BY DEF ArenaInv, BookInv
<1>2. /\ ReclaimFilled /\ i \in Live /\ i \in InFlight
      /\ Live' = Live \ {i} /\ in_use' = in_use - 1
      /\ \A j \in Live' : order_map'[j] = order_map[j]
      /\ levels' = levels
  <2>1. /\ ReclaimFilled /\ pc = "finish" /\ order_map' = Erase(order_map, i)
        /\ in_use' = in_use - 1 /\ levels' = levels
    BY DEF ArenaReclaimFilled, ReclaimFilled
  <2>2. i \in Live /\ i \in InFlight
    BY <1>1, <2>1 DEF IndInv, CallOK, InFlight
  <2> QED BY <2>1, <2>2 DEF Erase, Live
<1>3. /\ next' = [next EXCEPT ![o] = free_head]
      /\ prev' = [prev EXCEPT ![o] = Null]
      /\ free_head' = o
      /\ slot' = Erase(slot, fields[o].id)
      /\ fields' = fields /\ list' = list
  BY DEF ArenaReclaimFilled, Release
<1> HIDE DEF i
<1>4. /\ o \in Slots
      /\ slot' \in [Live' -> Slots]
      /\ \A j \in Live' : slot'[j] = slot[j]
      /\ OneSlotEach'
  BY <1>2, <1>3, ReleaseSlots
<1>5. BookInv'
  BY <1>2, BookInvStep DEF ArenaInv, Next, Proceed
<1>6. ArenaTypeOK'
  BY <1>1, <1>3, <1>4 DEF ArenaTypeOK, Pointers
<1>7. FieldsMatch'
  <2>1. \A j \in Live' : j \in Live /\ fields[slot[j]] = [id    |-> j,
                                                         price |-> order_map[j].price,
                                                         side  |-> order_map[j].side]
    BY <1>2 DEF ArenaInv, FieldsMatch
  <2> QED BY <1>2, <1>3, <1>4, <2>1 DEF FieldsMatch
<1>8. FreeListInv'
  <2>1. next'[o] = free_head
    BY <1>1, <1>3, <1>4 DEF ArenaTypeOK
  <2>2. \A x \in Slots \ HeldSlots : next'[x] = next[x]
    BY <1>1, <1>2, <1>3 DEF ArenaTypeOK, HeldSlots
  <2> QED BY <1>2, <1>3, <2>1, <2>2, ReleaseFreeList
<1>9. ListsMatch'
  <2> SUFFICES ASSUME NEW s \in Sides, NEW p \in Prices
               PROVE  Linked(list[s][p], levels[s][p].queue)'
    BY DEF ListsMatch, Linked
  <2> DEFINE q == levels[s][p].queue
  <2>1. \A m \in DOMAIN q : q[m] \in Live /\ q[m] # i
    BY <1>1, <1>2, QueueFacts
  <2>2. \A m \in DOMAIN q : slot[q[m]] \in Slots /\ slot[q[m]] # o
    BY <1>1, <1>2, <2>1 DEF ArenaTypeOK, OneSlotEach
  <2>3. \A m \in DOMAIN q : /\ slot'[q[m]] = slot[q[m]]
                            /\ next'[slot[q[m]]] = next[slot[q[m]]]
                            /\ prev'[slot[q[m]]] = prev[slot[q[m]]]
    <3> SUFFICES ASSUME NEW m \in DOMAIN q
                 PROVE  /\ slot'[q[m]] = slot[q[m]]
                        /\ next'[slot[q[m]]] = next[slot[q[m]]]
                        /\ prev'[slot[q[m]]] = prev[slot[q[m]]]
      OBVIOUS
    <3>1. slot'[q[m]] = slot[q[m]]
      BY <1>2, <1>4, <2>1
    <3>2. slot[q[m]] \in Slots /\ slot[q[m]] # o
      BY <2>2
    <3> HIDE DEF o
    <3> QED BY <1>1, <1>3, <3>1, <3>2 DEF ArenaTypeOK
  <2>4. Linked(list[s][p], q)
    BY ListsAreLinked DEF ArenaInv
  <2> QED BY <1>1, <1>2, <1>3, <2>3, <2>4, LinkedStays
<1> QED BY <1>4, <1>5, <1>6, <1>7, <1>8, <1>9 DEF ArenaInv

\* cancel_order, alone or as the first half of a slow modify.
LEMMA WithdrawArena ==
  ASSUME ArenaInv, ArenaWithdraw
  PROVE  ArenaInv'
<1>1. IndInv
  BY DEF ArenaInv, BookInv
<1>2. [Next]_vars /\ pc = "idle"
  BY DEF ArenaWithdraw, CancelOrder, ModifyReAdd, Next
<1>3. PICK i \in Live : Withdraw(i)
  BY DEF ArenaWithdraw, CancelOrder, ModifyReAdd, Findable
<1> DEFINE s == order_map[i].side
           p == order_map[i].price
           q == levels[s][p].queue
           k == PositionIn(q, i)
           w == RemoveAt(q, k)
           o == slot[i]
<1>4. s \in Sides /\ p \in Prices
  BY <1>1, <1>3, <1>2, WithdrawEmpties
<1>5. /\ Live' = Live \ {i} /\ in_use' = in_use - 1
      /\ \A j \in Live' : order_map'[j] = order_map[j]
  BY <1>3 DEF Withdraw, Erase, Live
<1>6. RemoveAndRelease(s, p, o)
  <2>1. PICK j \in Live \ DOMAIN order_map' :
          RemoveAndRelease(fields[slot[j]].side, fields[slot[j]].price, slot[j])
    BY DEF ArenaWithdraw
  <2>2. j = i
    BY <1>5, <2>1 DEF Live
  <2>3. fields[o] = [id |-> i, price |-> p, side |-> s]
    BY DEF ArenaInv, FieldsMatch
  <2>4. fields[o].side = s /\ fields[o].price = p
    BY <2>3
  <2> QED BY <2>1, <2>2, <2>4
<1>7. /\ levels'[s][p].queue = w
      /\ \A t \in Sides, r \in Prices : t # s \/ r # p => levels'[t][r] = levels[t][r]
  <2> DEFINE v == Unlink(levels[s][p], i, order_map[i].remaining)
  <2>1. levels' = [levels EXCEPT ![s][p] = v]
    BY <1>3 DEF Withdraw
  <2>2. v.queue = w
    BY DEF Unlink
  <2>3. DOMAIN levels = Sides /\ \A t \in Sides : DOMAIN levels[t] = Prices
    BY <1>1 DEF IndInv, TypeOK
  <2> HIDE DEF v, w, s, p
  <2> QED BY <1>4, <2>1, <2>2, <2>3
<1>8. q \in Seq(Ids) /\ i \in ToSet(q)
  <2>1. q \in Seq(Ids)
    BY <1>1, <1>4, QueueFacts
  <2>2. i \in OrdersAt(s, p)
    BY <1>2 DEF OrdersAt, InFlight
  <2> QED BY <1>1, <1>4, <2>1, <2>2 DEF IndInv, QueuedOnce
<1> HIDE DEF o, s, p, q
<1>9. /\ k \in 1 .. Len(q) /\ q[k] = i
      /\ Len(w) = Len(q) - 1 /\ DOMAIN w = 1 .. Len(q) - 1
      /\ \A m \in 1 .. Len(q) - 1 : w[m] = IF m < k THEN q[m] ELSE q[m + 1]
  BY <1>8, RemoveShifts
<1>10. k \in DOMAIN q
  BY <1>8, <1>9
<1> HIDE DEF k, w
<1>11. ListsMatch'
  <2>1. /\ k \in DOMAIN levels[s][p].queue
        /\ levels[s][p].queue[k] = i
        /\ levels'[s][p].queue = w
        /\ Gap(w, levels[s][p].queue, k)
    BY <1>7, <1>9, <1>10 DEF q, Gap
  <2>2. Live' = Live \ {i} /\ RemoveAndRelease(s, p, slot[i])
    BY <1>5, <1>6 DEF o
  <2>3. OthersStay(s, p)
    BY <1>7 DEF OthersStay
  <2> QED BY <1>4, <2>1, <2>2, <2>3, RemoveLists
<1> QED BY <1>2, <1>4, <1>5, <1>6, <1>9, <1>10, <1>11, RemoveInv DEF o, q

\* A fill that completes the order at the head of a level removes it.
LEMMA MatchArena ==
  ASSUME ArenaInv, ArenaMatchFill
  PROVE  ArenaInv'
<1>1. IndInv /\ MatchFill /\ [Next]_vars
  BY DEF ArenaInv, BookInv, ArenaMatchFill, Next, Proceed
<1> DEFINE s == Opposite(order_map[call.id].side)
<1>2. PICK b \in Prices, i \in Live \ {call.id} :
        /\ FillAt(i, b)
        /\ s \in Sides
        /\ levels[s][b].queue # << >>
        /\ i \in OrdersAt(s, b)
  BY <1>1, MatchFillParts
<1> DEFINE q == levels[s][b].queue
           fill == MinOf(order_map[call.id].remaining, order_map[i].remaining)
           filled == order_map[i].remaining = fill
           o == slot[i]
<1>3. /\ Live' = IF filled THEN Live \ {i} ELSE Live
      /\ in_use' = IF filled THEN in_use - 1 ELSE in_use
      /\ \A j \in Live' : /\ order_map'[j].price = order_map[j].price
                          /\ order_map'[j].side = order_map[j].side
  BY <1>1, <1>2, FillOrders DEF FillAt
<1>4. best'[s] = b
  BY <1>1, <1>2 DEF FillAt, IndInv, TypeOK
<1>5. /\ q \in Seq(Ids) /\ 1 \in DOMAIN q /\ q[1] = i /\ Len(q) \in Nat \ {0}
      /\ DOMAIN q = 1 .. Len(q)
  <2>1. q \in Seq(Ids) /\ q # << >>
    BY <1>1, <1>2, QueueFacts
  <2>2. i = Head(q)
    BY <1>2 DEF FillAt
  <2> HIDE DEF q
  <2>3. Len(q) \in Nat \ {0} /\ DOMAIN q = 1 .. Len(q)
    BY <2>1
  <2>4. 1 \in DOMAIN q /\ q[1] = Head(q)
    BY <2>1, <2>3
  <2> QED BY <2>1, <2>2, <2>3, <2>4
<1>6. list[s][b].head = o /\ fields[o].id = i
  <2>1. list[s][b].head = At(q, 1)
    BY <1>2, ListsAreLinked DEF ArenaInv, Linked
  <2>2. fields[o] = [id    |-> i,
                     price |-> order_map[i].price,
                     side  |-> order_map[i].side]
    BY DEF ArenaInv, FieldsMatch
  <2> QED BY <1>5, <2>1, <2>2 DEF At
<1>7. IF i \in Live' THEN UNCHANGED arenaVars ELSE RemoveAndRelease(s, b, o)
  BY <1>4, <1>6 DEF ArenaMatchFill, Live
<1>8. /\ levels'[s][b].queue = IF filled THEN Tail(q) ELSE q
      /\ \A t \in Sides, r \in Prices : t # s \/ r # b => levels'[t][r] = levels[t][r]
  <2> DEFINE v == FillHead(levels[s][b], fill, filled)
  <2>1. levels' = [levels EXCEPT ![s][b] = v]
    BY <1>2 DEF FillAt
  <2>2. v.queue = IF filled THEN Tail(q) ELSE q
    BY DEF FillHead
  <2>3. DOMAIN levels = Sides /\ \A t \in Sides : DOMAIN levels[t] = Prices
    BY <1>1 DEF IndInv, TypeOK
  <2> HIDE DEF v, s, filled
  <2> QED BY <1>2, <2>1, <2>2, <2>3
<1>9. CASE ~ filled
  <2>1. Live' = Live /\ in_use' = in_use /\ UNCHANGED arenaVars
    BY <1>2, <1>3, <1>7, <1>9
  <2>2. \A t \in Sides, r \in Prices : levels'[t][r].queue = levels[t][r].queue
    BY <1>8, <1>9
  <2> QED BY <1>1, <1>3, <2>1, <2>2, QuietArena
<1>10. CASE filled
  <2>1. Live' = Live \ {i} /\ in_use' = in_use - 1 /\ RemoveAndRelease(s, b, o)
    BY <1>3, <1>7, <1>10
  <2>2. levels'[s][b].queue = Tail(q)
    BY <1>8, <1>10
  <2>3. /\ Len(Tail(q)) = Len(q) - 1
        /\ DOMAIN Tail(q) = 1 .. Len(q) - 1
        /\ \A m \in DOMAIN Tail(q) : Tail(q)[m] = IF m < 1 THEN q[m] ELSE q[m + 1]
    <3> HIDE DEF q
    <3> QED BY <1>5
  <2> HIDE DEF s, filled, fill
  <2>4. ListsMatch'
    <3> DEFINE w == Tail(q)
    <3>1. /\ 1 \in DOMAIN levels[s][b].queue
          /\ levels[s][b].queue[1] = i
          /\ levels'[s][b].queue = w
          /\ Gap(w, levels[s][b].queue, 1)
      BY <1>5, <2>2, <2>3 DEF Gap
    <3>2. OthersStay(s, b)
      BY <1>8 DEF OthersStay
    <3>3. s \in Sides /\ b \in Prices /\ i \in Live
      BY <1>2
    <3> HIDE DEF w
    <3> QED BY <2>1, <3>1, <3>2, <3>3, RemoveLists
  <2> QED BY <1>1, <1>2, <1>3, <1>5, <2>1, <2>4, RemoveInv
<1> QED BY <1>9, <1>10

LEMMA UnchangedArena ==
  ASSUME ArenaInv, ArenaUnchanged \/ UNCHANGED allArenaVars
  PROVE  ArenaInv'
<1>1. IndInv
  BY DEF ArenaInv, BookInv
<1>2. UNCHANGED arenaVars /\ [Next]_vars
  BY DEF ArenaUnchanged, allArenaVars, Next, Proceed
<1>3. CASE UNCHANGED <<order_map, in_use, levels>>
  BY <1>2, <1>3, QuietArena DEF Live
<1>4. CASE MatchFilled \/ MatchExhausted \/ ReAddRejected
  BY <1>3, <1>4 DEF MatchFilled, MatchExhausted, ReAddRejected
<1>5. CASE UNCHANGED allArenaVars
  BY <1>3, <1>5 DEF allArenaVars, vars
<1>6. CASE ModifyInPlace
  <2>1. PICK i \in Live, n \in Int, v \in 0 .. QtyModulus - 1 :
          LET m == order_map[i] IN
          /\ levels' = [levels EXCEPT ![m.side][m.price].total_quantity = v]
          /\ order_map' = [order_map EXCEPT ![i].remaining = n]
    <3>1. PICK i \in Live, n \in Quantities :
            LET m     == order_map[i]
                delta == m.remaining - n
            IN /\ levels' = [levels EXCEPT ![m.side][m.price].total_quantity = Wrap(@ - delta)]
               /\ order_map' = [order_map EXCEPT ![i].remaining = n]
      BY <1>6, InPlaceParts
    <3> DEFINE m == order_map[i]
               rest == levels[m.side][m.price].total_quantity - (m.remaining - n)
    <3>2. /\ m.side \in Sides /\ m.price \in Prices /\ m.remaining \in Int /\ n \in Int
      BY <1>1, BookAssumption DEF IndInv, TypeOK, Order
    <3>3. rest \in Int
      <4>1. levels[m.side][m.price].total_quantity \in 0 .. QtyModulus - 1
        BY <1>1, <3>2 DEF IndInv, TypeOK, Level
      <4> HIDE DEF m
      <4> QED BY <3>2, <4>1, BookAssumption
    <3> HIDE DEF rest
    <3>4. Wrap(rest) \in 0 .. QtyModulus - 1
      BY <3>3, WrapType
    <3> QED BY <3>1, <3>2, <3>4 DEF rest
  <2>2. /\ DOMAIN order_map' = Live /\ in_use' = in_use
        /\ \A j \in Live : /\ order_map'[j].price = order_map[j].price
                           /\ order_map'[j].side = order_map[j].side
    BY <1>1, <1>6, <2>1 DEF ModifyInPlace, IndInv, TypeOK, Order
  <2>3. \A s \in Sides, p \in Prices : levels'[s][p].queue = levels[s][p].queue
    BY <1>1, <2>1 DEF IndInv, TypeOK, Level
  <2> QED BY <1>2, <2>2, <2>3, QuietArena DEF Live
<1> QED BY <1>4, <1>5, <1>6 DEF ArenaUnchanged

-----------------------------------------------------------------------------
(* The invariant holds from the start, and the theorems follow.            *)

LEMMA ArenaInitInv == ArenaInit => ArenaInv
<1> SUFFICES ASSUME ArenaInit PROVE ArenaInv
  OBVIOUS
<1>1. Live = {} /\ HeldSlots = {} /\ PoolSize \in Nat \ {0} /\ in_use = 0
  BY BookAssumption DEF ArenaInit, Init, Live, HeldSlots
<1>2. BookInv
  BY InitInv, InitRoom DEF ArenaInit, BookInv
<1>3. ArenaTypeOK
  <2>1. slot \in [Live -> Slots]
    BY <1>1 DEF ArenaInit
  <2>2. fields \in [Slots -> Fields \cup {Unused}] /\ prev \in [Slots -> Pointers]
    BY DEF ArenaInit, Pointers
  <2>3. next \in [Slots -> Pointers] /\ free_head \in Pointers
    BY <1>1 DEF ArenaInit, Slots, Pointers, Null
  <2>4. list \in [Sides -> [Prices -> [head : Pointers, tail : Pointers, count : Int]]]
    BY DEF ArenaInit, Pointers
  <2> QED BY <2>1, <2>2, <2>3, <2>4 DEF ArenaTypeOK
<1>4. OneSlotEach /\ FieldsMatch
  BY <1>1 DEF OneSlotEach, FieldsMatch
<1>5. ListsMatch
  <2> SUFFICES ASSUME NEW s \in Sides, NEW p \in Prices
               PROVE  Linked(list[s][p], levels[s][p].queue)
    BY ListsAreLinked
  <2>1. levels[s][p].queue = << >> /\ list[s][p] = [head |-> Null, tail |-> Null, count |-> 0]
    BY DEF ArenaInit, Init, EmptyLevel
  <2>2. DOMAIN << >> = {} /\ Len(<< >>) = 0
    OBVIOUS
  <2> QED BY <2>1, <2>2 DEF Linked, At
<1>6. FreeListInv
  <2>1. PICK f : f = [k \in 1 .. PoolSize |-> k]
    OBVIOUS
  <2>2. PoolSize - in_use = PoolSize /\ Slots \ HeldSlots = 1 .. PoolSize
    BY <1>1 DEF Slots
  <2>3. /\ f \in [1 .. PoolSize -> 1 .. PoolSize]
        /\ IsInjective(f)
        /\ 1 .. PoolSize \subseteq {f[k] : k \in DOMAIN f}
    BY <2>1 DEF IsInjective
  <2>4. free_head = IF 1 \in DOMAIN f THEN f[1] ELSE Null
    BY <1>1, <2>1 DEF ArenaInit
  <2>5. ASSUME NEW k \in DOMAIN f
        PROVE  next[f[k]] = IF k + 1 \in DOMAIN f THEN f[k + 1] ELSE Null
    <3>1. k \in 1 .. PoolSize /\ f[k] = k /\ (k + 1 \in DOMAIN f <=> k < PoolSize)
      BY <1>1, <2>1
    <3>2. next[k] = IF k < PoolSize THEN k + 1 ELSE Null
      BY <3>1 DEF ArenaInit, Slots
    <3> QED BY <2>1, <3>1, <3>2
  <2> QED BY <2>2, <2>3, <2>4, <2>5 DEF IsFreeList, FreeListInv
<1> QED BY <1>2, <1>3, <1>4, <1>5, <1>6 DEF ArenaInv

\* Whichever way a call comes, its order is new and takes a slot.
LEMMA Acquires ==
  ASSUME ArenaInv, ArenaAddOrder \/ ArenaReAdd
  PROVE  /\ [Next]_vars
         /\ \E c \in Call : c.id \notin Live /\ Accept(c) /\ Acquire(c)
<1>1. CASE ArenaAddOrder
  <2>1. PICK c \in Call : c.id \notin Live /\ Accept(c)
    BY <1>1 DEF ArenaAddOrder, AddOrder, Keys
  <2>2. call' = c
    BY <2>1 DEF Accept
  <2> QED BY <1>1, <2>1, <2>2 DEF ArenaAddOrder, Next
<1>2. CASE ArenaReAdd
  <2>1. pc = "readd" /\ Accept(call) /\ Acquire(call) /\ ReAdd
    BY <1>2 DEF ArenaReAdd, ReAdd
  <2>2. call \in Call /\ call.id \notin Live
    BY <2>1 DEF ArenaInv, BookInv, IndInv, CallOK, Keys
  <2> QED BY <2>1, <2>2 DEF Next, Proceed
<1> QED BY <1>1, <1>2

LEMMA ArenaStepInv == ArenaInv /\ [ArenaNext]_allArenaVars => ArenaInv'
<1> SUFFICES ASSUME ArenaInv, [ArenaNext]_allArenaVars PROVE ArenaInv'
  OBVIOUS
<1>1. CASE ArenaAddOrder \/ ArenaReAdd
  BY <1>1, Acquires, AcquireInv
<1>2. CASE ArenaRestRemainder
  BY <1>2, RestArena
<1>3. CASE ArenaReclaimFilled
  BY <1>3, ReclaimArena
<1>4. CASE ArenaMatchFill
  BY <1>4, MatchArena
<1>5. CASE ArenaWithdraw
  BY <1>5, WithdrawArena
<1>6. CASE ArenaUnchanged \/ UNCHANGED allArenaVars
  BY <1>6, UnchangedArena
<1>7. CASE ArenaInsertRefused
  BY <1>7, RefusedArena
<1> QED BY <1>1, <1>2, <1>3, <1>4, <1>5, <1>6, <1>7 DEF ArenaNext

LEMMA ArenaInvHolds == ArenaSpec => []ArenaInv
BY ArenaInitInv, ArenaStepInv, PTL DEF ArenaSpec

\* Every variable of the arena keeps its type.
THEOREM ArenaTypesHold == ArenaSpec => []ArenaTypeOK
<1>1. ArenaInv => ArenaTypeOK
  BY DEF ArenaInv
<1> QED BY <1>1, ArenaInvHolds, PTL

\* The doubly linked list of every level is its queue, in both directions,
\* after every push_back and every remove of any element.
THEOREM LevelsStayLinked == ArenaSpec => []ListsMatch
<1>1. ArenaInv => ListsMatch
  BY DEF ArenaInv
<1> QED BY <1>1, ArenaInvHolds, PTL

\* The free list holds exactly the slots without an order, each once.
THEOREM FreeListStaysExact == ArenaSpec => []FreeListExact
<1>1. ArenaInv => FreeListExact
  <2> SUFFICES ASSUME ArenaInv PROVE FreeListExact
    OBVIOUS
  <2>1. IsInjective(slot)
    <3>1. slot \in [Live -> Slots] /\ OneSlotEach
      BY DEF ArenaInv, ArenaTypeOK
    <3> QED BY <3>1 DEF OneSlotEach, IsInjective
  <2>2. PICK f : IsFreeList(f)
    BY DEF ArenaInv, FreeListInv
  <2>3. f \in [1 .. PoolSize - in_use -> Slots \ HeldSlots]
    BY <2>2 DEF IsFreeList
  <2> QED BY <2>1, <2>2, <2>3 DEF FreeListExact
<1> QED BY <1>1, ArenaInvHolds, PTL

\* No step writes what is stored in the slot of a live order.
LEMMA FieldsStay ==
  ASSUME ArenaInv, ArenaNext, NEW i \in Live
  PROVE  fields'[slot[i]] = fields[slot[i]]
<1>1. slot[i] \in Slots /\ slot[i] \in HeldSlots /\ fields \in [Slots -> Fields \cup {Unused}]
  BY DEF ArenaInv, ArenaTypeOK, HeldSlots
<1>2. CASE ArenaAddOrder \/ ArenaReAdd
  <2>1. PICK c \in Call : Accept(c) /\ Acquire(c)
    BY <1>2, Acquires
  <2>2. free_head \in Slots \ HeldSlots
    BY <2>1, FreeHeadIsFree DEF Accept
  <2>3. slot[i] # free_head
    BY <1>1, <2>2
  <2> QED BY <1>1, <2>1, <2>3 DEF Acquire
<1>3. CASE ArenaInsertRefused
  <2>1. slot[i] # free_head
    BY <1>1, <1>3, RefusedArena
  <2> QED BY <1>1, <1>3, <2>1 DEF ArenaInsertRefused
<1>4. CASE ~ (ArenaAddOrder \/ ArenaReAdd \/ ArenaInsertRefused)
  <2>1. fields' = fields
    BY <1>4 DEF ArenaNext, ArenaRestRemainder, PushBackAt, ArenaReclaimFilled, Release,
                ArenaMatchFill, ArenaWithdraw, RemoveAndRelease, ArenaUnchanged, arenaVars
  <2> QED BY <2>1
<1> QED BY <1>2, <1>3, <1>4

\* An order's slot keeps its id, price and side while the order is live and
\* through the step that releases it, so what is read of it there is its own.
THEOREM FieldsOutliveRelease == ArenaSpec => LiveFieldsKept
<1> DEFINE Kept == \A i \in Live :
                     fields'[slot[i]] = [id    |-> i,
                                         price |-> order_map[i].price,
                                         side  |-> order_map[i].side]
<1>1. ArenaInv /\ [ArenaNext]_allArenaVars => [Kept]_allArenaVars
  BY FieldsStay DEF ArenaInv, FieldsMatch
<1> QED BY <1>1, ArenaInvHolds, PTL DEF ArenaSpec, LiveFieldsKept

\* With its pointers the book does nothing that OrderBook does not allow: all
\* that is proved of OrderBook holds of it.
THEOREM ArenaIsABook == ArenaSpec => Spec
<1>1. ArenaInit => Init
  BY DEF ArenaInit
<1>2. ArenaInv /\ [ArenaNext]_allArenaVars => [Next]_vars
  <2> SUFFICES ASSUME ArenaInv, [ArenaNext]_allArenaVars PROVE [Next]_vars
    OBVIOUS
  <2>1. CASE ArenaAddOrder \/ ArenaReAdd
    BY <2>1, Acquires
  <2>2. CASE ArenaWithdraw
    BY <2>2 DEF ArenaWithdraw, Next
  <2>3. CASE ArenaRestRemainder \/ ArenaReclaimFilled \/ ArenaMatchFill \/ ArenaUnchanged
    BY <2>3 DEF ArenaRestRemainder, ArenaReclaimFilled, ArenaMatchFill, ArenaUnchanged,
                Next, Proceed
  <2>4. CASE ArenaInsertRefused \/ UNCHANGED allArenaVars
    BY <2>4 DEF ArenaInsertRefused, allArenaVars
  <2> QED BY <2>1, <2>2, <2>3, <2>4 DEF ArenaNext
<1> QED BY <1>1, <1>2, ArenaInvHolds, PTL DEF ArenaSpec, Spec

=============================================================================
