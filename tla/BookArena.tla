------------------------------ MODULE BookArena ------------------------------
(***************************************************************************)
(* The memory under the book: the slots of the order pool (memory_pool.h)  *)
(* with their next and prev pointers, which link a free slot into the free *)
(* list and the order in a slot into its price level (price_level.h).      *)
(*                                                                         *)
(* Every action of OrderBook is joined by what its code does to pointers.  *)
(* A pointer is a slot, by its place in the pool's array, or Null.  What   *)
(* the code reads through a pointer (the head of a level, the id of the    *)
(* order in it) is read through it here.                                   *)
(***************************************************************************)
EXTENDS OrderBook

CONSTANT Unused   \* the fields of a slot that no order has been in

\* Pool and map have the same size.
ASSUME ArenaAssumption == PoolSize <= MapSize

VARIABLES slot,       \* the values of order_map_: live id -> its slot
          fields,     \* what is stored in a slot: id, price and side
          next, prev, \* the links of a slot
          free_head,  \* free_head_ of the pool
          list        \* head, tail and count of every level

arenaVars == <<slot, fields, next, prev, free_head, list>>

allArenaVars == <<vars, arenaVars>>

Null == 0

Slots == 1 .. PoolSize

Pointers == Slots \cup {Null}

Fields == [id : Ids, price : Prices, side : Sides]

-----------------------------------------------------------------------------
(* The pool                                                                *)

\* acquire, which fails on an empty free list, and the stores of add_order
\* into the slot it returns.
Acquire(c) ==
  LET o == free_head IN
  /\ o # Null
  /\ free_head' = next[o]
  /\ next' = [next EXCEPT ![o] = Null]
  /\ prev' = [prev EXCEPT ![o] = Null]
  /\ fields' = [fields EXCEPT ![o] = [id |-> c.id, price |-> c.price, side |-> c.side]]
  /\ slot' = Insert(slot, c.id, o)
  /\ UNCHANGED list

ReleaseSlip(nx, pv, o) ==
  /\ next' = [nx EXCEPT ![o] = free_head]
  /\ prev' = [pv EXCEPT ![o] = Null]
  /\ free_head' = o
  /\ fields' = [fields EXCEPT ![o] = Unused]
  /\ slot' = Erase(slot, fields[o].id)

ReleaseSwappedSlip(nx, pv, o) ==
  /\ next' = [nx EXCEPT ![o] = o]
  /\ prev' = [pv EXCEPT ![o] = Null]
  /\ free_head' = o
  /\ slot' = Erase(slot, fields[o].id)
  /\ UNCHANGED fields

\* order_map_->erase(o->id), then release(o), from the links nx and pv.
Release(nx, pv, o) ==
  /\ next' = [nx EXCEPT ![o] = free_head]
  /\ prev' = [pv EXCEPT ![o] = Null]
  /\ free_head' = o
  /\ slot' = Erase(slot, fields[o].id)
  /\ UNCHANGED fields

-----------------------------------------------------------------------------
(* Price levels                                                            *)

PushBackAtSlip(s, p, o) ==
  LET l == list[s][p] IN
  /\ prev' = [prev EXCEPT ![o] = l.tail]
  /\ next' = [next EXCEPT ![o] = Null]
  /\ list' = [list EXCEPT ![s][p] =
                [head  |-> IF l.tail = Null THEN o ELSE l.head,
                 tail  |-> o,
                 count |-> l.count + 1]]
  /\ UNCHANGED <<slot, fields, free_head>>

\* push_back
PushBackAt(s, p, o) ==
  LET l == list[s][p] IN
  /\ prev' = [prev EXCEPT ![o] = l.tail]
  /\ next' = [x \in Slots |-> IF x = o THEN Null ELSE IF x = l.tail THEN o ELSE next[x]]
  /\ list' = [list EXCEPT ![s][p] =
                [head  |-> IF l.tail = Null THEN o ELSE l.head,
                 tail  |-> o,
                 count |-> l.count + 1]]
  /\ UNCHANGED <<slot, fields, free_head>>

\* remove, from the level of side s and price p; then erase and release, which
\* follow it wherever it is called, and rewrite the links of o itself.
RemoveAndRelease(s, p, o) ==
  LET l == list[s][p] IN
  /\ list' = [list EXCEPT ![s][p] =
                [head  |-> IF prev[o] = Null THEN next[o] ELSE l.head,
                 tail  |-> IF next[o] = Null THEN prev[o] ELSE l.tail,
                 count |-> l.count - 1]]
  /\ Release([x \in Slots |-> IF x = prev[o] THEN next[o] ELSE next[x]],
             [x \in Slots |-> IF x = next[o] THEN prev[o] ELSE prev[x]],
             o)

-----------------------------------------------------------------------------
(* The operations of the book                                              *)

ArenaAddOrder == AddOrder /\ Acquire(call')

\* add_order gets a slot and writes to it, and gives it back because the table
\* is full, leftover keys included: the book does not change, the slot does.
ArenaInsertRefused ==
  /\ pc = "idle"
  /\ free_head # Null
  /\ Cardinality(Keys) >= MapSize
  /\ \E c \in Call :
       /\ c.price < MaxPriceLevels
       /\ c.id \notin Keys
       /\ fields' = [fields EXCEPT ![free_head] =
                       [id |-> c.id, price |-> c.price, side |-> c.side]]
  /\ prev' = [prev EXCEPT ![free_head] = Null]
  /\ UNCHANGED <<vars, slot, next, free_head, list>>

ArenaReAdd == ReAdd /\ Acquire(call)

ArenaRestRemainder ==
  /\ RestRemainder
  /\ LET o == slot[call.id] IN PushBackAt(fields[o].side, fields[o].price, o)

\* The order is in no list: only the pool takes it back.
ArenaReclaimFilled ==
  /\ ReclaimFilled
  /\ Release(next, prev, slot[call.id])
  /\ UNCHANGED list

\* The fill is against the order at the head of the level.
ArenaMatchFill ==
  /\ MatchFill
  /\ LET s == Opposite(order_map[call.id].side)
         o == list[s][best'[s]].head
     IN IF fields[o].id \in DOMAIN order_map'
        THEN UNCHANGED arenaVars
        ELSE RemoveAndRelease(s, best'[s], o)

ArenaWithdraw ==
  /\ CancelOrder \/ ModifyReAdd
  /\ \E i \in Live \ DOMAIN order_map' :
       LET o == slot[i] IN RemoveAndRelease(fields[o].side, fields[o].price, o)

\* Steps that write no pointer.
ArenaUnchanged ==
  /\ MatchFilled \/ MatchExhausted \/ ModifyInPlace \/ ReAddRejected
  /\ UNCHANGED arenaVars

ArenaInit ==
  /\ Init
  /\ slot = << >>
  /\ fields = [o \in Slots |-> Unused]
  /\ next = [o \in Slots |-> IF o < PoolSize THEN o + 1 ELSE Null]
  /\ prev = [o \in Slots |-> Null]
  /\ free_head = 1
  /\ list = [s \in Sides |-> [p \in Prices |-> [head |-> Null, tail |-> Null, count |-> 0]]]

ArenaNext ==
  \/ ArenaAddOrder
  \/ ArenaInsertRefused
  \/ ArenaReAdd
  \/ ArenaRestRemainder
  \/ ArenaReclaimFilled
  \/ ArenaMatchFill
  \/ ArenaWithdraw
  \/ ArenaUnchanged

ArenaSpec == ArenaInit /\ [][ArenaNext]_allArenaVars

-----------------------------------------------------------------------------
(* Properties                                                              *)

\* Every variable of the arena has its type.
ArenaTypeOK ==
  /\ slot \in [Live -> Slots]
  /\ fields \in [Slots -> Fields \cup {Unused}]
  /\ next \in [Slots -> Pointers]
  /\ prev \in [Slots -> Pointers]
  /\ free_head \in Pointers
  /\ list \in [Sides -> [Prices -> [head : Pointers, tail : Pointers, count : Int]]]

\* The slot linked at place k of a level's queue, or Null past its ends.
At(queue, k) == IF k \in DOMAIN queue THEN slot[queue[k]] ELSE Null

\* The pointers of every level link its orders in their queue's order, in both
\* directions and ended by Null, and count counts them: remove never unlinks
\* from the wrong list or leaves a pointer into a slot that it has given back,
\* wherever in the list the order stood.
ListsMatch ==
  \A s \in Sides, p \in Prices :
    LET l == list[s][p]
        q == levels[s][p].queue
    IN /\ l.head = At(q, 1)
       /\ l.tail = At(q, Len(q))
       /\ l.count = Len(q)
       /\ \A k \in DOMAIN q : /\ next[At(q, k)] = At(q, k + 1)
                              /\ prev[At(q, k)] = At(q, k - 1)

HeldSlots == {slot[i] : i \in Live}

\* f lists the free slots from free_head on, each of them once.
IsFreeList(f) ==
  /\ f \in [1 .. PoolSize - in_use -> Slots \ HeldSlots]
  /\ IsInjective(f)
  /\ Slots \ HeldSlots \subseteq {f[k] : k \in DOMAIN f}
  /\ free_head = IF 1 \in DOMAIN f THEN f[1] ELSE Null
  /\ \A k \in DOMAIN f : next[f[k]] = IF k + 1 \in DOMAIN f THEN f[k + 1] ELSE Null

\* Two orders never share a slot, and the free list holds exactly the slots
\* without an order, each once, in_use fewer than there are: no double release
\* makes it cyclic, no slot is free and in a level at the same time, and
\* acquire finds a slot whenever in_use says there is one.
FreeListExact ==
  /\ IsInjective(slot)
  /\ \E f \in [1 .. PoolSize - in_use -> Slots \ HeldSlots] : IsFreeList(f)

\* No step changes the id, price or side stored in the slot of a live order,
\* not even the step that releases the slot: what cancel_order reads of the
\* order after its release (order_book.h:225), and match of a passive order,
\* is that order's, and acquire overwrites no order.
LiveFieldsKept ==
  [][\A i \in Live :
       fields'[slot[i]] = [id    |-> i,
                           price |-> order_map[i].price,
                           side  |-> order_map[i].side]]_allArenaVars

=============================================================================
