------------------------------- MODULE OrderMap -------------------------------
(***************************************************************************)
(* The hash table of order_map.h: open addressing, linear probing, and     *)
(* deletion by backward shift instead of tombstones.                       *)
(*                                                                         *)
(* The order book uses it in one way: an id is inserted when no order in   *)
(* the map has it, and may come back only after an erase that returned     *)
(* true.  "stored" is that caller's view, the ids it believes the map to   *)
(* hold; values are left out, since an Order* moves with its id.           *)
(***************************************************************************)
EXTENDS Integers, FiniteSets

CONSTANTS Capacity,     \* number of slots, a power of 2 in the code
          Multiplier,   \* the hash multiplier modulo Capacity, odd in the code
          Ids           \* order ids

\* 0 is the key of an empty slot, and never an order id.
EMPTY == 0

ASSUME MapAssumption ==
  /\ Capacity \in Nat \ {0}
  /\ Multiplier \in Nat
  /\ Ids \subseteq Nat \ {EMPTY}

VARIABLES slots,    \* slots_: the key of every slot
          size,     \* size_
          stored,   \* the caller's view of what is in the map
          hole,     \* the slot backward_shift has to fill, NoHole outside it
          stranded  \* an erase has left a key behind (history)

vars == <<slots, size, stored, hole, stranded>>

Slots == 0 .. Capacity - 1

NoHole == Capacity

\* hash: the low bits of the product.
hash(id) == (id * Multiplier) % Capacity

\* The slot that the given number of probes from slot i leads to.
Probe(i, n) == (i + n) % Capacity

\* How far slot i is from where the search for its key begins.
Displacement(i) == (i - hash(slots[i])) % Capacity

\* A search for id looks at its n-th slot: the ones before are neither empty
\* nor hold id.
Reaches(id, n) ==
  \A m \in 0 .. n - 1 : slots[Probe(hash(id), m)] \notin {EMPTY, id}

\* The slot where find and erase meet id, if any.
FoundAt(id) ==
  {Probe(hash(id), n) : n \in {m \in Slots : /\ Reaches(id, m)
                                             /\ slots[Probe(hash(id), m)] = id}}

\* find
Found(id) == FoundAt(id) # {}

-----------------------------------------------------------------------------

Init ==
  /\ slots = [i \in Slots |-> EMPTY]
  /\ size = 0
  /\ stored = {}
  /\ hole = NoHole
  /\ stranded = FALSE

\* A definition whose name ends in Slip is not part of the model: it is the
\* definition after it with a plausible bug, for the mutation runs.
FreeSlip(id, n) == slots[Probe(hash(id), n)] = EMPTY

\* The first empty slot of id's probe sequence is the n-th.
Free(id, n) ==
  /\ slots[Probe(hash(id), n)] = EMPTY
  /\ \A m \in 0 .. n - 1 : slots[Probe(hash(id), m)] # EMPTY

\* insert.  In a full table it returns false and changes nothing: no step.
InsertId ==
  /\ hole = NoHole
  /\ \E id \in Ids, n \in Slots :
       /\ id \notin stored
       /\ Free(id, n)
       /\ slots' = [slots EXCEPT ![Probe(hash(id), n)] = id]
       /\ stored' = stored \cup {id}
  /\ size' = size + 1
  /\ UNCHANGED <<hole, stranded>>

\* erase finds the key: backward_shift starts at its slot.  An erase that does
\* not find it returns false and changes nothing: no step.
EraseId ==
  /\ hole = NoHole
  /\ \E id \in stored : \E i \in FoundAt(id) :
       /\ hole' = i
       /\ stored' = stored \ {id}
  /\ UNCHANGED <<slots, size, stranded>>

Following == Probe(hole, 1)

ShouldShiftSlip(i) == TRUE

\* should_shift, which compares the displacement of the following slot with
\* (next - pos - 1) & MASK, always 0.
ShouldShift(i) == Displacement(i) > 0

ShiftBackSlip ==
  /\ hole # NoHole
  /\ slots[Following] # EMPTY
  /\ ShouldShift(Following)
  /\ slots' = [slots EXCEPT ![Following] = slots[hole]]
  /\ hole' = Following
  /\ UNCHANGED <<size, stored, stranded>>

\* One pass of backward_shift that moves the following key into the hole.
ShiftBack ==
  /\ hole # NoHole
  /\ slots[Following] # EMPTY
  /\ ShouldShift(Following)
  /\ slots' = [slots EXCEPT ![hole] = slots[Following]]
  /\ hole' = Following
  /\ UNCHANGED <<size, stored, stranded>>

\* The hole is about to become empty while the search for a key passes it: the
\* key in some slot lies no nearer to the hole than to where its search begins.
LeavesBehind ==
  \E i \in Slots \ {hole} :
    slots[i] # EMPTY /\ (i - hole) % Capacity <= Displacement(i)

CloseHoleSlip ==
  /\ hole # NoHole
  /\ slots[Following] = EMPTY \/ ~ ShouldShift(Following)
  /\ slots' = [slots EXCEPT ![hole] = EMPTY]
  /\ hole' = NoHole
  /\ stranded' = (stranded \/ LeavesBehind)
  /\ UNCHANGED <<size, stored>>

\* The last pass: the following slot is empty, or its key is where its search
\* begins; erase returns true.
CloseHole ==
  /\ hole # NoHole
  /\ slots[Following] = EMPTY \/ ~ ShouldShift(Following)
  /\ slots' = [slots EXCEPT ![hole] = EMPTY]
  /\ hole' = NoHole
  /\ size' = size - 1
  /\ stranded' = (stranded \/ LeavesBehind)
  /\ UNCHANGED stored

Shift == ShiftBack \/ CloseHole

Next == InsertId \/ EraseId \/ Shift

Spec == Init /\ [][Next]_vars

\* backward_shift is a loop on its caller's thread: it goes on.
FairSpec == Spec /\ WF_vars(Shift)

-----------------------------------------------------------------------------
(* Properties                                                              *)

\* Every variable has its type.
TypeOK ==
  /\ slots \in [Slots -> Ids \cup {EMPTY}]
  /\ size \in 0 .. Capacity
  /\ stored \subseteq Ids
  /\ hole \in Slots \cup {NoHole}
  /\ stranded \in BOOLEAN

\* The slots that hold a key of the map: while backward_shift runs, the hole is
\* not one, whatever it still holds.
Occupied == {i \in Slots \ {hole} : slots[i] # EMPTY}

\* No key is lost from the table or duplicated in it, even by keys that collide
\* and even in the middle of a shift: each stored id is in exactly one slot, no
\* other id is in any, and size_ counts them.
EachKeyOnce ==
  /\ {slots[i] : i \in Occupied} = stored
  /\ \A i, j \in Occupied : slots[i] = slots[j] => i = j
  /\ size = Cardinality(stored) + IF hole = NoHole THEN 0 ELSE 1

\* backward_shift never runs around a full table for ever.
EraseReturns == (hole # NoHole) ~> (hole = NoHole)

\* Whatever collides, find is exact until an erase has left a key behind: the
\* early stop of backward_shift is the only way to lose a key.
ExactUntilStranded ==
  ~ stranded /\ hole = NoHole => \A id \in Ids : Found(id) <=> id \in stored

\* The keys in the table that find and erase miss.
Missed == {id \in stored : ~ Found(id)}

\* What OrderBook relies on: an insert is found and hides no key, only an insert
\* may bring a missed key back, and an erase hides others only when it stops
\* early, at a key that is still found.
LosesOnlyPastAStop ==
  [][/\ Missed \ Missed' # {} => stored' \ stored # {}
     /\ Missed' \ Missed # {} => CloseHole /\ slots[Following] \in stored' \ Missed']_vars

\* find answers for every key: exactly the stored ids are found.  This is what
\* "tombstone-free deletion via backward-shift" (include/order_map.h:8) and
\* "keeps the probe chain intact without tombstones"
\* (docs/DAY_1_COMPLETE_GUIDE.md:607-608) promise.
FindsStored == hole = NoHole => \A id \in Ids : Found(id) <=> id \in stored

=============================================================================
