---------------------------- MODULE OrderMapProofs ----------------------------
(* Theorems about OrderMap, for every capacity, multiplier and set of ids.  *)
EXTENDS OrderMap, FiniteSums, FunctionTheorems

\* Every probe is at a slot.
LEMMA ProbeType ==
  ASSUME NEW i \in Int, NEW n \in Int
  PROVE  Probe(i, n) \in Slots
BY MapAssumption DEF Probe, Slots

\* A search begins at a slot.
LEMMA HashType ==
  ASSUME NEW id \in Nat
  PROVE  hash(id) \in Slots
<1>1. id * Multiplier \in Int
  BY MapAssumption
<1> QED BY <1>1, MapAssumption DEF hash, Slots

\* find and erase meet an id at a slot that holds it.
LEMMA FoundAtSlot ==
  ASSUME NEW id \in Nat, NEW i \in FoundAt(id)
  PROVE  i \in Slots /\ slots[i] = id
<1>1. PICK n \in Slots : i = Probe(hash(id), n) /\ slots[Probe(hash(id), n)] = id
  BY DEF FoundAt
<1>2. hash(id) \in Int /\ n \in Int
  BY HashType DEF Slots
<1> QED BY <1>1, <1>2, ProbeType

-----------------------------------------------------------------------------
(* The inductive invariant: EachKeyOnce needs only that stored is finite    *)
(* and that the hole, when there is one, is a slot.                         *)

MapInv ==
  /\ slots \in [Slots -> Ids \cup {EMPTY}]
  /\ stored \subseteq Ids
  /\ IsFiniteSet(stored)
  /\ hole \in Slots \cup {NoHole}
  /\ size \in Nat
  /\ EachKeyOnce

LEMMA InitMap == Init => MapInv
<1> SUFFICES ASSUME Init PROVE MapInv
  OBVIOUS
<1>1. Occupied = {}
  BY DEF Init, Occupied
<1>2. {slots[i] : i \in Occupied} = stored
  BY <1>1 DEF Init
<1>3. Cardinality(stored) = 0 /\ IsFiniteSet(stored)
  BY FS_EmptySet DEF Init
<1>4. EachKeyOnce
  BY <1>1, <1>2, <1>3 DEF Init, EachKeyOnce
<1> QED BY <1>3, <1>4 DEF Init, MapInv

\* insert takes a slot that no key holds, for an id that no slot holds.
LEMMA InsertKeepsMap ==
  ASSUME MapInv, InsertId
  PROVE  MapInv'
<1>1. PICK id \in Ids, n \in Slots :
        /\ id \notin stored
        /\ slots[Probe(hash(id), n)] = EMPTY
        /\ slots' = [slots EXCEPT ![Probe(hash(id), n)] = id]
        /\ stored' = stored \cup {id}
  BY DEF InsertId, Free
<1> DEFINE p == Probe(hash(id), n)
<1>2. hole = NoHole /\ hole' = NoHole /\ size' = size + 1
  BY DEF InsertId
<1>3. id \in Nat /\ id # EMPTY
  BY MapAssumption
<1>4. p \in Slots
  <2>1. hash(id) \in Int /\ n \in Int
    BY <1>3, HashType DEF Slots
  <2> QED BY <2>1, ProbeType
<1>5. slots[p] = EMPTY
  BY <1>1
<1>6. slots' = [slots EXCEPT ![p] = id]
  BY <1>1
<1> HIDE DEF p
<1>7. NoHole \notin Slots
  BY MapAssumption DEF NoHole, Slots
<1>8. /\ Occupied' = Occupied \cup {p}
      /\ p \notin Occupied
      /\ slots'[p] = id
      /\ \A i \in Occupied : slots'[i] = slots[i]
  BY <1>2, <1>3, <1>4, <1>5, <1>6, <1>7 DEF Occupied, MapInv
<1>9. EachKeyOnce'
  <2>1. {slots'[i] : i \in Occupied'} = stored'
    BY <1>1, <1>8 DEF MapInv, EachKeyOnce
  <2>2. \A i, j \in Occupied' : slots'[i] = slots'[j] => i = j
    BY <1>1, <1>8 DEF MapInv, EachKeyOnce
  <2>3. Cardinality(stored') = Cardinality(stored) + 1
    BY <1>1, FS_AddElement DEF MapInv
  <2>4. size' = Cardinality(stored') + IF hole' = NoHole THEN 0 ELSE 1
    <3>1. Cardinality(stored) \in Nat
      BY FS_CardinalityType DEF MapInv
    <3> QED BY <1>2, <2>3, <3>1 DEF MapInv, EachKeyOnce
  <2> QED BY <2>1, <2>2, <2>4 DEF EachKeyOnce
<1>10. IsFiniteSet(stored')
  BY <1>1, FS_AddElement DEF MapInv
<1>11. slots' \in [Slots -> Ids \cup {EMPTY}]
  BY <1>6 DEF MapInv
<1>12. stored' \subseteq Ids /\ size' \in Nat /\ hole' \in Slots \cup {NoHole}
  BY <1>1, <1>2 DEF MapInv
<1> QED BY <1>9, <1>10, <1>11, <1>12 DEF MapInv

\* erase takes the one slot of its id out of the occupied ones.
LEMMA EraseKeepsMap ==
  ASSUME MapInv, EraseId
  PROVE  MapInv'
<1>a. PICK id \in stored : \E p \in FoundAt(id) :
        hole' = p /\ stored' = stored \ {id}
  BY DEF EraseId
<1>1. PICK p \in FoundAt(id) : hole' = p /\ stored' = stored \ {id}
  BY <1>a
<1>2. hole = NoHole /\ slots' = slots /\ size' = size
  BY DEF EraseId
<1>3. id \in Nat /\ id # EMPTY
  BY MapAssumption DEF MapInv
<1>4. p \in Slots /\ slots[p] = id
  BY <1>3, FoundAtSlot
<1>5. NoHole \notin Slots
  BY MapAssumption DEF NoHole, Slots
<1>6. Occupied' = Occupied \ {p} /\ p \in Occupied
  BY <1>1, <1>2, <1>3, <1>4, <1>5 DEF Occupied
<1>7. EachKeyOnce'
  <2>1. {slots'[i] : i \in Occupied'} = stored'
    BY <1>1, <1>2, <1>4, <1>6 DEF MapInv, EachKeyOnce
  <2>2. \A i, j \in Occupied' : slots'[i] = slots'[j] => i = j
    BY <1>2, <1>6 DEF MapInv, EachKeyOnce
  <2>3. Cardinality(stored') = Cardinality(stored) - 1
    BY <1>1, FS_RemoveElement DEF MapInv
  <2>4. size' = Cardinality(stored') + IF hole' = NoHole THEN 0 ELSE 1
    <3>1. Cardinality(stored) \in Nat
      BY FS_CardinalityType DEF MapInv
    <3> QED BY <1>1, <1>2, <1>4, <1>5, <2>3, <3>1 DEF MapInv, EachKeyOnce
  <2> QED BY <2>1, <2>2, <2>4 DEF EachKeyOnce
<1>8. IsFiniteSet(stored')
  BY <1>1, FS_RemoveElement DEF MapInv
<1> QED BY <1>1, <1>2, <1>4, <1>7, <1>8 DEF MapInv

\* A key that shifts back leaves its slot as the new hole.
LEMMA ShiftKeepsMap ==
  ASSUME MapInv, ShiftBack
  PROVE  MapInv'
<1> DEFINE f == Following
           h == hole
<1>1. /\ h # NoHole
      /\ slots[f] # EMPTY
      /\ slots' = [slots EXCEPT ![h] = slots[f]]
      /\ hole' = f
      /\ size' = size
      /\ stored' = stored
  BY DEF ShiftBack
<1>2. h \in Slots /\ f \in Slots
  <2>1. h \in Slots
    BY <1>1 DEF MapInv
  <2> QED BY <2>1, ProbeType DEF Following, Slots
<1>3. NoHole \notin Slots
  BY MapAssumption DEF NoHole, Slots
<1>4. CASE f = h
  <2>1. slots' = slots /\ hole' = hole
    BY <1>1, <1>2, <1>4 DEF MapInv
  <2>2. Occupied' = Occupied
    BY <2>1 DEF Occupied
  <2>3. EachKeyOnce'
    BY <1>1, <2>1, <2>2 DEF MapInv, EachKeyOnce
  <2> QED BY <1>1, <2>1, <2>3 DEF MapInv
<1>5. CASE f # h
  <2> HIDE DEF f
  <2>1. /\ f \in Occupied
        /\ h \notin Occupied
        /\ Occupied' = (Occupied \ {f}) \cup {h}
        /\ slots'[h] = slots[f]
        /\ \A i \in Occupied \ {f} : slots'[i] = slots[i]
    BY <1>1, <1>2, <1>5 DEF Occupied, MapInv
  <2>2. {slots'[i] : i \in Occupied'} = stored'
    BY <1>1, <2>1 DEF MapInv, EachKeyOnce
  <2>3. \A i, j \in Occupied' : slots'[i] = slots'[j] => i = j
    BY <2>1 DEF MapInv, EachKeyOnce
  <2>4. size' = Cardinality(stored') + IF hole' = NoHole THEN 0 ELSE 1
    BY <1>1, <1>2, <1>3 DEF MapInv, EachKeyOnce
  <2>5. EachKeyOnce'
    BY <2>2, <2>3, <2>4 DEF EachKeyOnce
  <2> QED BY <1>1, <1>2, <2>5 DEF MapInv
<1> QED BY <1>4, <1>5

\* The last slot of a shift holds nothing that is not elsewhere.
LEMMA CloseKeepsMap ==
  ASSUME MapInv, CloseHole
  PROVE  MapInv'
<1>1. /\ hole # NoHole
      /\ slots' = [slots EXCEPT ![hole] = EMPTY]
      /\ hole' = NoHole
      /\ size' = size - 1
      /\ stored' = stored
  BY DEF CloseHole
<1>2. hole \in Slots
  BY <1>1 DEF MapInv
<1>3. NoHole \notin Slots
  BY MapAssumption DEF NoHole, Slots
<1>4. Occupied' = Occupied /\ \A i \in Occupied : slots'[i] = slots[i]
  BY <1>1, <1>2, <1>3 DEF Occupied, MapInv
<1>5. Cardinality(stored) \in Nat
  BY FS_CardinalityType DEF MapInv
<1>6. size' \in Nat /\ size' = Cardinality(stored')
  BY <1>1, <1>5 DEF MapInv, EachKeyOnce
<1>7. {slots'[i] : i \in Occupied'} = stored'
  BY <1>1, <1>4 DEF MapInv, EachKeyOnce
<1>8. \A i, j \in Occupied' : slots'[i] = slots'[j] => i = j
  BY <1>4 DEF MapInv, EachKeyOnce
<1>9. EachKeyOnce'
  BY <1>1, <1>6, <1>7, <1>8 DEF EachKeyOnce
<1> QED BY <1>1, <1>6, <1>9 DEF MapInv

\* Every step keeps the invariant.
LEMMA NextMap == MapInv /\ [Next]_vars => MapInv'
<1> SUFFICES ASSUME MapInv, [Next]_vars PROVE MapInv'
  OBVIOUS
<1>1. CASE InsertId
  BY <1>1, InsertKeepsMap
<1>2. CASE EraseId
  BY <1>2, EraseKeepsMap
<1>3. CASE ShiftBack
  BY <1>3, ShiftKeepsMap
<1>4. CASE CloseHole
  BY <1>4, CloseKeepsMap
<1>5. CASE UNCHANGED vars
  BY <1>5 DEF vars, MapInv, EachKeyOnce, Occupied
<1> QED BY <1>1, <1>2, <1>3, <1>4, <1>5 DEF Next, Shift

LEMMA MapInvariant == Spec => []MapInv
BY InitMap, NextMap, PTL DEF Spec

\* No key is lost or duplicated by erase's shifting, and size_ is exact,
\* whatever collides.
THEOREM KeysKept == Spec => []EachKeyOnce
<1>1. MapInv => EachKeyOnce
  BY DEF MapInv
<1> QED BY <1>1, MapInvariant, PTL

\* Every variable has its type; in particular size_ never exceeds the number of
\* slots, because each stored key has one of its own.
THEOREM MapTypes == Spec => []TypeOK
<1>1. MapInv /\ stranded \in BOOLEAN => TypeOK
  <2> SUFFICES ASSUME MapInv, stranded \in BOOLEAN PROVE size <= Capacity
    BY MapAssumption DEF MapInv, TypeOK
  <2> DEFINE Others == Slots \ {hole}
             f == [i \in Occupied |-> slots[i]]
  <2>1. IsFiniteSet(Slots) /\ Cardinality(Slots) = Capacity
    BY MapAssumption, FS_Interval DEF Slots
  <2>2. NoHole \notin Slots
    BY MapAssumption DEF NoHole, Slots
  <2>3. /\ IsFiniteSet(Others)
        /\ Cardinality(Others) = IF hole = NoHole THEN Capacity ELSE Capacity - 1
    BY <2>1, <2>2, FS_RemoveElement DEF MapInv
  <2>4. IsFiniteSet(Occupied) /\ Cardinality(Occupied) <= Cardinality(Others)
    <3>1. Occupied \in SUBSET Others
      BY DEF Occupied
    <3> HIDE DEF Others
    <3> QED BY <2>3, <3>1, FS_Subset
  <2>5. f \in Surjection(Occupied, stored)
    BY DEF Surjection, MapInv, EachKeyOnce
  <2>6. Cardinality(stored) <= Cardinality(Occupied)
    <3> HIDE DEF f
    <3> QED BY <2>4, <2>5, FS_Surjection
  <2>7. Cardinality(stored) \in Nat /\ Cardinality(Occupied) \in Nat
    BY <2>4, FS_CardinalityType DEF MapInv
  <2>8. size = Cardinality(stored) + IF hole = NoHole THEN 0 ELSE 1
    BY DEF MapInv, EachKeyOnce
  <2> QED BY <2>3, <2>4, <2>6, <2>7, <2>8, MapAssumption
<1>2. Init => stranded \in BOOLEAN
  BY DEF Init
<1>3. stranded \in BOOLEAN /\ [Next]_vars => (stranded \in BOOLEAN)'
  BY DEF Next, vars, InsertId, EraseId, Shift, ShiftBack, CloseHole
<1> QED BY <1>1, <1>2, <1>3, MapInvariant, PTL DEF Spec

-----------------------------------------------------------------------------
(* Arithmetic on the slots                                                 *)

\* How many steps lead back from slot i to slot j.
Back(i, j) == IF j <= i THEN i - j ELSE i - j + Capacity

\* The slot n probes after slot i, for n below Capacity.
Ahead(i, n) == IF i + n < Capacity THEN i + n ELSE i + n - Capacity

LEMMA MaskNone == ASSUME NEW n \in Int, 0 <= n, n < Capacity PROVE n % Capacity = n
BY MapAssumption

LEMMA MaskDown ==
  ASSUME NEW n \in Int, Capacity <= n, n < 2 * Capacity
  PROVE  n % Capacity = n - Capacity
BY MapAssumption

LEMMA MaskUp ==
  ASSUME NEW n \in Int, 0 - Capacity <= n, n < 0
  PROVE  n % Capacity = n + Capacity
BY MapAssumption

LEMMA BackIs ==
  ASSUME NEW i \in Slots, NEW j \in Slots
  PROVE  (i - j) % Capacity = Back(i, j)
<1>1. i \in Int /\ j \in Int /\ 0 <= i /\ i < Capacity /\ 0 <= j /\ j < Capacity
  BY MapAssumption DEF Slots
<1>2. Capacity \in Nat \ {0}
  BY MapAssumption
<1>3. CASE j <= i
  <2>1. (i - j) % Capacity = i - j
    BY <1>1, <1>2, <1>3, MaskNone
  <2> QED BY <1>3, <2>1 DEF Back
<1>4. CASE ~ j <= i
  <2>1. (i - j) % Capacity = i - j + Capacity
    BY <1>1, <1>2, <1>4, MaskUp
  <2> QED BY <1>4, <2>1 DEF Back
<1> QED BY <1>3, <1>4

LEMMA AheadIs ==
  ASSUME NEW i \in Slots, NEW n \in Nat, n <= Capacity
  PROVE  Probe(i, n) = Ahead(i, n)
<1>1. i \in Int /\ 0 <= i /\ i < Capacity /\ Capacity \in Nat \ {0}
  BY MapAssumption DEF Slots
<1>2. CASE i + n < Capacity
  <2>1. (i + n) % Capacity = i + n
    BY <1>1, <1>2, MaskNone
  <2> QED BY <1>2, <2>1 DEF Ahead, Probe
<1>3. CASE ~ i + n < Capacity
  <2>1. (i + n) % Capacity = i + n - Capacity
    BY <1>1, <1>3, MaskDown
  <2> QED BY <1>3, <2>1 DEF Ahead, Probe
<1> QED BY <1>2, <1>3

\* What lies between the start of a search and its n-th slot are its slots
\* before the n-th.
LEMMA OnTheWay ==
  ASSUME NEW h \in Slots, NEW n \in Slots, NEW j \in Slots
  PROVE  LET p == Ahead(h, n)
         IN /\ p \in Slots
            /\ Back(p, h) = n
            /\ Back(p, j) <= n => \E m \in 0 .. n : j = Ahead(h, m) /\ (m = n => j = p)
<1> DEFINE p == Ahead(h, n)
           m == n - Back(p, j)
<1>1. /\ h \in Int /\ 0 <= h /\ h < Capacity
      /\ n \in Int /\ 0 <= n /\ n < Capacity
      /\ j \in Int /\ 0 <= j /\ j < Capacity
      /\ Capacity \in Nat \ {0}
  BY MapAssumption DEF Slots
<1>2. p \in Slots /\ Back(p, h) = n
  BY <1>1 DEF Ahead, Back, Slots
<1>3. Back(p, j) \in Nat
  BY <1>1, <1>2 DEF Back, Slots
<1>4. ASSUME Back(p, j) <= n
      PROVE  m \in 0 .. n /\ j = Ahead(h, m) /\ (m = n => j = p)
  <2>1. m \in 0 .. n
    BY <1>1, <1>3, <1>4
  <2>2. j = Ahead(h, m)
    BY <1>1, <1>4 DEF Ahead, Back
  <2> QED BY <2>1, <2>2
<1> QED BY <1>2, <1>4

-----------------------------------------------------------------------------
(* find is exact as long as the slots between a key and the start of its    *)
(* search are all in use.                                                   *)

HashOf(i) == hash(slots[i])

ChainInv ==
  ~ stranded =>
    \A i \in Occupied, j \in Slots :
      Back(i, j) <= Back(i, HashOf(i)) => slots[j] # EMPTY

\* The search for the key of an occupied slot begins at a slot.
LEMMA HashOfType ==
  ASSUME MapInv, NEW i \in Occupied
  PROVE  i \in Slots /\ slots[i] \in Ids /\ HashOf(i) \in Slots
<1>1. i \in Slots /\ slots[i] \in Ids
  BY DEF Occupied, MapInv
<1> QED BY <1>1, HashType, MapAssumption DEF HashOf

LEMMA InsertKeepsChain ==
  ASSUME MapInv, ChainInv, InsertId
  PROVE  ChainInv'
<1>1. PICK id \in Ids, n \in Slots :
        /\ Free(id, n)
        /\ slots' = [slots EXCEPT ![Probe(hash(id), n)] = id]
  BY DEF InsertId
<1>2. id \in Nat /\ id # EMPTY /\ hash(id) \in Slots
  BY MapAssumption, HashType
<1> DEFINE h == hash(id)
           p == Ahead(h, n)
<1>3. n \in Nat /\ n <= Capacity
  BY MapAssumption DEF Slots
<1>4. Probe(h, n) = p /\ p \in Slots /\ Back(p, h) = n
  BY <1>2, <1>3, AheadIs, OnTheWay
<1>5. /\ slots[p] = EMPTY
      /\ \A m \in 0 .. n - 1 : slots[Ahead(h, m)] # EMPTY
  <2>1. ASSUME NEW m \in 0 .. n - 1 PROVE slots[Ahead(h, m)] # EMPTY
    <3>1. m \in Nat /\ m <= Capacity
      BY <1>3, MapAssumption
    <3>2. Probe(h, m) = Ahead(h, m)
      BY <1>2, <3>1, AheadIs
    <3> QED BY <1>1, <3>2 DEF Free
  <2> QED BY <1>1, <1>4, <2>1 DEF Free
<1>6. slots' = [slots EXCEPT ![p] = id]
  BY <1>1, <1>4
<1> SUFFICES ASSUME ~ stranded, NEW i \in Occupied', NEW j \in Slots,
                    Back(i, j) <= Back(i, HashOf(i)')
             PROVE  slots'[j] # EMPTY
  BY DEF ChainInv, InsertId
<1>7. hole = NoHole /\ hole' = NoHole
  BY DEF InsertId
<1>8. slots \in [Slots -> Ids \cup {EMPTY}]
  BY DEF MapInv
<1>9. CASE i = p
  <2>1. HashOf(i)' = h
    BY <1>4, <1>6, <1>8, <1>9 DEF HashOf, hash
  <2>2. PICK m \in 0 .. n : j = Ahead(h, m) /\ (m = n => j = p)
    BY <1>2, <1>4, <1>9, <2>1, OnTheWay
  <2>3. CASE m = n
    BY <1>2, <1>4, <1>6, <1>8, <2>2, <2>3
  <2>4. CASE m # n
    <3>1. m \in 0 .. n - 1
      BY <1>3, <2>4
    <3> QED BY <1>2, <1>5, <1>6, <1>8, <2>2, <3>1
  <2> QED BY <2>3, <2>4
<1>10. CASE i # p
  <2>1. i \in Occupied /\ slots'[i] = slots[i]
    BY <1>6, <1>7, <1>8, <1>10 DEF Occupied
  <2>2. HashOf(i)' = HashOf(i)
    BY <2>1 DEF HashOf, hash
  <2>3. slots[j] # EMPTY
    BY <2>1, <2>2 DEF ChainInv
  <2> QED BY <1>2, <1>6, <1>8, <2>3
<1> QED BY <1>9, <1>10

LEMMA EraseKeepsChain ==
  ASSUME MapInv, ChainInv, EraseId
  PROVE  ChainInv'
<1>1. /\ slots' = slots
      /\ stranded' = stranded
      /\ hole = NoHole
  BY DEF EraseId
<1>2. NoHole \notin Slots
  BY MapAssumption DEF NoHole, Slots
<1>3. Occupied' \subseteq Occupied
  BY <1>1, <1>2 DEF Occupied
<1> QED BY <1>1, <1>3 DEF ChainInv, HashOf, hash

\* A key that moves one slot back has one slot less between it and the start of
\* its search.
LEMMA ShiftKeepsChain ==
  ASSUME MapInv, ChainInv, ShiftBack
  PROVE  ChainInv'
<1> DEFINE f == Following
<1>1. /\ hole \in Slots
      /\ slots[f] # EMPTY
      /\ Displacement(f) > 0
      /\ slots' = [slots EXCEPT ![hole] = slots[f]]
      /\ hole' = f
      /\ stranded' = stranded
  BY DEF ShiftBack, ShouldShift, MapInv
<1>2. f = Ahead(hole, 1) /\ f \in Slots
  BY <1>1, AheadIs, ProbeType, MapAssumption DEF Following, Slots
<1>3. slots \in [Slots -> Ids \cup {EMPTY}]
  BY DEF MapInv
<1> SUFFICES ASSUME ~ stranded, NEW i \in Occupied', NEW j \in Slots,
                    Back(i, j) <= Back(i, HashOf(i)')
             PROVE  slots'[j] # EMPTY
  BY <1>1 DEF ChainInv
<1>4. i \in Slots /\ i # f
  BY <1>1 DEF Occupied
<1>5. f # hole
  <2> SUFFICES ASSUME f = hole PROVE FALSE
    OBVIOUS
  <2>1. Capacity = 1
    BY <1>1, <1>2, MapAssumption DEF Ahead, Slots
  <2> QED BY <1>1, <1>2, <1>4, <2>1 DEF Slots
<1>6. f \in Occupied
  BY <1>1, <1>2, <1>5 DEF Occupied
<1>7. HashOf(f) \in Slots
  BY <1>6, HashOfType
<1>8. Displacement(f) = Back(f, HashOf(f))
  BY <1>2, <1>7, BackIs DEF Displacement, HashOf
<1>9. CASE i = hole
  <2>1. HashOf(i)' = HashOf(f)
    BY <1>1, <1>3, <1>9 DEF HashOf, hash
  <2> DEFINE k == HashOf(f)
  <2>2. Back(f, k) > 0 /\ Back(hole, j) <= Back(hole, k)
    BY <1>1, <1>8, <1>9, <2>1
  <2>3. /\ hole \in Int /\ 0 <= hole /\ hole < Capacity
        /\ k \in Int /\ 0 <= k /\ k < Capacity
        /\ j \in Int /\ 0 <= j /\ j < Capacity
        /\ Capacity \in Nat \ {0}
    BY <1>1, <1>7, MapAssumption DEF Slots
  <2>4. Back(f, j) <= Back(f, k)
    <3> HIDE DEF k
    <3> QED BY <1>2, <2>2, <2>3 DEF Back, Ahead
  <2>5. slots[j] # EMPTY
    BY <1>6, <2>4 DEF ChainInv
  <2> QED BY <1>1, <1>3, <2>5
<1>10. CASE i # hole
  <2>1. i \in Occupied /\ slots'[i] = slots[i]
    BY <1>1, <1>3, <1>4, <1>10 DEF Occupied
  <2>2. HashOf(i)' = HashOf(i)
    BY <2>1 DEF HashOf, hash
  <2>3. slots[j] # EMPTY
    BY <2>1, <2>2 DEF ChainInv
  <2> QED BY <1>1, <1>3, <2>3
<1> QED BY <1>9, <1>10

\* The slot that becomes empty is on no key's way, unless one is left behind.
LEMMA CloseKeepsChain ==
  ASSUME MapInv, ChainInv, CloseHole
  PROVE  ChainInv'
<1>1. /\ hole \in Slots
      /\ slots' = [slots EXCEPT ![hole] = EMPTY]
      /\ hole' = NoHole
      /\ stranded' = (stranded \/ LeavesBehind)
  BY DEF CloseHole, MapInv
<1>2. NoHole \notin Slots
  BY MapAssumption DEF NoHole, Slots
<1>3. slots \in [Slots -> Ids \cup {EMPTY}]
  BY DEF MapInv
<1> SUFFICES ASSUME ~ stranded, ~ LeavesBehind, NEW i \in Occupied', NEW j \in Slots,
                    Back(i, j) <= Back(i, HashOf(i)')
             PROVE  slots'[j] # EMPTY
  BY <1>1 DEF ChainInv
<1>4. i \in Occupied /\ slots'[i] = slots[i]
  BY <1>1, <1>2, <1>3 DEF Occupied
<1>5. HashOf(i)' = HashOf(i)
  BY <1>4 DEF HashOf, hash
<1>6. slots[j] # EMPTY
  BY <1>4, <1>5 DEF ChainInv
<1>7. j # hole
  <2> SUFFICES ASSUME j = hole PROVE FALSE
    OBVIOUS
  <2>1. i \in Slots /\ HashOf(i) \in Slots
    BY <1>4, HashOfType
  <2>2. Displacement(i) = Back(i, HashOf(i)) /\ (i - hole) % Capacity = Back(i, hole)
    BY <1>1, <2>1, BackIs DEF Displacement, HashOf
  <2> QED BY <1>4, <1>5, <2>2 DEF LeavesBehind, Occupied
<1> QED BY <1>1, <1>3, <1>6, <1>7

LEMMA NextChain == MapInv /\ ChainInv /\ [Next]_vars => ChainInv'
<1> SUFFICES ASSUME MapInv, ChainInv, [Next]_vars PROVE ChainInv'
  OBVIOUS
<1>1. CASE UNCHANGED vars
  BY <1>1 DEF vars, ChainInv, Occupied, HashOf, hash
<1> QED BY <1>1, InsertKeepsChain, EraseKeepsChain, ShiftKeepsChain, CloseKeepsChain
        DEF Next, Shift

\* find is exact, whatever collides, until an erase leaves a key behind: the
\* early stop of backward_shift is the only way to lose one.
THEOREM FindIsExact == Spec => []ExactUntilStranded
<1>1. Init => ChainInv
  BY DEF Init, ChainInv, Occupied
<1>2. MapInv /\ ChainInv => ExactUntilStranded
  <2> SUFFICES ASSUME MapInv, ChainInv, ~ stranded, hole = NoHole, NEW id \in Ids
               PROVE  Found(id) <=> id \in stored
    BY DEF ExactUntilStranded
  <2>1. id \in Nat /\ id # EMPTY /\ hash(id) \in Slots
    BY MapAssumption, HashType
  <2>2. NoHole \notin Slots
    BY MapAssumption DEF NoHole, Slots
  <2>3. ASSUME Found(id) PROVE id \in stored
    <3>1. PICK i \in FoundAt(id) : TRUE
      BY <2>3 DEF Found
    <3>2. i \in Slots /\ slots[i] = id
      BY <2>1, FoundAtSlot
    <3>3. i \in Occupied
      BY <2>1, <2>2, <3>2 DEF Occupied
    <3> QED BY <3>2, <3>3 DEF MapInv, EachKeyOnce
  <2>4. ASSUME id \in stored PROVE Found(id)
    <3>1. PICK i \in Occupied : slots[i] = id
      BY <2>4 DEF MapInv, EachKeyOnce
    <3>2. i \in Slots
      BY <3>1 DEF Occupied
    <3> DEFINE h == hash(id)
               n == Back(i, h)
    <3>3. /\ h \in Int /\ 0 <= h /\ h < Capacity
          /\ i \in Int /\ 0 <= i /\ i < Capacity
          /\ Capacity \in Nat \ {0}
      BY <2>1, <3>2, MapAssumption DEF Slots
    <3> HIDE DEF h
    <3>4. n \in Slots /\ n \in Nat /\ n < Capacity /\ Ahead(h, n) = i
      BY <3>3 DEF Back, Ahead, Slots
    <3>5. h \in Slots
      BY <2>1 DEF h
    <3>6. Probe(h, n) = i
      <4> HIDE DEF n
      <4> QED BY <3>3, <3>4, <3>5, AheadIs
    <3>7. ASSUME NEW m \in 0 .. n - 1
          PROVE  slots[Probe(h, m)] \notin {EMPTY, id}
      <4>1. m \in Nat /\ m < n /\ m <= Capacity
        BY <3>3, <3>4
      <4> DEFINE j == Ahead(h, m)
      <4>2. Probe(h, m) = j
        BY <3>5, <4>1, AheadIs
      <4>3. j \in Slots /\ j # i /\ Back(i, j) <= n
        <5> HIDE DEF n
        <5>1. n = Back(i, h) /\ n < Capacity
          BY <3>4 DEF n
        <5> QED BY <3>3, <4>1, <5>1 DEF Back, Ahead, Slots
      <4>4. HashOf(i) = h
        BY <3>1 DEF HashOf, h
      <4>5. slots[j] # EMPTY
        BY <4>3, <4>4 DEF ChainInv
      <4>6. j \in Occupied
        BY <2>2, <4>3, <4>5 DEF Occupied
      <4> QED BY <3>1, <4>2, <4>3, <4>5, <4>6 DEF MapInv, EachKeyOnce
    <3>8. Reaches(id, n)
      BY <3>7 DEF Reaches, h
    <3> QED BY <3>1, <3>4, <3>6, <3>8 DEF Found, FoundAt, h
  <2> QED BY <2>3, <2>4
<1> QED BY <1>1, <1>2, NextChain, MapInvariant, PTL DEF Spec

-----------------------------------------------------------------------------
(* What the users of the table rely on.  A key is found exactly if no slot   *)
(* between the start of its search and its own slot is empty; the hole, until *)
(* it is closed, holds the erased key or the key that has just left it.       *)

Clear(i) == \A j \in Slots : Back(i, j) <= Back(i, HashOf(i)) => slots[j] # EMPTY

HoleInv ==
  hole # NoHole =>
    /\ slots[hole] # EMPTY
    /\ slots[hole] \in stored =>
         /\ Displacement(hole) > 0
         /\ \E i \in Slots : hole = Ahead(i, 1) /\ slots[i] = slots[hole]

LEMMA HoleStep == MapInv /\ HoleInv /\ [Next]_vars => HoleInv'
<1> SUFFICES ASSUME MapInv, HoleInv, [Next]_vars PROVE HoleInv'
  OBVIOUS
<1>1. CASE EraseId
  <2>1. PICK id \in stored : \E i \in FoundAt(id) : hole' = i /\ stored' = stored \ {id}
    BY <1>1 DEF EraseId
  <2>2. id \in Nat /\ id # EMPTY
    BY MapAssumption DEF MapInv
  <2>3. PICK i \in FoundAt(id) : hole' = i /\ stored' = stored \ {id}
    BY <2>1
  <2>4. slots[i] = id
    BY <2>2, FoundAtSlot
  <2>5. slots' = slots
    BY <1>1 DEF EraseId
  <2> QED BY <2>2, <2>3, <2>4, <2>5 DEF HoleInv
<1>2. CASE ShiftBack
  <2>1. PICK f \in Slots : f = Following /\ f = Ahead(hole, 1)
    <3>1. hole \in Slots
      BY <1>2 DEF ShiftBack, MapInv
    <3>2. Following = Ahead(hole, 1) /\ Following \in Slots
      BY <3>1, AheadIs, ProbeType, MapAssumption DEF Following, Slots
    <3> QED BY <3>2
  <2>2. /\ hole \in Slots /\ slots[f] # EMPTY /\ Displacement(f) > 0
        /\ slots' = [slots EXCEPT ![hole] = slots[f]] /\ hole' = f
    BY <1>2, <2>1 DEF ShiftBack, ShouldShift, MapInv
  <2>3. slots'[f] = slots[f] /\ slots'[hole] = slots[f]
    BY <2>2 DEF MapInv
  <2>4. Displacement(hole)' > 0
    BY <2>2, <2>3 DEF Displacement, hash
  <2> QED BY <2>1, <2>2, <2>3, <2>4 DEF HoleInv
<1>3. CASE InsertId \/ CloseHole
  BY <1>3 DEF InsertId, CloseHole, HoleInv
<1>4. CASE UNCHANGED vars
  BY <1>4 DEF vars, HoleInv, Displacement, hash
<1> QED BY <1>1, <1>2, <1>3, <1>4 DEF Next, Shift

\* What find and erase meet, in the middle of a shift as well.
LEMMA FoundIsClear ==
  MapInv /\ HoleInv => \A i \in Occupied : Found(slots[i]) <=> Clear(i)
<1> SUFFICES ASSUME MapInv, HoleInv, NEW i \in Occupied
             PROVE  Found(slots[i]) <=> Clear(i)
  OBVIOUS
<1> DEFINE id == slots[i]
           h  == HashOf(i)
<1>1. /\ i \in Slots /\ i # hole /\ id \in stored /\ id # EMPTY
      /\ h \in Slots /\ h = hash(id)
  BY HashOfType DEF Occupied, MapInv, EachKeyOnce, HashOf
<1>2. /\ h \in Int /\ 0 <= h /\ h < Capacity
      /\ i \in Int /\ 0 <= i /\ i < Capacity
      /\ Capacity \in Nat \ {0}
  BY <1>1, MapAssumption DEF Slots
<1>3. \A m \in Slots : Probe(h, m) = Ahead(h, m)
  BY <1>1, AheadIs, MapAssumption DEF Slots
<1>4. ASSUME NEW k \in Slots, k # hole, slots[k] = id PROVE k = i
  BY <1>1, <1>4 DEF Occupied, MapInv, EachKeyOnce
\* The hole still holds the key of slot i: it is the slot after it.
<1>5. ASSUME hole \in Slots, slots[hole] = id
      PROVE  hole = Ahead(i, 1) /\ Back(hole, h) > 0 /\ Capacity > 1
  <2>1. hole # NoHole
    BY <1>5, MapAssumption DEF NoHole, Slots
  <2>2. /\ Displacement(hole) > 0
        /\ \E k \in Slots : hole = Ahead(k, 1) /\ slots[k] = id
    BY <1>1, <1>5, <2>1 DEF HoleInv
  <2>3. Displacement(hole) = Back(hole, h)
    BY <1>1, <1>5, BackIs DEF Displacement
  <2>4. Capacity > 1
    BY <1>2, <1>5, <2>2, <2>3 DEF Back, Slots
  <2>5. PICK k \in Slots : hole = Ahead(k, 1) /\ slots[k] = id
    BY <2>2
  <2>6. k # hole
    BY <1>2, <2>4, <2>5 DEF Ahead, Slots
  <2> QED BY <1>4, <2>2, <2>3, <2>4, <2>5, <2>6
<1>6. ASSUME Clear(i) PROVE Found(id)
  <2> DEFINE n == Back(i, h)
  <2> HIDE DEF h, id
  <2>1. n \in Slots /\ n \in Nat /\ n < Capacity /\ Ahead(h, n) = i
    BY <1>2 DEF Back, Ahead, Slots
  <2>2. ASSUME NEW m \in 0 .. n - 1 PROVE slots[Probe(h, m)] \notin {EMPTY, id}
    <3> DEFINE j == Ahead(h, m)
    <3>1. m \in Nat /\ m < n /\ m \in Slots
      BY <1>2, <2>1 DEF Slots
    <3>2. j \in Slots /\ j # i /\ Back(i, j) <= n
      <4> HIDE DEF n
      <4>1. n = Back(i, h) /\ n < Capacity
        BY <2>1 DEF n
      <4> QED BY <1>2, <3>1, <4>1 DEF Back, Ahead, Slots
    <3>3. slots[j] # EMPTY
      BY <1>6, <3>2 DEF Clear, h
    <3>4. ASSUME slots[j] = id PROVE FALSE
      <4>1. j = hole
        BY <1>4, <3>2, <3>4
      <4>2. j = Ahead(i, 1) /\ Back(j, h) > 0 /\ Capacity > 1
        BY <1>5, <3>2, <3>4, <4>1
      <4> HIDE DEF n
      <4>3. n = Back(i, h) /\ n < Capacity
        BY <2>1 DEF n
      <4>4. j = Ahead(h, m)
        OBVIOUS
      <4> HIDE DEF j
      <4> QED BY <1>2, <3>1, <3>2, <4>2, <4>3, <4>4 DEF Back, Ahead
    <3> QED BY <1>3, <3>1, <3>3, <3>4
  <2>3. Reaches(id, n) /\ slots[Probe(h, n)] = id
    BY <1>1, <1>3, <2>1, <2>2 DEF Reaches, id
  <2> QED BY <1>1, <2>1, <2>3 DEF Found, FoundAt
<1>7. ASSUME Found(id) PROVE Clear(i)
  <2>1. PICK n \in Slots : Reaches(id, n) /\ slots[Probe(h, n)] = id
    BY <1>1, <1>7 DEF Found, FoundAt
  <2> DEFINE p == Ahead(h, n)
  <2> HIDE DEF h
  <2>2. n \in Nat /\ p \in Slots /\ Back(p, h) = n /\ slots[p] = id
    <3>1. n \in Nat
      BY <1>2 DEF Slots
    <3>2. p \in Slots /\ Back(p, h) = n
      BY <1>1, OnTheWay
    <3>3. Probe(h, n) = p
      BY <1>3
    <3> QED BY <2>1, <3>1, <3>2, <3>3
  <2>3. \A m \in 0 .. n - 1 : m \in Slots /\ slots[Ahead(h, m)] \notin {EMPTY, id}
    <3>1. \A m \in 0 .. n - 1 : m \in Slots
      BY <1>2 DEF Slots
    <3> QED BY <1>1, <1>3, <2>1, <3>1 DEF Reaches, h
  <2>4. p # hole
    <3> SUFFICES ASSUME p = hole PROVE FALSE
      OBVIOUS
    <3>1. p = Ahead(i, 1) /\ n > 0 /\ Capacity > 1
      BY <1>5, <2>2
    <3>2. i = Ahead(h, n - 1)
      <4>1. n < Capacity
        BY <1>2 DEF Slots
      <4> QED BY <1>2, <2>2, <3>1, <4>1 DEF Ahead
    <3>3. n - 1 \in 0 .. n - 1
      BY <2>2, <3>1
    <3> QED BY <2>3, <3>2, <3>3
  <2>5. p = i
    BY <1>4, <2>2, <2>4
  <2> SUFFICES ASSUME NEW j \in Slots, Back(i, j) <= n PROVE slots[j] # EMPTY
    BY <2>2, <2>5 DEF Clear, h
  <2>6. PICK m \in 0 .. n : j = Ahead(h, m) /\ (m = n => j = p)
    BY <1>1, <2>5, OnTheWay
  <2>7. m = n \/ m \in 0 .. n - 1
    BY <2>2
  <2> QED BY <1>1, <2>2, <2>3, <2>6, <2>7
<1> QED BY <1>6, <1>7

\* The keys that no empty slot hides.
Met == {slots[i] : i \in {j \in Occupied : Clear(j)}}

MissedIs == Missed = stored \ Met

LEMMA MissedAreHidden == MapInv /\ HoleInv => MissedIs
<1> SUFFICES ASSUME MapInv, HoleInv, NEW id \in stored PROVE Found(id) <=> id \in Met
  BY DEF MissedIs, Missed
<1>1. PICK i \in Occupied : slots[i] = id
  BY DEF MapInv, EachKeyOnce
<1>2. \A j \in Occupied : slots[j] = id => j = i
  BY <1>1 DEF MapInv, EachKeyOnce
<1>3. id \in Met <=> Clear(i)
  BY <1>1, <1>2 DEF Met
<1> QED BY <1>1, <1>3, FoundIsClear

\* insert hides no key, and is found.
LEMMA InsertMeets ==
  ASSUME MapInv, InsertId
  PROVE  Met \subseteq Met' /\ stored' \ stored # {} /\ stored' \ stored \subseteq Met'
<1>1. PICK id \in Ids, n \in Slots :
        /\ id \notin stored
        /\ Free(id, n)
        /\ slots' = [slots EXCEPT ![Probe(hash(id), n)] = id]
        /\ stored' = stored \cup {id}
  BY DEF InsertId
<1> DEFINE h == hash(id)
           p == Ahead(h, n)
<1>2. /\ id \in Nat /\ id # EMPTY /\ h \in Slots
      /\ slots \in [Slots -> Ids \cup {EMPTY}]
      /\ hole = NoHole /\ hole' = NoHole
  BY MapAssumption, HashType DEF MapInv, InsertId
<1>3. \A m \in Slots : Probe(h, m) = Ahead(h, m)
  BY <1>2, AheadIs, MapAssumption DEF Slots
<1>4. p \in Slots /\ Back(p, h) = n
  BY <1>2, OnTheWay
<1>5. slots' = [slots EXCEPT ![p] = id] /\ slots[p] = EMPTY
  BY <1>1, <1>3 DEF Free
<1>6. \A m \in 0 .. n - 1 : m \in Slots /\ slots[Ahead(h, m)] # EMPTY
  <2>1. \A m \in 0 .. n - 1 : m \in Slots
    BY MapAssumption DEF Slots
  <2> QED BY <1>1, <1>3, <2>1 DEF Free
<1>7. slots'[p] = id /\ \A j \in Slots : j # p => slots'[j] = slots[j]
  BY <1>2, <1>4, <1>5
<1>8. NoHole \notin Slots
  BY MapAssumption DEF NoHole, Slots
<1>9. \A j \in Slots : slots[j] # EMPTY => slots'[j] # EMPTY
  BY <1>2, <1>5, <1>7
<1>10. ASSUME NEW i \in Occupied, Clear(i) PROVE slots[i] \in Met'
  <2>1. i \in Occupied' /\ slots'[i] = slots[i]
    BY <1>2, <1>5, <1>7 DEF Occupied
  <2>2. HashOf(i)' = HashOf(i)
    BY <2>1 DEF HashOf, hash
  <2>3. Clear(i)'
    BY <1>9, <1>10, <2>2 DEF Clear
  <2> QED BY <2>1, <2>3 DEF Met
<1>11. id \in Met'
  <2> HIDE DEF h
  <2>1. p \in Occupied'
    BY <1>2, <1>4, <1>7, <1>8 DEF Occupied
  <2>2. HashOf(p)' = h
    BY <1>7 DEF HashOf, hash, h
  <2>3. ASSUME NEW j \in Slots, Back(p, j) <= n PROVE slots'[j] # EMPTY
    <3>1. PICK m \in 0 .. n : j = Ahead(h, m) /\ (m = n => j = p)
      BY <1>2, <2>3, OnTheWay
    <3>2. m = n \/ m \in 0 .. n - 1
      BY MapAssumption DEF Slots
    <3> QED BY <1>2, <1>6, <1>7, <1>9, <3>1, <3>2
  <2>4. Clear(p)'
    BY <1>4, <2>2, <2>3 DEF Clear
  <2> QED BY <1>7, <2>1, <2>4 DEF Met
<1>12. Met \subseteq Met'
  BY <1>10 DEF Met
<1> QED BY <1>1, <1>11, <1>12

\* A key that shifts back is met as before: the slot it leaves and the one it
\* takes are both in use before and after.
LEMMA ShiftMeets ==
  ASSUME MapInv, HoleInv, ShiftBack
  PROVE  Met' = Met
<1>1. PICK h \in Slots, f \in Slots : h = hole /\ f = Following /\ f = Ahead(h, 1)
  <2>1. hole \in Slots
    BY DEF ShiftBack, MapInv
  <2>2. Following = Ahead(hole, 1) /\ Following \in Slots
    BY <2>1, AheadIs, ProbeType, MapAssumption DEF Following, Slots
  <2> QED BY <2>1, <2>2
<1>2. /\ slots[h] # EMPTY /\ slots[f] # EMPTY /\ Displacement(f) > 0
      /\ slots' = [slots EXCEPT ![h] = slots[f]] /\ hole' = f
      /\ slots \in [Slots -> Ids \cup {EMPTY}]
  BY <1>1 DEF ShiftBack, ShouldShift, HoleInv, MapInv
<1>3. /\ h \in Int /\ 0 <= h /\ h < Capacity
      /\ f \in Int /\ 0 <= f /\ f < Capacity
      /\ Capacity \in Nat \ {0}
  BY <1>1, MapAssumption DEF Slots
<1>4. /\ \A j \in Slots : slots'[j] = IF j = h THEN slots[f] ELSE slots[j]
      /\ \A j \in Slots : slots'[j] # EMPTY <=> slots[j] # EMPTY
  BY <1>1, <1>2
<1>5. hash(slots[f]) \in Slots /\ Displacement(f) = Back(f, hash(slots[f]))
  <2>1. hash(slots[f]) \in Slots
    BY <1>2, HashType, MapAssumption
  <2> QED BY <2>1, BackIs DEF Displacement
<1>6. f # h
  BY <1>1, <1>2, <1>3, <1>5 DEF Ahead, Back, Slots
<1>7. f \in Occupied /\ h \notin Occupied /\ Occupied' = (Occupied \ {f}) \cup {h}
  BY <1>1, <1>2, <1>4, <1>6 DEF Occupied
<1>8. Clear(h)' <=> Clear(f)
  <2> DEFINE k == hash(slots[f])
  <2>1. HashOf(h)' = k /\ HashOf(f) = k
    BY <1>1, <1>4 DEF HashOf, hash
  <2>2. k \in Int /\ 0 <= k /\ k < Capacity /\ Back(f, k) > 0
    BY <1>2, <1>5, MapAssumption DEF Slots
  <2> HIDE DEF k
  <2>3. ASSUME NEW j \in Slots, j # f
        PROVE  Back(h, j) <= Back(h, k) <=> Back(f, j) <= Back(f, k)
    <3>1. j \in Int /\ 0 <= j /\ j < Capacity
      BY MapAssumption DEF Slots
    <3> QED BY <1>1, <1>3, <2>2, <2>3, <3>1 DEF Back, Ahead
  <2> QED BY <1>2, <1>4, <2>1, <2>3 DEF Clear
<1>9. ASSUME NEW i \in Occupied \ {f} PROVE Clear(i)' <=> Clear(i)
  <2>1. HashOf(i)' = HashOf(i)
    BY <1>4, <1>7 DEF HashOf, hash, Occupied
  <2> QED BY <1>4, <2>1 DEF Clear
<1>10. /\ slots'[h] = slots[f]
       /\ \A i \in Occupied \ {f} : slots'[i] = slots[i]
  BY <1>1, <1>4, <1>7 DEF Occupied
<1> QED BY <1>7, <1>8, <1>9, <1>10 DEF Met

\* The last pass hides a key only if the following slot is in use, by a key that
\* is where its search begins.
LEMMA CloseMeets ==
  ASSUME MapInv, CloseHole
  PROVE  /\ Met' \subseteq Met
         /\ ~ (Met \subseteq Met') =>
              slots[Following] \in Met' /\ slots[Following] \in stored
<1>1. PICK h \in Slots, f \in Slots : h = hole /\ f = Following /\ f = Ahead(h, 1)
  <2>1. hole \in Slots
    BY DEF CloseHole, MapInv
  <2>2. Following = Ahead(hole, 1) /\ Following \in Slots
    BY <2>1, AheadIs, ProbeType, MapAssumption DEF Following, Slots
  <2> QED BY <2>1, <2>2
<1>2. /\ slots[f] = EMPTY \/ ~ Displacement(f) > 0
      /\ slots' = [slots EXCEPT ![h] = EMPTY] /\ hole' = NoHole
      /\ slots \in [Slots -> Ids \cup {EMPTY}]
  BY <1>1 DEF CloseHole, ShouldShift, MapInv
<1>3. /\ h \in Int /\ 0 <= h /\ h < Capacity
      /\ f \in Int /\ 0 <= f /\ f < Capacity
      /\ Capacity \in Nat \ {0}
  BY <1>1, MapAssumption DEF Slots
<1>4. /\ \A j \in Slots : slots'[j] = IF j = h THEN EMPTY ELSE slots[j]
      /\ NoHole \notin Slots
  BY <1>2, MapAssumption DEF NoHole, Slots
<1>5. /\ Occupied' = Occupied /\ h \notin Occupied
      /\ \A i \in Occupied : slots'[i] = slots[i] /\ HashOf(i)' = HashOf(i)
  <2>1. Occupied' = Occupied /\ h \notin Occupied
    BY <1>1, <1>2, <1>4 DEF Occupied
  <2>2. \A i \in Occupied : slots'[i] = slots[i]
    BY <1>4, <2>1 DEF Occupied
  <2> QED BY <2>1, <2>2 DEF HashOf, hash
<1>6. \A i \in Occupied : Clear(i)' => Clear(i)
  BY <1>4, <1>5 DEF Clear
<1>7. Met' \subseteq Met
  BY <1>5, <1>6 DEF Met
<1>8. ASSUME ~ (Met \subseteq Met')
      PROVE  slots[f] \in Met' /\ slots[f] \in stored
  <2>1. PICK i \in Occupied : Clear(i) /\ ~ Clear(i)'
    BY <1>5, <1>8 DEF Met
  <2>2. i \in Slots /\ HashOf(i) \in Slots /\ i # h
    BY <1>5, <2>1, HashOfType
  <2>3. Back(i, h) <= Back(i, HashOf(i))
    BY <1>4, <1>5, <2>1 DEF Clear
  <2>4. Back(i, f) <= Back(i, HashOf(i))
    <3>1. /\ i \in Int /\ 0 <= i /\ i < Capacity
          /\ HashOf(i) \in Int /\ 0 <= HashOf(i) /\ HashOf(i) < Capacity
      BY <2>2, MapAssumption DEF Slots
    <3> QED BY <1>1, <1>3, <2>2, <2>3, <3>1 DEF Back, Ahead
  <2>5. slots[f] # EMPTY
    BY <2>1, <2>4 DEF Clear
  <2>6. f # h
    <3>1. i \in Int /\ 0 <= i /\ i < Capacity
      BY <2>2, MapAssumption DEF Slots
    <3> QED BY <1>1, <1>3, <2>2, <3>1 DEF Ahead
  <2>7. f \in Occupied
    BY <1>1, <2>5, <2>6 DEF Occupied
  <2>8. Back(f, HashOf(f)) = 0
    <3>1. HashOf(f) \in Slots
      BY <2>7, HashOfType
    <3>2. Displacement(f) = Back(f, HashOf(f))
      BY <3>1, BackIs DEF Displacement, HashOf
    <3>3. Back(f, HashOf(f)) \in Nat
      BY <1>3, <3>1, MapAssumption DEF Back, Slots
    <3> QED BY <1>2, <2>5, <3>2, <3>3
  <2>9. \A j \in Slots : Back(f, j) <= 0 => j = f
    BY <1>3, MapAssumption DEF Back, Slots
  <2>10. Clear(f)'
    BY <1>4, <1>5, <2>5, <2>6, <2>7, <2>8, <2>9 DEF Clear
  <2> QED BY <1>5, <2>7, <2>10 DEF Met, MapInv, EachKeyOnce
<1> QED BY <1>1, <1>7, <1>8

\* Whatever collides, the table does to its users what OrderBook assumes: an
\* insert is found and hides no key, only an insert may bring a missed key back,
\* and an erase hides keys only when it stops early, at one that is still found.
THEOREM TableKeepsItsContract == Spec => LosesOnlyPastAStop
<1> DEFINE Contract ==
      /\ Missed \ Missed' # {} => stored' \ stored # {}
      /\ Missed' \ Missed # {} => CloseHole /\ slots[Following] \in stored' \ Missed'
<1>1. ASSUME MapInv, HoleInv, MissedIs, MissedIs', [Next]_vars
      PROVE  [Contract]_vars
  <2>1. CASE InsertId
    <3>1. stored \subseteq stored'
      BY <2>1 DEF InsertId
    <3> QED BY <1>1, <2>1, <3>1, InsertMeets DEF MissedIs
  <2>2. CASE EraseId
    <3>1. PICK id \in stored : Found(id) /\ stored' = stored \ {id} /\ slots' = slots
      BY <2>2 DEF EraseId, Found
    <3>2. \A k : Found(k)' = Found(k)
      BY <3>1 DEF Found, FoundAt, Reaches, hash
    <3> QED BY <3>1, <3>2 DEF Missed
  <2>3. CASE ShiftBack
    <3>1. stored' = stored /\ Met' = Met
      BY <1>1, <2>3, ShiftMeets DEF ShiftBack
    <3> QED BY <1>1, <3>1 DEF MissedIs
  <2>4. CASE CloseHole
    <3>1. stored' = stored
      BY <2>4 DEF CloseHole
    <3> QED BY <1>1, <2>4, <3>1, CloseMeets DEF MissedIs
  <2> QED BY <1>1, <2>1, <2>2, <2>3, <2>4 DEF Next, Shift
<1>2. Init => HoleInv
  BY DEF Init, HoleInv
<1> QED BY <1>1, <1>2, HoleStep, MissedAreHidden, MapInvariant, PTL
        DEF Spec, LosesOnlyPastAStop

-----------------------------------------------------------------------------
(* erase comes to an end.  On a full table the hole may come back to where  *)
(* it began, but each pass brings a key one slot nearer to where its        *)
(* search begins.                                                           *)

Away == [i \in Slots |-> [remaining |-> Displacement(i)]]

\* How far the keys of the map are, all together, from where their searches
\* begin.
TotalAway == SharesLeft(Away, Occupied)

\* Every pass of backward_shift that goes on lowers a number that is never
\* below zero.
ShiftsGetNearer == ShiftBack => TotalAway' = TotalAway - 1

LEMMA SlotsFinite == IsFiniteSet(Slots)
<1>1. 0 \in Int /\ Capacity - 1 \in Int
  BY MapAssumption
<1> QED BY <1>1, FS_Interval DEF Slots

LEMMA OccupiedFinite == IsFiniteSet(Occupied) /\ Occupied \in SUBSET Slots
<1>1. Occupied \in SUBSET Slots
  BY DEF Occupied
<1> QED BY <1>1, SlotsFinite, FS_Subset

AwayTyped ==
  \A i \in Occupied : Away[i].remaining \in Nat /\ Away[i].remaining = Displacement(i)

LEMMA AwayType == MapInv => AwayTyped
<1> SUFFICES ASSUME MapInv, NEW i \in Occupied
             PROVE  Away[i].remaining \in Nat /\ Away[i].remaining = Displacement(i)
  BY DEF AwayTyped
<1>1. i \in Slots /\ slots[i] \in Nat
  BY MapAssumption DEF Occupied, MapInv
<1>2. Displacement(i) \in Nat
  <2>1. hash(slots[i]) \in Slots
    BY <1>1, HashType
  <2>2. PICK d \in Int : d = i - hash(slots[i])
    BY <1>1, <2>1 DEF Slots
  <2>3. d % Capacity \in Nat
    BY MapAssumption
  <2> QED BY <2>2, <2>3 DEF Displacement
<1> QED BY <1>1, <1>2 DEF Away

LEMMA TotalAwayType ==
  ASSUME MapInv
  PROVE  TotalAway \in Nat
BY OccupiedFinite, AwayType, SharesLeftNat DEF TotalAway, AwayTyped

\* The key that moves into the hole is the only one that moves, by one slot.
LEMMA ShiftNearer ==
  ASSUME MapInv, MapInv', ShiftBack
  PROVE  TotalAway' = TotalAway - 1
<1>1. /\ hole \in Slots
      /\ slots[Following] # EMPTY
      /\ Displacement(Following) > 0
      /\ slots' = [slots EXCEPT ![hole] = slots[Following]]
      /\ hole' = Following
  BY DEF ShiftBack, ShouldShift, MapInv
<1>2. slots \in [Slots -> Ids \cup {EMPTY}]
  BY DEF MapInv
<1>3. PICK h \in Slots, f \in Slots : h = hole /\ f = Following /\ f = Ahead(h, 1)
  BY <1>1, AheadIs, ProbeType, MapAssumption DEF Following, Slots
<1>4. PICK k \in Slots : k = hash(slots[f]) /\ slots[f] \in Nat
  <2>1. slots[f] \in Nat
    BY <1>1, <1>2, <1>3, MapAssumption
  <2> QED BY <2>1, HashType
<1>5. Displacement(f) = Back(f, k) /\ Back(f, k) > 0
  BY <1>1, <1>3, <1>4, BackIs DEF Displacement
<1>6. f # h
  <2> SUFFICES ASSUME f = h PROVE FALSE
    OBVIOUS
  <2>1. Capacity = 1
    BY <1>3, MapAssumption DEF Ahead, Slots
  <2> QED BY <1>5, <2>1, MapAssumption DEF Back, Slots
<1>7. slots'[h] = slots[f] /\ \A i \in Slots \ {h} : slots'[i] = slots[i]
  BY <1>1, <1>2, <1>3
<1>8. Back(h, k) = Back(f, k) - 1
  <2>1. /\ h \in Int /\ 0 <= h /\ h < Capacity
        /\ k \in Int /\ 0 <= k /\ k < Capacity
        /\ Capacity \in Nat \ {0}
    BY MapAssumption DEF Slots
  <2> QED BY <1>3, <1>5, <2>1 DEF Back, Ahead
<1>9. Displacement(h)' = Displacement(f) - 1
  <2>1. Displacement(h)' = (h - k) % Capacity
    BY <1>4, <1>7 DEF Displacement, hash
  <2> QED BY <1>5, <1>8, <2>1, BackIs
<1>10. PICK S : S = Occupied
  OBVIOUS
<1>11. PICK T : T = Occupied'
  OBVIOUS
<1>12. f \in S /\ h \notin S /\ T = (S \ {f}) \cup {h}
  BY <1>1, <1>2, <1>3, <1>6, <1>7, <1>10, <1>11 DEF Occupied
<1>13. PICK before : before = Away
  OBVIOUS
<1>14. PICK after : after = Away'
  OBVIOUS
<1>15. \A i \in S : before[i].remaining \in Int /\ before[i].remaining = Displacement(i)
  BY <1>10, <1>13, AwayType DEF AwayTyped
<1>16. \A i \in T : after[i].remaining \in Int /\ after[i].remaining = Displacement(i)'
  <2>1. (MapInv => AwayTyped)'
    BY AwayType, PTL
  <2> QED BY <1>11, <1>14, <2>1 DEF AwayTyped
<1>17. \A i \in S \ {f} : before[i].remaining = after[i].remaining
  <2> SUFFICES ASSUME NEW i \in S \ {f} PROVE before[i].remaining = after[i].remaining
    OBVIOUS
  <2>1. i \in Slots \ {h}
    BY <1>10, <1>12 DEF Occupied
  <2>2. Displacement(i)' = Displacement(i)
    BY <1>7, <2>1 DEF Displacement, hash
  <2> QED BY <1>12, <1>15, <1>16, <2>2
<1>18. PICK R \in SUBSET S : R = S \ {f} /\ R = T \ {h}
  BY <1>12
<1>19. IsFiniteSet(S) /\ IsFiniteSet(T)
  <2>1. IsFiniteSet(S)
    BY <1>10, OccupiedFinite
  <2>2. IsFiniteSet(R)
    BY <2>1, FS_Subset
  <2>3. IsFiniteSet(R \cup {h})
    BY <2>2, FS_AddElement
  <2>4. T = R \cup {h}
    BY <1>12, <1>18
  <2> QED BY <2>1, <2>3, <2>4
<1>20. IsFiniteSet(R)
  BY <1>19, FS_Subset
<1>21. SharesLeft(before, S) = before[f].remaining + SharesLeft(before, R)
  BY <1>12, <1>15, <1>18, <1>19, SharesLeftWithout
<1>22. SharesLeft(after, T) = after[h].remaining + SharesLeft(after, R)
  BY <1>12, <1>16, <1>18, <1>19, SharesLeftWithout
<1>23. SharesLeft(before, R) = SharesLeft(after, R)
  BY <1>17, <1>18, <1>20, SharesLeftSame
<1>24. SharesLeft(before, R) \in Int
  BY <1>15, <1>18, <1>20, SharesLeftInt
<1>25. SharesLeft(after, T) = SharesLeft(before, S) - 1
  <2>1. after[h].remaining = before[f].remaining - 1
    BY <1>3, <1>9, <1>12, <1>15, <1>16
  <2>2. before[f].remaining \in Int
    BY <1>12, <1>15
  <2> QED BY <1>21, <1>22, <1>23, <1>24, <2>1, <2>2
<1>26. TotalAway = SharesLeft(before, S)
  BY <1>10, <1>13 DEF TotalAway
<1>27. TotalAway' = SharesLeft(after, T)
  BY <1>11, <1>14 DEF TotalAway
<1> QED BY <1>25, <1>26, <1>27

\* The loop of backward_shift ends, also on a full table: every pass that goes
\* on brings the keys one slot nearer to where their searches begin, all
\* together, and they are never nearer than that.
THEOREM ShiftingEnds == Spec => [](TotalAway \in Nat) /\ [][ShiftsGetNearer]_vars
<1>1. MapInv => TotalAway \in Nat
  BY TotalAwayType
<1>2. MapInv /\ MapInv' /\ [Next]_vars => [ShiftsGetNearer]_vars
  BY ShiftNearer DEF ShiftsGetNearer
<1> QED BY <1>1, <1>2, MapInvariant, PTL DEF Spec

=============================================================================
