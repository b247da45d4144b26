--------------------------- MODULE OrderBookProofs ---------------------------
(* Theorems about OrderBook, for every value of its constants.             *)
EXTENDS OrderBook, FiniteSums, SequenceTheorems

-----------------------------------------------------------------------------
(* Operators on queues                                                     *)

\* An empty list links nothing.
LEMMA EmptyHasNone == ToSet(<< >>) = {}
BY DEF ToSet

\* push_back links the new order and keeps the others linked once.
LEMMA AppendLinks ==
  ASSUME NEW S, NEW q \in Seq(S), NEW i \in S
  PROVE  /\ Append(q, i) \in Seq(S)
         /\ Append(q, i) # << >>
         /\ ToSet(Append(q, i)) = ToSet(q) \cup {i}
         /\ IsInjective(q) /\ i \notin ToSet(q) => IsInjective(Append(q, i))
<1> DEFINE r == Append(q, i)
<1>1. /\ Len(q) \in Nat
      /\ DOMAIN q = 1 .. Len(q)
      /\ r \in Seq(S)
      /\ Len(r) = Len(q) + 1
      /\ DOMAIN r = 1 .. Len(q) + 1
      /\ \A k \in 1 .. Len(q) : r[k] = q[k]
      /\ r[Len(q) + 1] = i
  BY AppendProperties
<1>2. r # << >>
  BY <1>1
<1> HIDE DEF r
<1>3. ToSet(r) = ToSet(q) \cup {i}
  <2>1. ASSUME NEW x \in ToSet(r) PROVE x \in ToSet(q) \cup {i}
    BY <1>1 DEF ToSet
  <2>2. ASSUME NEW x \in ToSet(q) PROVE x \in ToSet(r)
    BY <1>1 DEF ToSet
  <2>3. i \in ToSet(r)
    BY <1>1 DEF ToSet
  <2> QED BY <2>1, <2>2, <2>3
<1>4. ASSUME IsInjective(q), i \notin ToSet(q) PROVE IsInjective(r)
  BY <1>1, <1>4 DEF ToSet, IsInjective
<1> QED BY <1>1, <1>2, <1>3, <1>4 DEF r

\* Unlinking the head of a list that links every order once drops that order.
LEMMA TailUnlinks ==
  ASSUME NEW S, NEW q \in Seq(S), q # << >>, IsInjective(q)
  PROVE  /\ Head(q) \in S
         /\ Head(q) \in ToSet(q)
         /\ Tail(q) \in Seq(S)
         /\ ToSet(Tail(q)) = ToSet(q) \ {Head(q)}
         /\ IsInjective(Tail(q))
<1>1. /\ Len(q) \in Nat \ {0}
      /\ DOMAIN q = 1 .. Len(q)
      /\ \A k \in 1 .. Len(q) : q[k] \in S
  OBVIOUS
<1>2. /\ Tail(q) \in Seq(S)
      /\ DOMAIN Tail(q) = 1 .. Len(q) - 1
      /\ \A k \in 1 .. Len(q) - 1 : Tail(q)[k] = q[k + 1]
      /\ Head(q) = q[1]
  BY <1>1
<1>3. ToSet(Tail(q)) = ToSet(q) \ {Head(q)}
  <2>1. ASSUME NEW x \in ToSet(Tail(q)) PROVE x \in ToSet(q) \ {Head(q)}
    BY <1>1, <1>2 DEF ToSet, IsInjective
  <2>2. ASSUME NEW x \in ToSet(q), x # Head(q) PROVE x \in ToSet(Tail(q))
    <3>1. PICK k \in 1 .. Len(q) : q[k] = x
      BY <1>1 DEF ToSet
    <3>2. k - 1 \in 1 .. Len(q) - 1 /\ Tail(q)[k - 1] = x
      BY <1>1, <1>2, <2>2, <3>1
    <3> QED BY <1>2, <3>2 DEF ToSet
  <2> QED BY <2>1, <2>2
<1>4. IsInjective(Tail(q))
  BY <1>1, <1>2 DEF IsInjective
<1>5. Head(q) \in S /\ Head(q) \in ToSet(q)
  BY <1>1, <1>2 DEF ToSet
<1> QED BY <1>2, <1>3, <1>4, <1>5

\* remove closes the gap: the orders behind move up by one place.
LEMMA RemoveShifts ==
  ASSUME NEW S, NEW q \in Seq(S), NEW i \in ToSet(q)
  PROVE  LET k == PositionIn(q, i)
             r == RemoveAt(q, k)
         IN /\ k \in 1 .. Len(q)
            /\ q[k] = i
            /\ r \in Seq(S)
            /\ DOMAIN r = 1 .. Len(q) - 1
            /\ Len(r) = Len(q) - 1
            /\ \A m \in 1 .. Len(q) - 1 : r[m] = IF m < k THEN q[m] ELSE q[m + 1]
<1> DEFINE k == PositionIn(q, i)
           r == RemoveAt(q, k)
<1>1. /\ Len(q) \in Nat
      /\ DOMAIN q = 1 .. Len(q)
      /\ \A m \in 1 .. Len(q) : q[m] \in S
  OBVIOUS
<1>2. k \in 1 .. Len(q) /\ q[k] = i
  BY <1>1 DEF ToSet, PositionIn
<1> HIDE DEF k
<1> DEFINE before == SubSeq(q, 1, k - 1)
           after == SubSeq(q, k + 1, Len(q))
<1>3. /\ before \in Seq(S)
      /\ Len(before) = k - 1
      /\ \A m \in 1 .. k - 1 : before[m] = q[m]
      /\ after \in Seq(S)
      /\ Len(after) = Len(q) - k
      /\ \A m \in 1 .. Len(q) - k : after[m] = q[k + m]
  <2>1. \A m \in 1 .. k - 1 : q[m] \in S
    BY <1>1, <1>2
  <2>2. \A m \in k + 1 .. Len(q) : q[m] \in S
    BY <1>1, <1>2
  <2>3. /\ before \in Seq(S)
        /\ Len(before) = IF 1 <= k - 1 THEN k - 1 - 1 + 1 ELSE 0
        /\ \A m \in 1 .. k - 1 - 1 + 1 : before[m] = q[1 + m - 1]
    BY <1>2, <2>1, SubSeqProperties
  <2>4. /\ after \in Seq(S)
        /\ Len(after) = IF k + 1 <= Len(q) THEN Len(q) - (k + 1) + 1 ELSE 0
        /\ \A m \in 1 .. Len(q) - (k + 1) + 1 : after[m] = q[k + 1 + m - 1]
    <3>1. k + 1 \in Int /\ Len(q) \in Int
      BY <1>1, <1>2
    <3> QED BY <2>2, <3>1, SubSeqProperties
  <2> HIDE DEF before, after
  <2>5. Len(before) = k - 1 /\ \A m \in 1 .. k - 1 : before[m] = q[m]
    BY <1>1, <1>2, <2>3
  <2>6. Len(after) = Len(q) - k
    <3>1. Len(after) = IF k + 1 <= Len(q) THEN Len(q) - (k + 1) + 1 ELSE 0
      BY <2>4
    <3>2. k \in 1 .. Len(q) /\ Len(q) \in Nat
      BY <1>1, <1>2
    <3> QED BY <3>1, <3>2
  <2>7. ASSUME NEW m \in 1 .. Len(q) - k PROVE after[m] = q[k + m]
    <3>1. m \in 1 .. Len(q) - (k + 1) + 1 /\ k + 1 + m - 1 = k + m
      BY <1>1, <1>2
    <3> QED BY <2>4, <3>1
  <2> QED BY <2>3, <2>4, <2>5, <2>6, <2>7
<1> HIDE DEF before, after
<1>4. /\ r \in Seq(S)
      /\ Len(r) = Len(q) - 1
      /\ DOMAIN r = 1 .. Len(q) - 1
      /\ \A m \in 1 .. Len(q) - 1 : r[m] = IF m < k THEN q[m] ELSE q[m + 1]
  <2>1. r = before \o after
    BY DEF RemoveAt, r, before, after
  <2>2. /\ r \in Seq(S)
        /\ Len(r) = Len(before) + Len(after)
        /\ \A m \in 1 .. Len(before) + Len(after) :
             r[m] = IF m <= Len(before) THEN before[m] ELSE after[m - Len(before)]
    <3> HIDE DEF r
    <3> QED BY <1>3, <2>1, ConcatProperties
  <2> HIDE DEF r
  <2>3. Len(r) = Len(q) - 1 /\ DOMAIN r = 1 .. Len(q) - 1
    BY <1>1, <1>2, <1>3, <2>2
  <2>4. ASSUME NEW m \in 1 .. Len(q) - 1
        PROVE  r[m] = IF m < k THEN q[m] ELSE q[m + 1]
    <3>1. r[m] = IF m <= k - 1 THEN before[m] ELSE after[m - (k - 1)]
      BY <1>1, <1>2, <1>3, <2>2
    <3>2. CASE m < k
      BY <1>2, <1>3, <3>1, <3>2
    <3>3. CASE ~ (m < k)
      <4>1. m - (k - 1) \in 1 .. Len(q) - k /\ k + (m - (k - 1)) = m + 1
        BY <1>1, <1>2, <3>3
      <4> QED BY <1>2, <1>3, <3>1, <3>3, <4>1
    <3> QED BY <3>2, <3>3
  <2> QED BY <2>2, <2>3, <2>4
<1> QED BY <1>2, <1>4 DEF k

\* remove drops the one order it is called for, wherever it stands in the list.
LEMMA RemoveUnlinks ==
  ASSUME NEW S, NEW q \in Seq(S), IsInjective(q), NEW i \in ToSet(q)
  PROVE  LET r == RemoveAt(q, PositionIn(q, i)) IN
         /\ r \in Seq(S)
         /\ ToSet(r) = ToSet(q) \ {i}
         /\ IsInjective(r)
<1> DEFINE k == PositionIn(q, i)
           r == RemoveAt(q, k)
<1>1. /\ Len(q) \in Nat
      /\ DOMAIN q = 1 .. Len(q)
      /\ \A m \in 1 .. Len(q) : q[m] \in S
  OBVIOUS
<1>2. k \in 1 .. Len(q) /\ q[k] = i
  BY RemoveShifts
<1>3. /\ r \in Seq(S)
      /\ DOMAIN r = 1 .. Len(q) - 1
      /\ \A m \in 1 .. Len(q) - 1 : r[m] = IF m < k THEN q[m] ELSE q[m + 1]
  BY RemoveShifts
<1> HIDE DEF k, r
<1>4. ASSUME NEW x \in ToSet(r) PROVE x \in ToSet(q) \ {i}
  <2>1. PICK j \in 1 .. Len(q) - 1 : r[j] = x
    BY <1>3 DEF ToSet
  <2>2. CASE j < k
    <3>1. j \in 1 .. Len(q) /\ q[j] = x /\ j # k
      BY <1>1, <1>2, <1>3, <2>1, <2>2
    <3> QED BY <1>1, <1>2, <3>1 DEF ToSet, IsInjective
  <2>3. CASE ~ (j < k)
    <3>1. j + 1 \in 1 .. Len(q) /\ q[j + 1] = x /\ j + 1 # k
      BY <1>1, <1>2, <1>3, <2>1, <2>3
    <3> QED BY <1>1, <1>2, <3>1 DEF ToSet, IsInjective
  <2> QED BY <2>2, <2>3
<1>5. ASSUME NEW x \in ToSet(q), x # i PROVE x \in ToSet(r)
  <2>1. PICK m \in 1 .. Len(q) : q[m] = x
    BY <1>1 DEF ToSet
  <2>2. CASE m < k
    <3>1. m \in 1 .. Len(q) - 1 /\ r[m] = x
      BY <1>1, <1>2, <1>3, <2>1, <2>2
    <3> QED BY <1>3, <3>1 DEF ToSet
  <2>3. CASE m > k
    <3>1. m - 1 \in 1 .. Len(q) - 1 /\ r[m - 1] = x
      BY <1>1, <1>2, <1>3, <2>1, <2>3
    <3> QED BY <1>3, <3>1 DEF ToSet
  <2>4. m # k
    BY <1>2, <1>5, <2>1
  <2> QED BY <1>2, <2>1, <2>2, <2>3, <2>4
<1>6. IsInjective(r)
  BY <1>1, <1>2, <1>3, SMTT(30) DEF IsInjective
<1> QED BY <1>3, <1>4, <1>5, <1>6 DEF r, k

-----------------------------------------------------------------------------
(* The inductive invariant.  TypeOK alone is not inductive: match reads the *)
(* order at the head of a level, and only QueuedOnce says it is a live one. *)

CallOK ==
  /\ pc # "idle" => call \in Call
  /\ pc \in {"match", "finish"} => call.id \in Live
  /\ pc = "readd" => call.id \notin Keys

IndInv == TypeOK /\ CallOK /\ QueuedOnce

LEMMA WrapType ==
  ASSUME NEW n \in Int
  PROVE  Wrap(n) \in 0 .. QtyModulus - 1
BY BookAssumption DEF Wrap

\* Replacing one level of a book leaves all others alone.
LEMMA LevelReplaced ==
  ASSUME NEW lv \in [Sides -> [Prices -> Level]],
         NEW s \in Sides, NEW p \in Prices, NEW l \in Level
  PROVE  LET new == [lv EXCEPT ![s][p] = l] IN
         /\ new \in [Sides -> [Prices -> Level]]
         /\ new[s][p] = l
         /\ \A t \in Sides, r \in Prices : t # s \/ r # p => new[t][r] = lv[t][r]
OBVIOUS

\* The three ways an operation changes a level keep its type.
LEMMA LevelOps ==
  ASSUME NEW l \in Level, NEW i \in Ids, NEW n \in Int
  PROVE  /\ PushBack(l, i, n) \in Level
         /\ IsInjective(l.queue) /\ i \in ToSet(l.queue) => Unlink(l, i, n) \in Level
         /\ IsInjective(l.queue) /\ l.queue # << >> =>
              \A filled \in BOOLEAN : FillHead(l, n, filled) \in Level
<1>1. l.queue \in Seq(Ids) /\ l.total_quantity \in Int
  BY BookAssumption DEF Level
<1> DEFINE sum == l.total_quantity + n
           rest == l.total_quantity - n
<1>a. sum \in Int /\ rest \in Int
  BY <1>1
<1> HIDE DEF sum, rest
<1>b. Wrap(sum) \in 0 .. QtyModulus - 1 /\ Wrap(rest) \in 0 .. QtyModulus - 1
  BY <1>a, WrapType
<1>2. Wrap(l.total_quantity + n) \in 0 .. QtyModulus - 1
  BY <1>b DEF sum
<1>3. Wrap(l.total_quantity - n) \in 0 .. QtyModulus - 1
  BY <1>b DEF rest
<1>4. PushBack(l, i, n) \in Level
  BY <1>1, <1>2, AppendLinks DEF PushBack, Level
<1>5. ASSUME IsInjective(l.queue), i \in ToSet(l.queue)
      PROVE  Unlink(l, i, n) \in Level
  BY <1>1, <1>3, <1>5, RemoveUnlinks DEF Unlink, Level
<1>6. ASSUME IsInjective(l.queue), l.queue # << >>, NEW filled \in BOOLEAN
      PROVE  FillHead(l, n, filled) \in Level
  BY <1>1, <1>3, <1>6, TailUnlinks DEF FillHead, Level
<1> QED BY <1>4, <1>5, <1>6

\* Erasing the key of an order that leaves the book, found or missed, keeps the
\* record of what is wrong with the table; a found key leaves no entry behind.
LEMMA EraseKeepsTable ==
  ASSUME TypeOK, NEW i \in Live, Live' = Live \ {i}, TableEraseUnchecked(i)
  PROVE  /\ stranded' \subseteq Live'
         /\ leftover' \subseteq Ids \ Live'
         /\ TableErase(i) => leftover' = leftover
<1>1. CASE TableErase(i)
  <2>1. PICK lost \in SUBSET (Findable \ {i}) : stranded' = stranded \cup lost
    BY <1>1 DEF TableErase
  <2>2. i \notin stranded /\ leftover' = leftover
    BY <1>1 DEF TableErase, Findable
  <2> QED BY <2>1, <2>2 DEF TypeOK, Findable
<1>2. CASE TableMiss(i)
  BY <1>2 DEF TableMiss, TableErase, Findable, TypeOK
<1> QED BY <1>1, <1>2 DEF TableEraseUnchecked

-----------------------------------------------------------------------------
(* Every step keeps the invariant.                                         *)

LEMMA InitInv == Init => IndInv
<1> SUFFICES ASSUME Init PROVE IndInv
  OBVIOUS
<1> USE BookAssumption
<1>1. Live = {} /\ InFlight = {}
  BY DEF Init, Live, InFlight
<1>2. EmptyLevel \in Level
  BY DEF EmptyLevel, Level
<1>3. TypeOK
  BY <1>1, <1>2 DEF Init, TypeOK, Live, Sides, Prices, CallPrices
<1>4. CallOK
  BY DEF Init, CallOK
<1>5. QueuedOnce
  <2> SUFFICES ASSUME NEW s \in Sides, NEW p \in Prices
               PROVE  /\ IsInjective(levels[s][p].queue)
                      /\ ToSet(levels[s][p].queue) = OrdersAt(s, p)
    BY DEF QueuedOnce
  <2>1. levels[s][p].queue = << >>
    BY DEF Init, EmptyLevel
  <2>2. IsInjective(<< >>) /\ ToSet(<< >>) = {}
    BY DEF IsInjective, ToSet
  <2> QED BY <1>1, <2>1, <2>2 DEF OrdersAt
<1> QED BY <1>3, <1>4, <1>5 DEF IndInv

LEMMA AcceptInv ==
  ASSUME IndInv, pc \in {"idle", "readd"},
         NEW c \in Call, c.id \notin Keys, Accept(c)
  PROVE  IndInv'
<1> USE BookAssumption
<1> DEFINE o == [price |-> c.price, remaining |-> c.qty, side |-> c.side]
<1>1. o \in Order /\ c.id \in Ids
  <2>1. /\ c.id \in Ids
        /\ c.price \in 0 .. MaxPriceLevels
        /\ c.qty \in 0 .. QtyModulus - 1
        /\ c.side \in Sides
    BY DEF Call
  <2>2. c.price < MaxPriceLevels
    BY DEF Accept
  <2>3. c.price \in Prices
    BY <2>1, <2>2 DEF Prices
  <2> QED BY <2>1, <2>3 DEF Order
<1>a. c.id \notin Live
  BY DEF Keys
<1>2. /\ Live' = Live \cup {c.id}
      /\ order_map'[c.id] = o
      /\ \A j \in Live : order_map'[j] = order_map[j]
  BY <1>a DEF Accept, Insert, Live, IndInv, TypeOK
<1>3. order_map' \in [Live' -> Order]
  BY <1>1 DEF Accept, Insert, Live, IndInv, TypeOK
<1>4. TypeOK'
  <2>1. pc' \in {"match", "finish"}
    BY DEF Accept
  <2>2. call' \in Call
    BY DEF Accept
  <2>3. in_use' \in Int
    BY DEF Accept, IndInv, TypeOK
  <2>4. stranded' \subseteq Live' /\ leftover' \subseteq Ids \ Live'
    BY <1>2 DEF Accept, TableInsert, Keys, IndInv, TypeOK
  <2>5. /\ Live' \subseteq Ids
        /\ UNCHANGED <<levels, best, total_qty, queue_len>>
    BY <1>1, <1>2 DEF Accept, IndInv, TypeOK
  <2> QED BY <1>3, <2>1, <2>2, <2>3, <2>4, <2>5 DEF IndInv, TypeOK
<1>5. CallOK'
  BY <1>2 DEF Accept, CallOK
<1>6. InFlight = {} /\ InFlight' = {c.id}
  BY DEF Accept, InFlight
<1>7. \A s \in Sides, p \in Prices : OrdersAt(s, p)' = OrdersAt(s, p)
  BY <1>a, <1>2, <1>6 DEF OrdersAt
<1>8. QueuedOnce'
  BY <1>7 DEF Accept, IndInv, QueuedOnce
<1> QED BY <1>4, <1>5, <1>8 DEF IndInv

\* The common part of a cancel and of the first half of a slow modify.
LEMMA WithdrawInv ==
  ASSUME IndInv, pc = "idle", pc' \in {"idle", "readd"},
         call' \in Call \cup {NoCall},
         NEW i \in Live, Withdraw(i)
  PROVE  /\ TypeOK'
         /\ QueuedOnce'
         /\ Live' = Live \ {i}
         /\ Keys' = Keys \ {i}
<1> USE BookAssumption
<1> DEFINE s == order_map[i].side
           p == order_map[i].price
           n == order_map[i].remaining
           l == Unlink(levels[s][p], i, n)
<1>1. /\ i \in Ids
      /\ s \in Sides
      /\ p \in Prices
      /\ n \in 0 .. QtyModulus - 1
  BY DEF IndInv, TypeOK, Order
<1>2. /\ levels[s][p] \in Level
      /\ IsInjective(levels[s][p].queue)
      /\ ToSet(levels[s][p].queue) = OrdersAt(s, p)
      /\ levels \in [Sides -> [Prices -> Level]]
  BY <1>1 DEF IndInv, TypeOK, QueuedOnce
<1>3. InFlight = {} /\ InFlight' = {}
  BY DEF InFlight
<1>4. i \in OrdersAt(s, p)
  BY <1>3 DEF OrdersAt
<1>5. l \in Level
  BY <1>1, <1>2, <1>4, LevelOps
<1>6. /\ IsInjective(l.queue)
      /\ ToSet(l.queue) = OrdersAt(s, p) \ {i}
  <2>1. levels[s][p].queue \in Seq(Ids)
    BY <1>2 DEF Level
  <2>2. i \in ToSet(levels[s][p].queue)
    BY <1>2, <1>4
  <2> QED BY <1>2, <2>1, <2>2, RemoveUnlinks DEF Unlink
<1> HIDE DEF l
<1>7. /\ levels' \in [Sides -> [Prices -> Level]]
      /\ levels'[s][p] = l
      /\ \A t \in Sides, r \in Prices : t # s \/ r # p => levels'[t][r] = levels[t][r]
  <2>1. levels' = [levels EXCEPT ![s][p] = l]
    BY DEF Withdraw, l
  <2> HIDE DEF s, p
  <2> QED BY <1>1, <1>2, <1>5, <2>1, LevelReplaced
<1>8. /\ Live' = Live \ {i}
      /\ order_map' \in [Live' -> Order]
      /\ \A j \in Live' : order_map'[j] = order_map[j]
  BY DEF Withdraw, Erase, Live, IndInv, TypeOK
<1>a. /\ stranded' \subseteq Live'
      /\ leftover' \subseteq Ids \ Live'
      /\ leftover' = leftover
  BY <1>8, EraseKeepsTable DEF Withdraw, TableEraseUnchecked, IndInv
<1>9. TypeOK'
  <2>1. in_use' \in Int /\ total_qty' \in [Sides -> Int]
    BY <1>1 DEF Withdraw, IndInv, TypeOK
  <2>2. best' \in [Sides -> CallPrices]
    BY <1>1 DEF Withdraw, IndInv, TypeOK
  <2>3. queue_len' \in 0 .. QueueSize - 1
    BY DEF Withdraw, Publish, MinOf, IndInv, TypeOK
  <2>4. Live' \subseteq Ids
    BY <1>8 DEF IndInv, TypeOK
  <2>5. stranded' \subseteq Live' /\ leftover' \subseteq Ids \ Live'
    BY <1>a
  <2>6. pc' \in {"idle", "readd", "match", "finish"} /\ call' \in Call \cup {NoCall}
    OBVIOUS
  <2> QED BY <1>7, <1>8, <2>1, <2>2, <2>3, <2>4, <2>5, <2>6 DEF TypeOK
<1>10. QueuedOnce'
  <2> SUFFICES ASSUME NEW t \in Sides, NEW r \in Prices
               PROVE  /\ IsInjective(levels'[t][r].queue)
                      /\ ToSet(levels'[t][r].queue) = OrdersAt(t, r)'
    BY DEF QueuedOnce
  <2>1. OrdersAt(t, r)' = OrdersAt(t, r) \ {i}
    BY <1>3, <1>8 DEF OrdersAt
  <2>2. CASE t = s /\ r = p
    BY <1>6, <1>7, <2>1, <2>2
  <2>3. CASE t # s \/ r # p
    <3>1. i \notin OrdersAt(t, r)
      BY <2>3 DEF OrdersAt
    <3> QED BY <1>7, <2>1, <2>3, <3>1 DEF IndInv, QueuedOnce
  <2> QED BY <2>2, <2>3
<1>11. Keys' = Keys \ {i}
  <2>1. i \notin leftover
    BY DEF IndInv, TypeOK
  <2> QED BY <1>8, <1>a, <2>1 DEF Keys
<1> QED BY <1>8, <1>9, <1>10, <1>11

LEMMA CancelInv ==
  ASSUME IndInv, CancelOrder
  PROVE  IndInv'
<1>1. PICK i \in Live : Withdraw(i)
  BY DEF CancelOrder, Findable
<1>2. pc = "idle" /\ pc' = "idle" /\ call' \in Call \cup {NoCall}
  BY DEF CancelOrder, IndInv, TypeOK
<1>3. TypeOK' /\ QueuedOnce'
  BY <1>1, <1>2, WithdrawInv
<1>4. CallOK'
  BY <1>2 DEF CallOK
<1> QED BY <1>3, <1>4 DEF IndInv

LEMMA ModifyReAddInv ==
  ASSUME IndInv, ModifyReAdd
  PROVE  IndInv'
<1>1. PICK i \in Live, p \in CallPrices, q \in Quantities :
        /\ Withdraw(i)
        /\ call' = [id |-> i, price |-> p, qty |-> q, side |-> order_map[i].side]
  BY DEF ModifyReAdd, Findable
<1>2. pc = "idle" /\ pc' = "readd"
  BY DEF ModifyReAdd
<1>3. call' \in Call /\ call'.id = i
  <2>1. i \in Ids /\ order_map[i].side \in Sides
    BY DEF IndInv, TypeOK, Order
  <2> QED BY <1>1, <2>1 DEF Call, CallPrices
<1>4. TypeOK' /\ QueuedOnce' /\ Keys' = Keys \ {i}
  BY <1>1, <1>2, <1>3, WithdrawInv
<1>5. CallOK'
  BY <1>2, <1>3, <1>4 DEF CallOK
<1> QED BY <1>4, <1>5 DEF IndInv

\* An order that an in-place modify finds is a live one.
LEMMA InPlaceParts ==
  ASSUME ModifyInPlace
  PROVE  \E i \in Live, q \in Quantities :
           LET o     == order_map[i]
               delta == o.remaining - q
           IN /\ q < o.remaining
              /\ levels' = [levels EXCEPT ![o.side][o.price].total_quantity = Wrap(@ - delta)]
              /\ total_qty' = [total_qty EXCEPT ![o.side] = @ - delta]
              /\ order_map' = [order_map EXCEPT ![i].remaining = q]
<1>1. PICK i \in Findable, q \in Quantities :
        LET o     == order_map[i]
            delta == o.remaining - q
        IN /\ q < o.remaining
           /\ levels' = [levels EXCEPT ![o.side][o.price].total_quantity = Wrap(@ - delta)]
           /\ total_qty' = [total_qty EXCEPT ![o.side] = @ - delta]
           /\ order_map' = [order_map EXCEPT ![i].remaining = q]
  BY DEF ModifyInPlace
<1>2. i \in Live
  BY DEF Findable
<1> QED BY <1>1, <1>2

LEMMA ModifyInPlaceInv ==
  ASSUME IndInv, ModifyInPlace
  PROVE  IndInv'
<1> USE BookAssumption
<1>1. PICK i \in Live, q \in Quantities :
        LET o     == order_map[i]
            delta == o.remaining - q
        IN /\ q < o.remaining
           /\ levels' = [levels EXCEPT ![o.side][o.price].total_quantity = Wrap(@ - delta)]
           /\ total_qty' = [total_qty EXCEPT ![o.side] = @ - delta]
           /\ order_map' = [order_map EXCEPT ![i].remaining = q]
  BY InPlaceParts
<1> DEFINE s == order_map[i].side
           p == order_map[i].price
           d == order_map[i].remaining - q
           l == [levels[s][p] EXCEPT !.total_quantity = Wrap(@ - d)]
<1>2. /\ s \in Sides
      /\ p \in Prices
      /\ d \in Int
      /\ q \in 0 .. QtyModulus - 1
      /\ order_map \in [Live -> Order]
  BY DEF IndInv, TypeOK, Order
<1>3. levels \in [Sides -> [Prices -> Level]] /\ levels[s][p] \in Level
  BY <1>2 DEF IndInv, TypeOK
<1>4. l \in Level /\ l.queue = levels[s][p].queue
  <2>1. Wrap(levels[s][p].total_quantity - d) \in 0 .. QtyModulus - 1
    <3>1. levels[s][p].total_quantity - d \in Int
      BY <1>2, <1>3 DEF Level
    <3> QED BY <3>1, WrapType
  <2> QED BY <1>3, <2>1 DEF Level
<1>5. levels' = [levels EXCEPT ![s][p] = l]
  BY <1>1
<1> HIDE DEF l
<1>6. /\ levels' \in [Sides -> [Prices -> Level]]
      /\ \A t \in Sides, r \in Prices : levels'[t][r].queue = levels[t][r].queue
  BY <1>2, <1>3, <1>4, <1>5, LevelReplaced
<1>7. /\ Live' = Live
      /\ order_map' \in [Live' -> Order]
      /\ \A j \in Live : /\ order_map'[j].side = order_map[j].side
                         /\ order_map'[j].price = order_map[j].price
  BY <1>1, <1>2 DEF Live, Order
<1>8. TypeOK'
  <2>1. total_qty' \in [Sides -> Int]
    BY <1>1, <1>2 DEF IndInv, TypeOK
  <2>2. queue_len' \in 0 .. QueueSize - 1
    BY DEF ModifyInPlace, Publish, MinOf, IndInv, TypeOK
  <2>3. /\ UNCHANGED <<stranded, leftover, in_use, best, pc, call>>
        /\ Live' \subseteq Ids
    BY <1>7 DEF ModifyInPlace, mapVars, IndInv, TypeOK
  <2> QED BY <1>6, <1>7, <2>1, <2>2, <2>3 DEF IndInv, TypeOK
<1>9. CallOK'
  BY <1>7 DEF ModifyInPlace, CallOK
<1>10. QueuedOnce'
  <2>1. InFlight' = InFlight
    BY DEF ModifyInPlace, InFlight
  <2>2. \A t \in Sides, r \in Prices : OrdersAt(t, r)' = OrdersAt(t, r)
    BY <1>7, <2>1 DEF OrdersAt
  <2> QED BY <1>6, <2>2 DEF IndInv, QueuedOnce
<1> QED BY <1>8, <1>9, <1>10 DEF IndInv

LEMMA RestRemainderInv ==
  ASSUME IndInv, RestRemainder
  PROVE  IndInv'
<1> USE BookAssumption
<1> DEFINE i == call.id
           s == order_map[i].side
           p == order_map[i].price
           n == order_map[i].remaining
           l == PushBack(levels[s][p], i, n)
<1>1. /\ i \in Live
      /\ i \in Ids
      /\ s \in Sides
      /\ p \in Prices
      /\ n \in 0 .. QtyModulus - 1
      /\ pc = "finish"
      /\ pc' = "idle"
      /\ call' = NoCall
      /\ order_map' = order_map
  BY DEF RestRemainder, IndInv, TypeOK, CallOK, Order
<1>2. /\ levels[s][p] \in Level
      /\ IsInjective(levels[s][p].queue)
      /\ ToSet(levels[s][p].queue) = OrdersAt(s, p)
      /\ levels \in [Sides -> [Prices -> Level]]
  BY <1>1 DEF IndInv, TypeOK, QueuedOnce
<1>3. InFlight = {i} /\ InFlight' = {}
  BY <1>1 DEF InFlight
<1>4. l \in Level
  <2> DEFINE old == levels[s][p]
  <2>1. old \in Level /\ i \in Ids
    BY <1>1, <1>2
  <2> HIDE DEF old, i, n
  <2>a. n \in Int
    BY <1>1
  <2>2. PushBack(old, i, n) \in Level
    BY <2>1, <2>a, LevelOps
  <2> QED BY <2>2 DEF old
<1>5. IsInjective(l.queue) /\ ToSet(l.queue) = OrdersAt(s, p) \cup {i}
  <2> DEFINE q == levels[s][p].queue
  <2>1. /\ q \in Seq(Ids)
        /\ i \in Ids
        /\ i \notin ToSet(q)
        /\ IsInjective(q)
    BY <1>1, <1>2, <1>3 DEF Level, OrdersAt
  <2>2. l.queue = Append(q, i)
    BY DEF PushBack
  <2>3. ToSet(q) = OrdersAt(s, p)
    BY <1>2
  <2> HIDE DEF q, i, l
  <2>4. IsInjective(Append(q, i)) /\ ToSet(Append(q, i)) = ToSet(q) \cup {i}
    BY <2>1, AppendLinks
  <2> QED BY <2>2, <2>3, <2>4
<1>6. levels' = [levels EXCEPT ![s][p] = l]
  BY DEF RestRemainder
<1> HIDE DEF l
<1>7. /\ levels' \in [Sides -> [Prices -> Level]]
      /\ levels'[s][p] = l
      /\ \A t \in Sides, r \in Prices : t # s \/ r # p => levels'[t][r] = levels[t][r]
  <2> HIDE DEF s, p
  <2> QED BY <1>1, <1>2, <1>4, <1>6, LevelReplaced
<1>8. TypeOK'
  <2>1. Live' = Live /\ UNCHANGED <<in_use, stranded, leftover>>
    <3>1. UNCHANGED <<order_map, mapVars, in_use>>
      BY DEF RestRemainder
    <3> QED BY <3>1 DEF mapVars, Live
  <2>2. total_qty' \in [Sides -> Int]
    BY <1>1 DEF RestRemainder, IndInv, TypeOK
  <2>3. best' \in [Sides -> CallPrices]
    BY <1>1 DEF RestRemainder, IndInv, TypeOK, CallPrices, Prices
  <2>4. queue_len' \in 0 .. QueueSize - 1
    BY DEF RestRemainder, Publish, MinOf, IndInv, TypeOK
  <2> QED BY <1>1, <1>7, <2>1, <2>2, <2>3, <2>4 DEF IndInv, TypeOK
<1>9. CallOK'
  BY <1>1 DEF CallOK
<1>10. QueuedOnce'
  <2> SUFFICES ASSUME NEW t \in Sides, NEW r \in Prices
               PROVE  /\ IsInjective(levels'[t][r].queue)
                      /\ ToSet(levels'[t][r].queue) = OrdersAt(t, r)'
    BY DEF QueuedOnce
  <2>1. Live' = Live
    BY <1>1 DEF Live
  <2>2. CASE t = s /\ r = p
    <3>1. OrdersAt(t, r)' = OrdersAt(t, r) \cup {i}
      BY <1>1, <1>3, <2>1, <2>2 DEF OrdersAt
    <3> QED BY <1>5, <1>7, <2>2, <3>1
  <2>3. CASE t # s \/ r # p
    <3>1. OrdersAt(t, r)' = OrdersAt(t, r)
      BY <1>1, <1>3, <2>1, <2>3 DEF OrdersAt
    <3> QED BY <1>7, <2>3, <3>1 DEF IndInv, QueuedOnce
  <2> QED BY <2>2, <2>3
<1> QED BY <1>8, <1>9, <1>10 DEF IndInv

LEMMA ReclaimFilledInv ==
  ASSUME IndInv, ReclaimFilled
  PROVE  IndInv'
<1> USE BookAssumption
<1> DEFINE i == call.id
<1>1. /\ pc = "finish"
      /\ pc' = "idle"
      /\ call' = NoCall
      /\ UNCHANGED <<levels, best, total_qty>>
  BY DEF ReclaimFilled
<1>2. /\ Live' = Live \ {i}
      /\ order_map' \in [Live' -> Order]
      /\ \A j \in Live' : order_map'[j] = order_map[j]
  BY DEF ReclaimFilled, Erase, Live, IndInv, TypeOK
<1>3. InFlight = {i} /\ InFlight' = {}
  BY <1>1 DEF InFlight
<1>4. TypeOK'
  <2>1. in_use' \in Int /\ queue_len' \in 0 .. QueueSize - 1
    BY DEF ReclaimFilled, Publish, MinOf, IndInv, TypeOK
  <2>2. Live' \subseteq Ids
    BY <1>2 DEF IndInv, TypeOK
  <2>3. PICK k \in Live : k = call.id
    BY <1>1 DEF IndInv, CallOK
  <2>4. stranded' \subseteq Live' /\ leftover' \subseteq Ids \ Live'
    BY <1>2, <2>3, EraseKeepsTable DEF ReclaimFilled, IndInv
  <2> QED BY <1>1, <1>2, <2>1, <2>2, <2>4 DEF IndInv, TypeOK
<1>5. CallOK'
  BY <1>1 DEF CallOK
<1>6. QueuedOnce'
  <2>1. \A t \in Sides, r \in Prices : OrdersAt(t, r)' = OrdersAt(t, r)
    BY <1>2, <1>3 DEF OrdersAt
  <2> QED BY <1>1, <2>1 DEF IndInv, QueuedOnce
<1> QED BY <1>4, <1>5, <1>6 DEF IndInv

\* What a fill does, in the terms the proofs need: the passive order i is at
\* the head of the level at b that the walk has ended at.
FillAt(i, b) ==
  LET a      == order_map[call.id]
      side   == Opposite(a.side)
      fill   == MinOf(a.remaining, order_map[i].remaining)
      filled == order_map[i].remaining = fill
      om     == [order_map EXCEPT ![call.id].remaining = @ - fill,
                                  ![i].remaining = @ - fill]
  IN /\ Walk(levels, side, best[side], PastLast(side), b)
     /\ LevelTrades(a.side, a.price, b)
     /\ i = Head(levels[side][b].queue)
     /\ best' = [best EXCEPT ![side] = b]
     /\ levels' = [levels EXCEPT ![side][b] = FillHead(@, fill, filled)]
     /\ total_qty' = [total_qty EXCEPT ![side] = @ - fill]
     /\ order_map' = IF filled THEN Erase(om, i) ELSE om
     /\ IF filled THEN TableEraseUnchecked(i) ELSE UNCHANGED mapVars
     /\ in_use' = IF filled THEN in_use - 1 ELSE in_use

LEMMA MatchFillParts ==
  ASSUME IndInv, MatchFill
  PROVE  \E b \in Prices, i \in Live \ {call.id} :
           LET side == Opposite(order_map[call.id].side) IN
           /\ FillAt(i, b)
           /\ side \in Sides
           /\ levels[side][b].queue # << >>
           /\ i \in OrdersAt(side, b)
<1> USE BookAssumption
<1> DEFINE side == Opposite(order_map[call.id].side)
<1>1. PICK b \in CallPrices : FillAt(Head(levels[side][b].queue), b)
  BY Zenon DEF MatchFill, Filled, FillAt
<1> DEFINE i == Head(levels[side][b].queue)
<1>2. side \in Sides
  BY DEF Opposite, Sides
<1>3. b \in Prices
  <2>1. b < MaxPriceLevels
    BY <1>1 DEF FillAt, LevelTrades
  <2> QED BY <2>1 DEF CallPrices, Prices
<1>4. levels[side][b].queue # << >>
  BY <1>1 DEF FillAt, LevelTrades, EmptyAt
<1>5. /\ levels[side][b].queue \in Seq(Ids)
      /\ IsInjective(levels[side][b].queue)
      /\ ToSet(levels[side][b].queue) = OrdersAt(side, b)
  BY <1>2, <1>3 DEF IndInv, TypeOK, QueuedOnce, Level
<1>6. i \in OrdersAt(side, b)
  <2> DEFINE q == levels[side][b].queue
  <2>1. q \in Seq(Ids) /\ q # << >> /\ IsInjective(q)
    BY <1>4, <1>5
  <2> HIDE DEF q
  <2>2. Head(q) \in ToSet(q)
    BY <2>1, TailUnlinks
  <2> QED BY <1>5, <2>2 DEF q
<1>7. i \in Live \ {call.id}
  <2>1. InFlight = {call.id}
    BY DEF MatchFill, Filled, InFlight
  <2> QED BY <1>6, <2>1 DEF OrdersAt
<1> QED BY <1>1, <1>2, <1>3, <1>4, <1>6, <1>7

\* A fill changes what two orders have left, and erases the passive one when
\* it is filled.
LEMMA FillOrders ==
  ASSUME IndInv, MatchFill, NEW b \in Prices, NEW i \in Live \ {call.id}, FillAt(i, b)
  PROVE  LET fill   == MinOf(order_map[call.id].remaining, order_map[i].remaining)
             filled == order_map[i].remaining = fill
         IN /\ fill \in 0 .. QtyModulus - 1
            /\ Live' = IF filled THEN Live \ {i} ELSE Live
            /\ order_map' \in [Live' -> Order]
            /\ \A j \in Live' : /\ order_map'[j].side = order_map[j].side
                                /\ order_map'[j].price = order_map[j].price
                                /\ order_map'[j].remaining <= order_map[j].remaining
<1> USE BookAssumption
<1> DEFINE c == call.id
           fill == MinOf(order_map[c].remaining, order_map[i].remaining)
           filled == order_map[i].remaining = fill
           om == [order_map EXCEPT ![c].remaining = @ - fill, ![i].remaining = @ - fill]
<1>1. /\ c \in Live
      /\ order_map[c].remaining \in 0 .. QtyModulus - 1
      /\ order_map[i].remaining \in 0 .. QtyModulus - 1
      /\ order_map \in [Live -> Order]
  BY DEF MatchFill, Filled, IndInv, TypeOK, CallOK, Order
<1>2. /\ fill \in 0 .. QtyModulus - 1
      /\ order_map[c].remaining - fill \in 0 .. QtyModulus - 1
      /\ order_map[i].remaining - fill \in 0 .. QtyModulus - 1
  BY <1>1 DEF MinOf
<1>3. order_map' = IF filled THEN Erase(om, i) ELSE om
  BY DEF FillAt
<1>4. /\ om \in [Live -> Order]
      /\ \A j \in Live : /\ om[j].side = order_map[j].side
                         /\ om[j].price = order_map[j].price
                         /\ om[j].remaining <= order_map[j].remaining
  <2> HIDE DEF fill
  <2> QED BY <1>1, <1>2 DEF Order
<1> HIDE DEF om, filled
<1>5. CASE filled
  BY <1>2, <1>3, <1>4, <1>5 DEF Erase, Live, filled
<1>6. CASE ~ filled
  BY <1>2, <1>3, <1>4, <1>6 DEF Live, filled
<1> QED BY <1>5, <1>6 DEF filled

LEMMA MatchFillInv ==
  ASSUME IndInv, MatchFill
  PROVE  IndInv'
<1> USE BookAssumption
<1> DEFINE c == call.id
           side == Opposite(order_map[c].side)
<1>1. PICK b \in Prices, i \in Live \ {c} :
        /\ FillAt(i, b)
        /\ side \in Sides
        /\ levels[side][b].queue # << >>
        /\ i \in OrdersAt(side, b)
  BY MatchFillParts
<1> DEFINE q == levels[side][b].queue
           fill == MinOf(order_map[c].remaining, order_map[i].remaining)
           filled == order_map[i].remaining = fill
           l == FillHead(levels[side][b], fill, filled)
<1>2. /\ c \in Live
      /\ order_map[c].remaining \in 0 .. QtyModulus - 1
      /\ order_map[i].remaining \in 0 .. QtyModulus - 1
      /\ order_map \in [Live -> Order]
      /\ pc = "match" /\ pc' = "match" /\ call' = call
  BY DEF MatchFill, Filled, IndInv, TypeOK, CallOK, Order
<1>3. fill \in 0 .. QtyModulus - 1
  BY <1>1, FillOrders
<1>4. /\ levels \in [Sides -> [Prices -> Level]]
      /\ levels[side][b] \in Level
      /\ q \in Seq(Ids)
      /\ IsInjective(q)
      /\ ToSet(q) = OrdersAt(side, b)
  BY <1>1 DEF IndInv, TypeOK, QueuedOnce, Level
<1>5. i = Head(q) /\ i \in Ids
  BY <1>1 DEF FillAt, IndInv, TypeOK
<1>6. l \in Level /\ filled \in BOOLEAN
  <2> HIDE DEF side, fill
  <2>1. fill \in Int
    BY <1>3
  <2> QED BY <1>1, <1>4, <1>5, <2>1, LevelOps
<1>7. /\ IsInjective(l.queue)
      /\ ToSet(l.queue) = IF filled THEN OrdersAt(side, b) \ {i} ELSE OrdersAt(side, b)
  <2>1. l.queue = IF filled THEN Tail(q) ELSE q
    BY DEF FillHead
  <2>2. q # << >>
    BY <1>1
  <2>3. /\ IsInjective(Tail(q))
        /\ ToSet(Tail(q)) = ToSet(q) \ {Head(q)}
    <3> HIDE DEF q
    <3> QED BY <1>4, <2>2, TailUnlinks
  <2> HIDE DEF q, l, filled, fill, side
  <2> QED BY <1>4, <1>5, <2>1, <2>3
<1>8. levels' = [levels EXCEPT ![side][b] = l]
  BY <1>1 DEF FillAt
<1>9. /\ levels' \in [Sides -> [Prices -> Level]]
      /\ levels'[side][b] = l
      /\ \A t \in Sides, r \in Prices : t # side \/ r # b => levels'[t][r] = levels[t][r]
  <2> HIDE DEF l, side
  <2> QED BY <1>1, <1>4, <1>6, <1>8, LevelReplaced
<1>10. /\ Live' = IF filled THEN Live \ {i} ELSE Live
       /\ order_map' \in [Live' -> Order]
       /\ \A j \in Live' : /\ order_map'[j].side = order_map[j].side
                           /\ order_map'[j].price = order_map[j].price
  BY <1>1, FillOrders
<1>11. TypeOK'
  <2>1. total_qty' \in [Sides -> Int]
    <3>1. total_qty' = [total_qty EXCEPT ![side] = @ - fill]
      BY <1>1 DEF FillAt
    <3>2. total_qty \in [Sides -> Int] /\ fill \in Int
      BY <1>3 DEF IndInv, TypeOK
    <3>3. side \in Sides
      BY <1>1
    <3> HIDE DEF side, fill
    <3>4. total_qty[side] - fill \in Int
      BY <3>2, <3>3
    <3> QED BY <3>1, <3>2, <3>3, <3>4
  <2>2. best' \in [Sides -> CallPrices]
    <3>1. best' = [best EXCEPT ![side] = b]
      BY <1>1 DEF FillAt
    <3>2. b \in CallPrices
      BY DEF CallPrices, Prices
    <3>3. side \in Sides /\ best \in [Sides -> CallPrices]
      BY <1>1 DEF IndInv, TypeOK
    <3> HIDE DEF side
    <3> QED BY <3>1, <3>2, <3>3
  <2>3. in_use' \in Int
    <3>1. in_use' = IF filled THEN in_use - 1 ELSE in_use
      BY <1>1 DEF FillAt
    <3> HIDE DEF filled
    <3> QED BY <3>1 DEF IndInv, TypeOK
  <2>4. queue_len' \in 0 .. QueueSize - 1
    <3>1. Publish
      BY DEF MatchFill, Filled
    <3> QED BY <3>1 DEF Publish, MinOf, IndInv, TypeOK
  <2>5. Live' \subseteq Ids
    BY <1>10 DEF IndInv, TypeOK
  <2>6. stranded' \subseteq Live' /\ leftover' \subseteq Ids \ Live'
    <3>1. IF filled THEN TableEraseUnchecked(i) ELSE UNCHANGED mapVars
      BY <1>1 DEF FillAt
    <3> HIDE DEF filled
    <3>2. CASE filled
      BY <1>10, <3>1, <3>2, EraseKeepsTable DEF IndInv
    <3>3. CASE ~ filled
      BY <1>10, <3>1, <3>3 DEF mapVars, IndInv, TypeOK
    <3> QED BY <3>2, <3>3
  <2> HIDE DEF filled, l, fill, q
  <2> QED BY <1>2, <1>9, <1>10, <2>1, <2>2, <2>3, <2>4, <2>5, <2>6 DEF IndInv, TypeOK
<1>12. CallOK'
  BY <1>1, <1>2, <1>10 DEF IndInv, CallOK
<1>13. QueuedOnce'
  <2> SUFFICES ASSUME NEW t \in Sides, NEW r \in Prices
               PROVE  /\ IsInjective(levels'[t][r].queue)
                      /\ ToSet(levels'[t][r].queue) = OrdersAt(t, r)'
    BY DEF QueuedOnce
  <2>1. InFlight' = InFlight
    BY <1>2 DEF InFlight
  <2>2. OrdersAt(t, r)' = IF filled THEN OrdersAt(t, r) \ {i} ELSE OrdersAt(t, r)
    <3> HIDE DEF filled
    <3> QED BY <1>10, <2>1 DEF OrdersAt
  <2> HIDE DEF l, filled
  <2>3. CASE t = side /\ r = b
    BY <1>7, <1>9, <2>2, <2>3
  <2>4. CASE t # side \/ r # b
    <3>1. i \notin OrdersAt(t, r)
      BY <1>1, <2>4 DEF OrdersAt
    <3>2. OrdersAt(t, r)' = OrdersAt(t, r)
      BY <2>2, <3>1
    <3>3. levels'[t][r] = levels[t][r]
      BY <1>9, <2>4
    <3> QED BY <3>2, <3>3 DEF IndInv, QueuedOnce
  <2> QED BY <2>3, <2>4
<1> QED BY <1>11, <1>12, <1>13 DEF IndInv

\* The loop of match ends, or a modify is refused: neither touches an order.
LEMMA ControlInv ==
  ASSUME IndInv, MatchFilled \/ MatchExhausted \/ ReAddRejected
  PROVE  IndInv'
<1>1. UNCHANGED <<order_map, stranded, leftover, in_use, levels, total_qty, queue_len>>
  BY DEF MatchFilled, MatchExhausted, ReAddRejected, mapVars
<1>2. best' \in [Sides -> CallPrices]
  <2>1. CASE MatchExhausted
    BY <2>1 DEF MatchExhausted, IndInv, TypeOK
  <2>2. CASE MatchFilled \/ ReAddRejected
    BY <2>2 DEF MatchFilled, ReAddRejected, IndInv, TypeOK
  <2> QED BY <2>1, <2>2
<1>3. /\ pc' \in {"idle", "finish"}
      /\ call' \in Call \cup {NoCall}
      /\ InFlight' = InFlight
      /\ CallOK'
  BY <1>1 DEF MatchFilled, MatchExhausted, ReAddRejected, InFlight, CallOK, IndInv,
              TypeOK, Live
<1>4. TypeOK'
  BY <1>1, <1>2, <1>3 DEF IndInv, TypeOK, Live
<1>5. \A t \in Sides, r \in Prices : OrdersAt(t, r)' = OrdersAt(t, r)
  BY <1>1, <1>3 DEF OrdersAt, Live
<1>6. QueuedOnce'
  BY <1>1, <1>5 DEF IndInv, QueuedOnce
<1> QED BY <1>3, <1>4, <1>6 DEF IndInv

LEMMA StutterInv ==
  ASSUME IndInv, UNCHANGED vars
  PROVE  IndInv'
BY DEF IndInv, TypeOK, CallOK, QueuedOnce, OrdersAt, Live, Keys, InFlight, vars

LEMMA StepInv == IndInv /\ [Next]_vars => IndInv'
<1> SUFFICES ASSUME IndInv, [Next]_vars PROVE IndInv'
  OBVIOUS
<1>1. CASE AddOrder
  <2>1. PICK c \in Call : c.id \notin Keys /\ Accept(c)
    BY <1>1 DEF AddOrder
  <2> QED BY <1>1, <2>1, AcceptInv DEF AddOrder
<1>2. CASE ReAdd
  <2>1. pc = "readd" /\ call \in Call /\ call.id \notin Keys /\ Accept(call)
    BY <1>2 DEF ReAdd, IndInv, CallOK
  <2> QED BY <2>1, AcceptInv
<1>3. CASE CancelOrder
  BY <1>3, CancelInv
<1>4. CASE ModifyInPlace
  BY <1>4, ModifyInPlaceInv
<1>5. CASE ModifyReAdd
  BY <1>5, ModifyReAddInv
<1>6. CASE MatchFill
  BY <1>6, MatchFillInv
<1>7. CASE MatchFilled \/ MatchExhausted \/ ReAddRejected
  BY <1>7, ControlInv
<1>8. CASE RestRemainder
  BY <1>8, RestRemainderInv
<1>9. CASE ReclaimFilled
  BY <1>9, ReclaimFilledInv
<1>10. CASE UNCHANGED vars
  BY <1>10, StutterInv
<1> QED BY <1>1, <1>2, <1>3, <1>4, <1>5, <1>6, <1>7, <1>8, <1>9, <1>10 DEF Next, Proceed

LEMMA IndInvHolds == Spec => []IndInv
BY InitInv, StepInv, PTL DEF Spec

\* Every variable of the engine keeps its type.
THEOREM TypesHold == Spec => []TypeOK
<1>1. IndInv => TypeOK
  BY DEF IndInv
<1> QED BY <1>1, IndInvHolds, PTL

\* The levels and the order map agree at every step of every operation:
\* cancel_order and match always unlink an order from a list it is in.
THEOREM LevelsIndexLiveOrders == Spec => []QueuedOnce
<1>1. IndInv => QueuedOnce
  BY DEF IndInv
<1> QED BY <1>1, IndInvHolds, PTL

-----------------------------------------------------------------------------
(* The cached best prices.                                                 *)

\* No level of lv with an order is better, for side s, than price b.
Bounds(lv, s, b) == \A p \in Prices : ~ EmptyAt(lv, s, p) => ~ Better(s, p, b)

\* A walk over empty levels keeps the bound it starts from, and only moves
\* away from the spread.
LEMMA WalkKeepsBound ==
  ASSUME NEW lv, NEW s \in Sides, NEW from \in CallPrices,
         NEW stop \in CallPrices, NEW b \in CallPrices,
         Walk(lv, s, from, stop, b)
  PROVE  /\ Bounds(lv, s, from) => Bounds(lv, s, b)
         /\ ~ Better(s, b, from)
<1>1. CASE s = "Sell"
  BY <1>1 DEF Walk, Bounds, Better, Prices, CallPrices
<1>2. CASE s = "Buy"
  BY <1>2 DEF Walk, Bounds, Better, Prices, CallPrices
<1> QED BY <1>1, <1>2 DEF Sides

LEMMA StopsArePrices ==
  \A s \in Sides : LastPrice(s) \in CallPrices /\ PastLast(s) \in CallPrices
BY BookAssumption DEF LastPrice, PastLast, CallPrices, Sides

\* Dropping orders from one level leaves the bounds.
LEMMA FewerOrdersKeepBound ==
  ASSUME NEW lv, NEW new, NEW s, NEW b, Bounds(lv, s, b),
         \A p \in Prices : EmptyAt(lv, s, p) => EmptyAt(new, s, p)
  PROVE  Bounds(new, s, b)
BY DEF Bounds

\* A withdrawal takes an order out of a level that has one, and touches no other.
LEMMA WithdrawEmpties ==
  ASSUME IndInv, pc = "idle", NEW i \in Live, Withdraw(i)
  PROVE  /\ order_map[i].side \in Sides
         /\ order_map[i].price \in Prices
         /\ ~ EmptyAt(levels, order_map[i].side, order_map[i].price)
         /\ \A t \in Sides, r \in Prices :
              t # order_map[i].side \/ r # order_map[i].price =>
                levels'[t][r] = levels[t][r]
<1> DEFINE s == order_map[i].side
           p == order_map[i].price
<1>1. s \in Sides /\ p \in Prices
  BY DEF IndInv, TypeOK, Order
<1>2. i \in OrdersAt(s, p)
  BY DEF InFlight, OrdersAt
<1>3. ~ EmptyAt(levels, s, p)
  <2>1. i \in ToSet(levels[s][p].queue)
    BY <1>1, <1>2 DEF IndInv, QueuedOnce
  <2> QED BY <2>1 DEF EmptyAt, ToSet
<1>4. \A t \in Sides, r \in Prices : t # s \/ r # p => levels'[t][r] = levels[t][r]
  <2>1. levels' = [levels EXCEPT ![s][p] = Unlink(levels[s][p], i, order_map[i].remaining)]
    BY DEF Withdraw
  <2>2. levels \in [Sides -> [Prices -> Level]]
    BY DEF IndInv, TypeOK
  <2> QED BY <1>1, <2>1, <2>2
<1> QED BY <1>1, <1>3, <1>4

LEMMA WithdrawWalks ==
  ASSUME IndInv, NEW i \in Live, Withdraw(i)
  PROVE  LET s == order_map[i].side IN
         \E b \in CallPrices :
           /\ best' = [best EXCEPT ![s] = b]
           /\ order_map[i].price = best[s] => Walk(levels', s, best[s], LastPrice(s), b)
           /\ order_map[i].price # best[s] => b = best[s]
BY DEF Withdraw

LEMMA InitBounds == Init => BestBounds
BY DEF Init, BestBounds, EmptyAt, EmptyLevel

LEMMA WithdrawBounds ==
  ASSUME IndInv, BestBounds, pc = "idle", NEW i \in Live, Withdraw(i)
  PROVE  BestBounds'
<1> DEFINE s == order_map[i].side
           p == order_map[i].price
<1>1. /\ s \in Sides
      /\ p \in Prices
      /\ ~ EmptyAt(levels, s, p)
      /\ \A t \in Sides, r \in Prices : t # s \/ r # p => levels'[t][r] = levels[t][r]
  BY WithdrawEmpties
<1>2. PICK b \in CallPrices :
        /\ best' = [best EXCEPT ![s] = b]
        /\ p = best[s] => Walk(levels', s, best[s], LastPrice(s), b)
        /\ p # best[s] => b = best[s]
  BY WithdrawWalks
<1>3. best \in [Sides -> CallPrices]
  BY DEF IndInv, TypeOK
<1> HIDE DEF s, p
<1>4. Bounds(levels', s, best[s])
  <2>1. \A r \in Prices : EmptyAt(levels, s, r) => EmptyAt(levels', s, r)
    BY <1>1 DEF EmptyAt
  <2>2. Bounds(levels, s, best[s])
    BY <1>1 DEF Bounds, BestBounds
  <2> QED BY <2>1, <2>2, FewerOrdersKeepBound
<1>5. Bounds(levels', s, b)
  <2>1. CASE p = best[s]
    <3>1. best[s] \in CallPrices /\ LastPrice(s) \in CallPrices
      BY <1>1, <1>3, StopsArePrices
    <3> QED BY <1>1, <1>2, <1>4, <2>1, <3>1, WalkKeepsBound
  <2>2. CASE p # best[s]
    BY <1>2, <1>4, <2>2
  <2> QED BY <2>1, <2>2
<1>6. ASSUME NEW t \in Sides, NEW r \in Prices
      PROVE  ~ EmptyAt(levels, t, r)' => ~ Better(t, r, best'[t])
  <2>1. CASE t = s
    BY <1>1, <1>2, <1>3, <1>5, <2>1 DEF Bounds, EmptyAt
  <2>2. CASE t # s
    BY <1>1, <1>2, <1>3, <2>2 DEF BestBounds, EmptyAt
  <2> QED BY <2>1, <2>2
<1> QED BY <1>6 DEF BestBounds, EmptyAt

\* What a rested order changes: its own level, and its side's best price.
LEMMA RestParts ==
  ASSUME IndInv, RestRemainder
  PROVE  LET s == order_map[call.id].side
             p == order_map[call.id].price
         IN /\ s \in Sides
            /\ p \in Prices
            /\ \A t \in Sides, r \in Prices : t # s \/ r # p => levels'[t][r] = levels[t][r]
            /\ ~ EmptyAt(levels', s, p)
            /\ best' = [best EXCEPT ![s] = IF Better(s, p, best[s]) THEN p ELSE best[s]]
<1> DEFINE i == call.id
           s == order_map[i].side
           p == order_map[i].price
<1>1. i \in Ids /\ s \in Sides /\ p \in Prices
  BY DEF RestRemainder, IndInv, TypeOK, CallOK, Order
<1>2. levels \in [Sides -> [Prices -> Level]]
  BY DEF IndInv, TypeOK
<1>3. levels' = [levels EXCEPT ![s][p] = PushBack(levels[s][p], i, order_map[i].remaining)]
  BY DEF RestRemainder
<1>4. best' = [best EXCEPT ![s] = IF Better(s, p, best[s]) THEN p ELSE best[s]]
  BY DEF RestRemainder
<1> HIDE DEF s, p, i
<1>5. levels'[s][p] = PushBack(levels[s][p], i, order_map[i].remaining)
  BY <1>1, <1>2, <1>3
<1>6. Append(levels[s][p].queue, i) # << >>
  <2> DEFINE q == levels[s][p].queue
  <2>1. q \in Seq(Ids)
    BY <1>1, <1>2 DEF Level
  <2> HIDE DEF q
  <2>2. Append(q, i) # << >>
    BY <1>1, <2>1, AppendLinks
  <2> QED BY <2>2 DEF q
<1>7. ~ EmptyAt(levels', s, p)
  BY <1>5, <1>6 DEF EmptyAt, PushBack
<1>8. \A t \in Sides, r \in Prices : t # s \/ r # p => levels'[t][r] = levels[t][r]
  BY <1>1, <1>2, <1>3
<1> QED BY <1>1, <1>4, <1>7, <1>8 DEF s, p, i

LEMMA RestBounds ==
  ASSUME IndInv, BestBounds, RestRemainder
  PROVE  BestBounds'
<1> DEFINE s == order_map[call.id].side
           p == order_map[call.id].price
<1>1. /\ s \in Sides
      /\ p \in Prices
      /\ \A t \in Sides, r \in Prices : t # s \/ r # p => levels'[t][r] = levels[t][r]
      /\ best' = [best EXCEPT ![s] = IF Better(s, p, best[s]) THEN p ELSE best[s]]
  BY RestParts
<1>2. best \in [Sides -> CallPrices]
  BY DEF IndInv, TypeOK
<1> HIDE DEF s, p
<1>3. ASSUME NEW t \in Sides, NEW r \in Prices, ~ EmptyAt(levels', t, r)
      PROVE  ~ Better(t, r, best'[t])
  <2>1. t # s \/ r # p => ~ Better(t, r, best[t])
    BY <1>1, <1>3 DEF BestBounds, EmptyAt
  <2>2. CASE t # s
    BY <1>1, <1>2, <2>1, <2>2
  <2>3. CASE t = s
    <3>1. best'[t] = IF Better(s, p, best[s]) THEN p ELSE best[s]
      BY <1>1, <1>2, <2>3
    <3>2. best[s] \in CallPrices
      BY <1>1, <1>2
    <3> QED BY <1>1, <2>1, <2>3, <3>1, <3>2 DEF Better, Prices, CallPrices, Sides
  <2> QED BY <2>2, <2>3
<1> QED BY <1>3 DEF BestBounds, EmptyAt

\* A fill takes from the first level with an order that the walk of the best
\* price has found, and empties no level that had none.
LEMMA MatchFillWalks ==
  ASSUME IndInv, MatchFill
  PROVE  LET side == Opposite(order_map[call.id].side) IN
         \E b \in Prices, i \in Live \ {call.id} :
           /\ FillAt(i, b)
           /\ side \in Sides
           /\ i \in OrdersAt(side, b)
           /\ best' = [best EXCEPT ![side] = b]
           /\ Walk(levels, side, best[side], PastLast(side), b)
           /\ ~ EmptyAt(levels, side, b)
           /\ \A t \in Sides, r \in Prices : EmptyAt(levels, t, r) => EmptyAt(levels', t, r)
           /\ \A r \in Prices : levels'[order_map[call.id].side][r]
                                  = levels[order_map[call.id].side][r]
<1> DEFINE a == order_map[call.id]
           side == Opposite(a.side)
<1>1. PICK b \in Prices, i \in Live \ {call.id} :
        /\ FillAt(i, b)
        /\ side \in Sides
        /\ levels[side][b].queue # << >>
        /\ i \in OrdersAt(side, b)
  BY MatchFillParts
<1>2. /\ best' = [best EXCEPT ![side] = b]
      /\ Walk(levels, side, best[side], PastLast(side), b)
  BY <1>1 DEF FillAt
<1>3. levels \in [Sides -> [Prices -> Level]]
  BY DEF IndInv, TypeOK
<1>4. \E l : levels' = [levels EXCEPT ![side][b] = l]
  BY <1>1 DEF FillAt
<1>5. a.side \in Sides /\ side # a.side
  BY DEF MatchFill, Filled, IndInv, TypeOK, CallOK, Order, Opposite, Sides
<1> HIDE DEF side, a
<1>6. \A t \in Sides, r \in Prices : t # side \/ r # b => levels'[t][r] = levels[t][r]
  BY <1>1, <1>3, <1>4
<1>7. ~ EmptyAt(levels, side, b)
  BY <1>1 DEF EmptyAt
<1>8. \A t \in Sides, r \in Prices : EmptyAt(levels, t, r) => EmptyAt(levels', t, r)
  BY <1>6, <1>7 DEF EmptyAt
<1>9. \A r \in Prices : levels'[a.side][r] = levels[a.side][r]
  BY <1>5, <1>6
<1> QED BY <1>1, <1>2, <1>7, <1>8, <1>9 DEF side, a

LEMMA MatchFillBounds ==
  ASSUME IndInv, BestBounds, MatchFill
  PROVE  BestBounds'
<1> DEFINE s == Opposite(order_map[call.id].side)
<1>1. PICK b \in Prices :
        /\ s \in Sides
        /\ best' = [best EXCEPT ![s] = b]
        /\ Walk(levels, s, best[s], PastLast(s), b)
        /\ \A t \in Sides, r \in Prices : EmptyAt(levels, t, r) => EmptyAt(levels', t, r)
  BY MatchFillWalks
<1>2. best \in [Sides -> CallPrices] /\ b \in CallPrices
  BY BookAssumption DEF IndInv, TypeOK, Prices, CallPrices
<1> HIDE DEF s
<1>3. Bounds(levels, s, b)
  <2>1. best[s] \in CallPrices /\ PastLast(s) \in CallPrices
    BY <1>1, <1>2, StopsArePrices
  <2>2. Bounds(levels, s, best[s])
    BY <1>1 DEF Bounds, BestBounds
  <2> QED BY <1>1, <1>2, <2>1, <2>2, WalkKeepsBound
<1>4. ASSUME NEW t \in Sides, NEW r \in Prices, ~ EmptyAt(levels', t, r)
      PROVE  ~ Better(t, r, best'[t])
  <2>1. ~ EmptyAt(levels, t, r)
    BY <1>1, <1>4
  <2>2. CASE t = s
    BY <1>1, <1>2, <1>3, <2>1, <2>2 DEF Bounds
  <2>3. CASE t # s
    BY <1>1, <1>2, <2>1, <2>3 DEF BestBounds
  <2> QED BY <2>2, <2>3
<1> QED BY <1>4 DEF BestBounds, EmptyAt

LEMMA MatchExhaustedBounds ==
  ASSUME IndInv, BestBounds, MatchExhausted
  PROVE  BestBounds'
<1> DEFINE s == Opposite(order_map[call.id].side)
<1>1. PICK b \in CallPrices :
        /\ best' = [best EXCEPT ![s] = b]
        /\ Walk(levels, s, best[s], PastLast(s), b)
  BY DEF MatchExhausted
<1>2. best \in [Sides -> CallPrices] /\ levels' = levels
  BY DEF MatchExhausted, IndInv, TypeOK
<1>3. s \in Sides
  BY DEF Opposite, Sides
<1> HIDE DEF s
<1>4. Bounds(levels, s, b)
  <2>1. best[s] \in CallPrices /\ PastLast(s) \in CallPrices
    BY <1>2, <1>3, StopsArePrices
  <2>2. Bounds(levels, s, best[s])
    BY <1>3 DEF Bounds, BestBounds
  <2> QED BY <1>1, <1>3, <2>1, <2>2, WalkKeepsBound
<1>5. ASSUME NEW t \in Sides, NEW r \in Prices, ~ EmptyAt(levels, t, r)
      PROVE  ~ Better(t, r, best'[t])
  BY <1>1, <1>2, <1>3, <1>4, <1>5 DEF Bounds, BestBounds
<1> QED BY <1>2, <1>5 DEF BestBounds, EmptyAt

LEMMA StepBounds == IndInv /\ BestBounds /\ [Next]_vars => BestBounds'
<1> SUFFICES ASSUME IndInv, BestBounds, [Next]_vars PROVE BestBounds'
  OBVIOUS
<1>1. CASE CancelOrder
  BY <1>1, WithdrawBounds DEF CancelOrder, Findable
<1>2. CASE ModifyReAdd
  BY <1>2, WithdrawBounds DEF ModifyReAdd, Findable
<1>3. CASE ModifyInPlace
  <2>1. best' = best
    BY <1>3 DEF ModifyInPlace
  <2>2. \A t \in Sides, r \in Prices : levels'[t][r].queue = levels[t][r].queue
    BY <1>3 DEF ModifyInPlace, IndInv, TypeOK, Level
  <2> QED BY <2>1, <2>2 DEF BestBounds, EmptyAt
<1>4. CASE RestRemainder
  BY <1>4, RestBounds
<1>5. CASE MatchFill
  BY <1>5, MatchFillBounds
<1>6. CASE MatchExhausted
  BY <1>6, MatchExhaustedBounds
<1>7. CASE AddOrder \/ ReAdd \/ ReAddRejected \/ MatchFilled \/ ReclaimFilled \/ UNCHANGED vars
  <2>1. UNCHANGED <<levels, best>>
    BY <1>7 DEF AddOrder, ReAdd, Accept, ReAddRejected, MatchFilled, ReclaimFilled, vars
  <2> QED BY <2>1 DEF BestBounds, EmptyAt
<1> QED BY <1>1, <1>2, <1>3, <1>4, <1>5, <1>6, <1>7 DEF Next, Proceed

LEMMA BoundsHold == Spec => [](IndInv /\ BestBounds)
<1>1. IndInv /\ BestBounds /\ [Next]_vars => (IndInv /\ BestBounds)'
  BY StepInv, StepBounds
<1> QED BY InitInv, InitBounds, <1>1, PTL DEF Spec

\* No level with an order is ever on the good side of the cached best price,
\* although the cached price itself may be stale.
THEOREM BestPricesBound == Spec => []BestBounds
BY BoundsHold, PTL

-----------------------------------------------------------------------------
(* What get_depth lists                                                    *)

\* How many of the prices in S are better for side s than p.
Rank(s, S, p) == Cardinality({q \in S : Better(s, q, p)})

\* Better is a strict order of prices.
LEMMA BetterOrders ==
  ASSUME NEW s
  PROVE  /\ \A p \in Int : ~ Better(s, p, p)
         /\ \A p, q, r \in Int : Better(s, p, q) /\ Better(s, q, r) => Better(s, p, r)
         /\ \A p, q \in Int : p = q \/ Better(s, p, q) \/ Better(s, q, p)
BY DEF Better

LEMMA RankType ==
  ASSUME NEW s, NEW S \in SUBSET Int, IsFiniteSet(S), NEW p \in S
  PROVE  Rank(s, S, p) \in Nat /\ Rank(s, S, p) < Cardinality(S)
<1>1. PICK B \in SUBSET S : B = {q \in S : Better(s, q, p)}
  OBVIOUS
<1>2. p \notin B
  BY <1>1, BetterOrders
<1>3. IsFiniteSet(B) /\ Cardinality(B) <= Cardinality(S) /\ (Cardinality(B) = Cardinality(S) => B = S)
  BY FS_Subset
<1>4. Cardinality(B) \in Nat /\ Cardinality(S) \in Nat
  BY <1>3, FS_CardinalityType
<1>5. Rank(s, S, p) = Cardinality(B)
  BY <1>1 DEF Rank
<1> QED BY <1>2, <1>3, <1>4, <1>5

\* A better price has a lower rank, so no two have the same.
LEMMA RankOrders ==
  ASSUME NEW s, NEW S \in SUBSET Int, IsFiniteSet(S), NEW p \in S, NEW q \in S, Better(s, q, p)
  PROVE  Rank(s, S, q) < Rank(s, S, p)
<1>1. PICK B \in SUBSET S : B = {r \in S : Better(s, r, p)}
  OBVIOUS
<1>2. PICK A \in SUBSET B : A = {r \in S : Better(s, r, q)}
  BY <1>1, BetterOrders
<1>3. q \in B /\ q \notin A
  BY <1>1, <1>2, BetterOrders
<1>4. IsFiniteSet(B)
  BY FS_Subset
<1>5. IsFiniteSet(A) /\ Cardinality(A) <= Cardinality(B) /\ (Cardinality(A) = Cardinality(B) => A = B)
  BY <1>4, FS_Subset
<1>6. Cardinality(A) \in Nat /\ Cardinality(B) \in Nat
  BY <1>4, <1>5, FS_CardinalityType
<1>7. Rank(s, S, p) = Cardinality(B) /\ Rank(s, S, q) = Cardinality(A)
  BY <1>1, <1>2 DEF Rank
<1> QED BY <1>3, <1>5, <1>6, <1>7

LEMMA RankTells ==
  ASSUME NEW s, NEW S \in SUBSET Int, IsFiniteSet(S), NEW p \in S, NEW q \in S,
         Rank(s, S, p) = Rank(s, S, q)
  PROVE  p = q
<1>1. p = q \/ Better(s, p, q) \/ Better(s, q, p)
  BY BetterOrders
<1>2. Rank(s, S, p) \in Nat /\ Rank(s, S, q) \in Nat
  BY RankType
<1> QED BY <1>1, <1>2, RankOrders

\* The price before p in the walk is the worst of those better than p.
LEMMA RankBefore ==
  ASSUME NEW s, NEW S \in SUBSET Int, IsFiniteSet(S), NEW p \in S, Rank(s, S, p) # 0
  PROVE  \E w \in S : Better(s, w, p) /\ Rank(s, S, w) = Rank(s, S, p) - 1
<1>1. PICK B \in SUBSET S : B = {q \in S : Better(s, q, p)}
  OBVIOUS
<1>2. IsFiniteSet(B) /\ Rank(s, S, p) = Cardinality(B)
  BY <1>1, FS_Subset DEF Rank
<1>3. B # {}
  BY <1>2, FS_EmptySet
<1>4. PICK c \in Nat : c = Cardinality(S)
  BY FS_CardinalityType
<1>5. PICK w \in B : \A q \in B : Rank(s, S, q) <= Rank(s, S, w)
  <2> DEFINE N == {n \in Nat : \E q \in B : n = c - Rank(s, S, q)}
  <2>1. \A q \in B : Rank(s, S, q) \in Nat /\ Rank(s, S, q) < c
    BY <1>4, RankType
  <2>2. \A q \in B : c - Rank(s, S, q) \in N
    BY <2>1
  <2>3. N \in SUBSET Nat /\ N # {}
    BY <1>3, <2>2
  <2>4. PICK n \in N : \A m \in N : n <= m
    <3> HIDE DEF N
    <3> QED BY <2>3, HasSmallest
  <2>5. PICK w \in B : n = c - Rank(s, S, w)
    OBVIOUS
  <2>6. ASSUME NEW q \in B PROVE Rank(s, S, q) <= Rank(s, S, w)
    <3>1. c - Rank(s, S, w) <= c - Rank(s, S, q)
      BY <2>2, <2>4, <2>5
    <3> QED BY <2>1, <3>1
  <2> QED BY <2>6
<1>6. \A q \in B : q = w \/ Better(s, q, w)
  <2> TAKE q \in B
  <2>1. Rank(s, S, q) <= Rank(s, S, w) /\ Rank(s, S, q) \in Nat /\ Rank(s, S, w) \in Nat
    BY <1>5, RankType
  <2>2. ~ Better(s, w, q)
    BY <2>1, RankOrders
  <2> QED BY <2>2, BetterOrders
<1>7. {q \in S : Better(s, q, w)} = B \ {w}
  <2>1. ASSUME NEW q \in S, Better(s, q, w) PROVE q \in B \ {w}
    BY <1>1, <2>1, BetterOrders
  <2>2. ASSUME NEW q \in B \ {w} PROVE q \in S /\ Better(s, q, w)
    BY <1>6, <2>2
  <2> QED BY <2>1, <2>2
<1>8. Rank(s, S, w) = Cardinality(B) - 1
  <2>1. Cardinality(B \ {w}) = Cardinality(B) - 1
    BY <1>2, FS_RemoveElement
  <2> QED BY <1>7, <2>1 DEF Rank
<1> QED BY <1>1, <1>2, <1>8

\* Every rank below that of p is the rank of a better price.
LEMMA RanksBelow ==
  ASSUME NEW s, NEW S \in SUBSET Int, IsFiniteSet(S), NEW p \in S,
         NEW k \in Nat, k < Rank(s, S, p)
  PROVE  \E q \in S : Rank(s, S, q) = k /\ Better(s, q, p)
<1> DEFINE Found(r, j) == \E q \in S : Rank(s, S, q) = j /\ Better(s, q, r)
<1> DEFINE P == {n \in Nat : \A r \in S : Rank(s, S, r) = n =>
                   \A j \in Nat : j < n => Found(r, j)}
<1>1. 0 \in P
  OBVIOUS
<1>2. ASSUME NEW n \in P PROVE n + 1 \in P
  <2> SUFFICES ASSUME NEW r \in S, Rank(s, S, r) = n + 1, NEW j \in Nat, j < n + 1
               PROVE  Found(r, j)
    OBVIOUS
  <2>1. PICK w \in S : Better(s, w, r) /\ Rank(s, S, w) = n
    <3>1. Rank(s, S, r) # 0 /\ Rank(s, S, r) - 1 = n
      OBVIOUS
    <3> QED BY <3>1, RankBefore
  <2>2. CASE j = n
    BY <2>1, <2>2
  <2>3. CASE j # n
    <3>1. j < n
      BY <2>3
    <3>2. PICK q \in S : Rank(s, S, q) = j /\ Better(s, q, w)
      BY <2>1, <3>1
    <3>3. Better(s, q, r)
      BY <2>1, <3>2, BetterOrders
    <3> QED BY <3>2, <3>3
  <2> QED BY <2>2, <2>3
<1>3. P = Nat
  <2>1. P \in SUBSET Nat
    OBVIOUS
  <2> HIDE DEF P
  <2> QED BY <1>1, <1>2, <2>1, Induction
<1>4. Rank(s, S, p) \in P
  BY <1>3, RankType
<1> QED BY <1>4

\* FirstOf leaves out a price only when it lists n better ones.
LEMMA FirstAreBest ==
  ASSUME NEW s, NEW S \in SUBSET Int, IsFiniteSet(S), NEW n \in Nat,
         NEW p \in S, p \notin ToSet(FirstOf(s, S, n))
  PROVE  /\ Len(FirstOf(s, S, n)) = n
         /\ \A k \in 1 .. n : Better(s, FirstOf(s, S, n)[k], p)
<1>1. PICK c \in Nat : c = Cardinality(S)
  BY FS_CardinalityType
<1>2. PICK m \in Nat : m = MinOf(n, Cardinality(S)) /\ (m = n \/ m = c) /\ m <= n /\ m <= c
  BY <1>1 DEF MinOf
<1>3. PICK list : list = FirstOf(s, S, n)
  OBVIOUS
<1>4. /\ list = [k \in 1 .. m |-> CHOOSE q \in S : Rank(s, S, q) = k - 1]
      /\ DOMAIN list = 1 .. m
  BY <1>2, <1>3 DEF FirstOf, Rank
<1>5. ASSUME NEW k \in 1 .. m, NEW q \in S, Rank(s, S, q) = k - 1
      PROVE  list[k] = q
  <2>1. list[k] = CHOOSE x \in S : Rank(s, S, x) = k - 1
    BY <1>4
  <2>2. \E x \in S : Rank(s, S, x) = k - 1
    BY <1>5
  <2>3. PICK x \in S : x = list[k] /\ Rank(s, S, x) = k - 1
    BY <2>1, <2>2
  <2>4. Rank(s, S, x) = Rank(s, S, q)
    BY <1>5, <2>3
  <2>5. x = q
    BY <2>4, RankTells
  <2> QED BY <2>3, <2>5
<1>6. PICK r \in Nat : r = Rank(s, S, p) /\ r < c
  BY <1>1, RankType
<1>7. r >= n
  <2> SUFFICES ASSUME r < n PROVE FALSE
    OBVIOUS
  <2>1. r + 1 \in 1 .. m /\ r + 1 - 1 = r
    BY <1>2, <1>6
  <2>2. list[r + 1] = p
    BY <1>5, <1>6, <2>1
  <2>3. p \in ToSet(list)
    BY <1>4, <2>1, <2>2 DEF ToSet
  <2> QED BY <1>3, <2>3
<1>8. m = n
  BY <1>2, <1>6, <1>7
<1>9. ASSUME NEW k \in 1 .. n PROVE Better(s, list[k], p)
  <2>1. k - 1 \in Nat /\ k - 1 < Rank(s, S, p)
    BY <1>6, <1>7
  <2>2. PICK q \in S : Rank(s, S, q) = k - 1 /\ Better(s, q, p)
    BY <2>1, RanksBelow
  <2> QED BY <1>5, <1>8, <2>2
<1>10. Len(list) = n
  BY <1>4, <1>8
<1> QED BY <1>3, <1>9, <1>10

\* get_depth's first n levels leave out only levels worse than all of them,
\* and the bid level at price 0: no level with an order is before the cached
\* best price that the walk starts from, even where that price is stale.
THEOREM DepthListsBest == Spec => []DepthKeepsBest
<1>1. ASSUME IndInv, BestBounds PROVE DepthKeepsBest
  <2> SUFFICES ASSUME NEW s \in Sides, NEW n \in 0 .. MaxPriceLevels,
                      NEW p \in Prices \ ToSet(Depth(s, n)),
                      ~ EmptyAt(levels, s, p), ~ (s = "Buy" /\ p = 0)
               PROVE  /\ Len(Depth(s, n)) = n
                      /\ \A k \in 1 .. n : Better(s, Depth(s, n)[k], p)
    BY DEF DepthKeepsBest
  <2>1. /\ MaxPriceLevels \in Nat /\ n \in Nat
        /\ best["Buy"] \in 0 .. MaxPriceLevels /\ best["Sell"] \in 0 .. MaxPriceLevels
    BY <1>1, BookAssumption DEF IndInv, TypeOK, CallPrices, Sides
  <2>2. ~ Better(s, p, best[s])
    BY <1>1 DEF BestBounds
  <2>3. CASE s = "Buy"
    <3>1. PICK S : S = {q \in 1 .. best["Buy"] : ~ EmptyAt(levels, "Buy", q)}
      OBVIOUS
    <3>2. S \in SUBSET Int /\ IsFiniteSet(S)
      <4>1. PICK b \in Int : b = best["Buy"]
        BY <2>1
      <4>2. IsFiniteSet(1 .. b)
        BY FS_Interval
      <4>3. S \in SUBSET (1 .. b) /\ S \in SUBSET Int
        BY <3>1, <4>1
      <4> QED BY <4>2, <4>3, FS_Subset
    <3>3. p \in S
      BY <2>1, <2>2, <2>3, <3>1 DEF Better, Prices
    <3>4. Depth(s, n) = FirstOf(s, S, n)
      BY <2>3, <3>1 DEF Depth, BidDepth
    <3> QED BY <2>1, <3>2, <3>3, <3>4, FirstAreBest
  <2>4. CASE s = "Sell"
    <3>1. PICK S : S = {q \in best["Sell"] .. MaxPriceLevels - 1 : ~ EmptyAt(levels, "Sell", q)}
      OBVIOUS
    <3>2. S \in SUBSET Int /\ IsFiniteSet(S)
      <4>1. PICK b \in Int, e \in Int : b = best["Sell"] /\ e = MaxPriceLevels - 1
        BY <2>1
      <4>2. IsFiniteSet(b .. e)
        BY FS_Interval
      <4>3. S \in SUBSET (b .. e) /\ S \in SUBSET Int
        BY <3>1, <4>1
      <4> QED BY <4>2, <4>3, FS_Subset
    <3>3. p \in S
      BY <2>1, <2>2, <2>4, <3>1 DEF Better, Prices
    <3>4. Depth(s, n) = FirstOf(s, S, n)
      BY <2>4, <3>1 DEF Depth, AskDepth
    <3> QED BY <2>1, <3>2, <3>3, <3>4, FirstAreBest
  <2> QED BY <2>3, <2>4 DEF Sides
<1> QED BY <1>1, BoundsHold, PTL

-----------------------------------------------------------------------------
(* Price-time priority.                                                    *)

\* The head of a list that links every order once is ahead of all the others.
LEMMA HeadIsAhead ==
  ASSUME NEW S, NEW q \in Seq(S), IsInjective(q), q # << >>,
         NEW j \in ToSet(q), j # Head(q)
  PROVE  Ahead(q, Head(q), j)
<1>1. /\ Len(q) \in Nat
      /\ DOMAIN q = 1 .. Len(q)
      /\ 1 \in 1 .. Len(q)
      /\ Head(q) = q[1]
  OBVIOUS
<1>2. PositionIn(q, Head(q)) = 1
  BY <1>1 DEF PositionIn, IsInjective
<1>3. PositionIn(q, j) \in 1 .. Len(q) /\ q[PositionIn(q, j)] = j
  BY <1>1 DEF PositionIn, ToSet
<1> QED BY <1>1, <1>2, <1>3 DEF Ahead

\* The order that a fill takes from is first in line.
LEMMA FillsFirstInLine ==
  ASSUME IndInv, BestBounds, MatchFill
  PROVE  \E i \in Live \ {call.id} :
           /\ FirstInLine(i, call.id)
           /\ \A j \in Live \ {i, call.id} :
                j \in DOMAIN order_map' /\ order_map'[j] = order_map[j]
<1> DEFINE c == call.id
           a == order_map[c]
           s == Opposite(a.side)
<1>1. PICK b \in Prices, i \in Live \ {c} :
        /\ FillAt(i, b)
        /\ s \in Sides
        /\ i \in OrdersAt(s, b)
        /\ Walk(levels, s, best[s], PastLast(s), b)
  BY MatchFillWalks
<1>2. order_map[i].side = s /\ order_map[i].price = b
  BY <1>1 DEF OrdersAt
<1>3. Reaches(a.side, a.price, b) /\ levels[s][b].queue # << >> /\ i = Head(levels[s][b].queue)
  BY <1>1 DEF FillAt, LevelTrades, EmptyAt
<1>4. Bounds(levels, s, b)
  <2>1. /\ best[s] \in CallPrices
        /\ PastLast(s) \in CallPrices
        /\ b \in CallPrices
    BY <1>1, BookAssumption, StopsArePrices DEF IndInv, TypeOK, Prices, CallPrices
  <2>2. Bounds(levels, s, best[s])
    BY <1>1 DEF Bounds, BestBounds
  <2> HIDE DEF s
  <2> QED BY <1>1, <2>1, <2>2, WalkKeepsBound
<1>5. /\ levels[s][b].queue \in Seq(Ids)
      /\ IsInjective(levels[s][b].queue)
      /\ \A p \in Prices : ToSet(levels[s][p].queue) = OrdersAt(s, p)
  BY <1>1 DEF IndInv, TypeOK, QueuedOnce, Level
<1>6. ASSUME NEW j \in Live \ {i, c}, order_map[j].side = s
      PROVE  \/ Better(s, b, order_map[j].price)
             \/ b = order_map[j].price /\ Ahead(levels[s][b].queue, i, j)
  <2> DEFINE r == order_map[j].price
  <2>1. r \in Prices
    BY DEF IndInv, TypeOK, Order
  <2>2. j \in OrdersAt(s, r)
    <3>1. InFlight = {c}
      BY DEF MatchFill, Filled, InFlight
    <3> QED BY <1>6, <3>1 DEF OrdersAt
  <2>3. j \in ToSet(levels[s][r].queue)
    BY <1>5, <2>1, <2>2
  <2>4. ~ Better(s, r, b)
    <3>1. ~ EmptyAt(levels, s, r)
      BY <2>3, EmptyHasNone DEF EmptyAt
    <3> QED BY <1>4, <2>1, <3>1 DEF Bounds
  <2>5. CASE r = b
    <3> DEFINE q == levels[s][b].queue
    <3>1. /\ q \in Seq(Ids)
          /\ IsInjective(q)
          /\ q # << >>
          /\ j \in ToSet(q)
          /\ i = Head(q)
          /\ j # i
      BY <1>3, <1>5, <2>3, <2>5
    <3> HIDE DEF q
    <3>2. Ahead(q, i, j)
      BY <3>1, HeadIsAhead
    <3> QED BY <2>5, <3>2 DEF q
  <2>6. CASE r # b
    <3> HIDE DEF s, r
    <3>1. Better(s, b, r)
      BY <1>1, <2>1, <2>4, <2>6 DEF Better, Prices
    <3> QED BY <3>1 DEF r
  <2> QED BY <2>5, <2>6
<1>7. FirstInLine(i, c)
  BY <1>2, <1>3, <1>6 DEF FirstInLine
<1>8. ASSUME NEW j \in Live \ {i, c}
      PROVE  j \in DOMAIN order_map' /\ order_map'[j] = order_map[j]
  BY <1>1 DEF FillAt, Erase, Live, IndInv, TypeOK
<1> QED BY <1>7, <1>8

\* A match only ever takes from, or removes, the resting order that price-time
\* priority puts first.
THEOREM MatchKeepsPriority == Spec => PriceTimePriority
<1> DEFINE Taken == \A i \in Live \ {call.id} :
                      i \notin DOMAIN order_map' \/ order_map'[i] # order_map[i]
                        => FirstInLine(i, call.id)
<1>1. IndInv /\ BestBounds /\ [Next]_vars => [pc = "match" => Taken]_vars
  <2> SUFFICES ASSUME IndInv, BestBounds, Next, pc = "match" PROVE Taken
    OBVIOUS
  <2>1. CASE MatchFill
    BY <2>1, FillsFirstInLine
  <2>2. CASE MatchFilled \/ MatchExhausted
    BY <2>2 DEF MatchFilled, MatchExhausted, Live
  <2> QED BY <2>1, <2>2 DEF Next, Proceed, AddOrder, CancelOrder, ModifyInPlace, ModifyReAdd,
                            ReAdd, ReAddRejected, RestRemainder, ReclaimFilled
<1> QED BY <1>1, BoundsHold, PTL DEF Spec, PriceTimePriority

-----------------------------------------------------------------------------
(* Pool and map.                                                           *)

\* The strengthening: both stores stay within their capacity, the table with
\* the entries that an erase has missed, and each has room for one more between
\* the two halves of a slow modify.
RoomInv ==
  /\ IsFiniteSet(Live) /\ Cardinality(Live) \in Nat
  /\ IsFiniteSet(Keys) /\ Cardinality(Keys) \in Nat
  /\ in_use = Cardinality(Live)
  /\ in_use <= PoolSize
  /\ Cardinality(Keys) <= MapSize
  /\ pc = "readd" => in_use < PoolSize /\ Cardinality(Keys) < MapSize

LEMMA InitRoom == Init => RoomInv
<1> SUFFICES ASSUME Init PROVE RoomInv
  OBVIOUS
<1>1. Live = {} /\ Keys = {}
  BY DEF Init, Live, Keys
<1>2. IsFiniteSet({}) /\ Cardinality({}) = 0
  BY FS_EmptySet
<1>3. in_use = 0 /\ pc = "idle"
  BY DEF Init
<1> QED BY <1>1, <1>2, <1>3, BookAssumption DEF RoomInv

LEMMA AcceptRoom ==
  ASSUME IndInv, RoomInv, NEW c \in Call, c.id \notin Keys, Accept(c)
  PROVE  RoomInv'
<1>1. Live' = Live \cup {c.id} /\ Keys' = Keys \cup {c.id} /\ c.id \notin Live
  BY DEF Accept, Insert, TableInsert, Live, Keys
<1>2. /\ IsFiniteSet(Live') /\ Cardinality(Live') = Cardinality(Live) + 1
      /\ IsFiniteSet(Keys') /\ Cardinality(Keys') = Cardinality(Keys) + 1
  BY <1>1, FS_AddElement DEF RoomInv
<1>3. in_use' = in_use + 1 /\ in_use < PoolSize /\ Cardinality(Keys) < MapSize
  BY DEF Accept, HasRoom
<1>4. pc' # "readd"
  BY DEF Accept
<1> QED BY <1>2, <1>3, <1>4, BookAssumption DEF RoomInv

\* An operation that erases one live order also releases its pool slot, and
\* adds no entry to the table.
LEMMA EraseRoom ==
  ASSUME TypeOK, RoomInv, NEW i \in Live, Live' = Live \ {i}, in_use' = in_use - 1,
         TableEraseUnchecked(i), pc' = "readd" => TableErase(i)
  PROVE  RoomInv'
<1>1. /\ IsFiniteSet(Live')
      /\ Cardinality(Live') = Cardinality(Live) - 1
      /\ Cardinality(Live') \in Nat
  BY FS_RemoveElement, FS_CardinalityType DEF RoomInv
<1>2. CASE TableErase(i)
  <2>1. Keys' = Keys \ {i} /\ i \in Keys
    BY <1>2 DEF TableErase, Keys, TypeOK
  <2>2. /\ IsFiniteSet(Keys')
        /\ Cardinality(Keys') = Cardinality(Keys) - 1
        /\ Cardinality(Keys') \in Nat
    BY <2>1, FS_RemoveElement, FS_CardinalityType DEF RoomInv
  <2> QED BY <1>1, <2>2, BookAssumption DEF RoomInv
<1>3. CASE TableMiss(i) /\ ~ TableErase(i)
  <2>1. Keys' = Keys
    BY <1>3 DEF TableMiss, Keys
  <2> QED BY <1>1, <1>3, <2>1, BookAssumption DEF RoomInv
<1> QED BY <1>2, <1>3 DEF TableEraseUnchecked

LEMMA StepRoom == IndInv /\ RoomInv /\ [Next]_vars => RoomInv'
<1> SUFFICES ASSUME IndInv, RoomInv, [Next]_vars PROVE RoomInv'
  OBVIOUS
<1>a. TypeOK
  BY DEF IndInv
<1>1. CASE AddOrder
  BY <1>1, AcceptRoom DEF AddOrder
<1>2. CASE ReAdd
  BY <1>2, AcceptRoom DEF ReAdd, IndInv, CallOK
<1>3. ASSUME NEW i \in Live, Withdraw(i) PROVE RoomInv'
  <2>1. Live' = Live \ {i} /\ in_use' = in_use - 1 /\ TableErase(i)
    BY <1>3 DEF Withdraw, Erase, Live
  <2> QED BY <1>a, <2>1, EraseRoom DEF TableEraseUnchecked
<1>4. CASE CancelOrder
  BY <1>3, <1>4 DEF CancelOrder, Findable
<1>5. CASE ModifyReAdd
  BY <1>3, <1>5 DEF ModifyReAdd, Findable
<1>6. CASE ReclaimFilled
  <2>1. PICK i \in Live : i = call.id
    BY <1>6 DEF ReclaimFilled, IndInv, CallOK
  <2>2. /\ Live' = Live \ {i}
        /\ in_use' = in_use - 1
        /\ TableEraseUnchecked(i)
        /\ pc' = "idle"
    BY <1>6, <2>1 DEF ReclaimFilled, Erase, Live
  <2> QED BY <1>a, <2>2, EraseRoom
<1>7. CASE MatchFill
  <2>1. PICK b \in Prices, i \in Live \ {call.id} : FillAt(i, b)
    BY <1>7, MatchFillParts
  <2>2. \/ Live' = Live \ {i} /\ in_use' = in_use - 1 /\ TableEraseUnchecked(i)
        \/ Live' = Live /\ UNCHANGED <<in_use, leftover>>
    BY <2>1 DEF FillAt, Erase, Live, mapVars, IndInv, TypeOK
  <2>3. pc' = "match"
    BY <1>7 DEF MatchFill, Filled
  <2>4. CASE Live' = Live \ {i} /\ in_use' = in_use - 1 /\ TableEraseUnchecked(i)
    BY <1>a, <2>3, <2>4, EraseRoom
  <2>5. CASE Live' = Live /\ UNCHANGED <<in_use, leftover>>
    BY <2>3, <2>5 DEF RoomInv, Keys
  <2> QED BY <2>2, <2>4, <2>5
<1>8. CASE ModifyInPlace
  <2>1. Live' = Live /\ Keys' = Keys /\ in_use' = in_use /\ pc' = pc
    BY <1>8 DEF ModifyInPlace, Findable, mapVars, Live, Keys, IndInv, TypeOK
  <2> QED BY <2>1 DEF RoomInv
<1>9. CASE RestRemainder \/ MatchFilled \/ MatchExhausted \/ ReAddRejected
  <2>1. Live' = Live /\ Keys' = Keys /\ in_use' = in_use /\ pc' # "readd"
    BY <1>9 DEF RestRemainder, MatchFilled, MatchExhausted, ReAddRejected, mapVars, Live, Keys
  <2> QED BY <2>1 DEF RoomInv
<1>10. CASE UNCHANGED vars
  BY <1>10 DEF RoomInv, Live, Keys, vars
<1> QED BY <1>1, <1>2, <1>4, <1>5, <1>6, <1>7, <1>8, <1>9, <1>10 DEF Next, Proceed

LEMMA RoomHolds == Spec => []RoomInv
<1>1. IndInv /\ RoomInv /\ [Next]_vars => (IndInv /\ RoomInv)'
  BY StepInv, StepRoom
<1> QED BY InitInv, InitRoom, <1>1, PTL DEF Spec

\* Every pool slot in use is a live order's: no operation leaks one or frees
\* one twice.
THEOREM PoolNeverLeaks == Spec => []PoolMatchesMap
<1>1. RoomInv => PoolMatchesMap
  BY DEF RoomInv, PoolMatchesMap
<1> QED BY <1>1, RoomHolds, PTL

\* modify_order never fails for want of a pool or a map slot.
THEOREM SlowModifyHasRoom == Spec => []ReAddHasRoom
<1>1. RoomInv => ReAddHasRoom
  BY DEF RoomInv, ReAddHasRoom, HasRoom
<1> QED BY <1>1, RoomHolds, PTL

-----------------------------------------------------------------------------
(* Totals.  Each step moves one order in or out of one level, or changes    *)
(* what it has left, and the sums change by as much as the totals do.       *)

\* The orders that are linked in a level.
Resting == Live \ InFlight

RestingOn(s) == {i \in Resting : order_map[i].side = s}

TotalsInv ==
  /\ \A s \in Sides : total_qty[s] = SharesLeft(order_map, RestingOn(s))
  /\ \A s \in Sides, p \in Prices :
       levels[s][p].total_quantity = Wrap(SharesLeft(order_map, OrdersAt(s, p)))

\* The sums are over finite sets of numbers.
LEMMA SumsAreDefined ==
  ASSUME IndInv, RoomInv
  PROVE  \A S \in SUBSET Live : /\ IsFiniteSet(S)
                                /\ \A i \in S : order_map[i].remaining \in Int
                                /\ SharesLeft(order_map, S) \in Int
<1> TAKE S \in SUBSET Live
<1>1. IsFiniteSet(S)
  BY FS_Subset DEF RoomInv
<1>2. \A i \in S : order_map[i].remaining \in Int
  BY BookAssumption DEF IndInv, TypeOK, Order
<1> QED BY <1>1, <1>2, SharesLeftInt

LEMMA InitTotals == Init => TotalsInv
<1> SUFFICES ASSUME Init PROVE TotalsInv
  OBVIOUS
<1>1. \A s \in Sides : RestingOn(s) = {} /\ \A p \in Prices : OrdersAt(s, p) = {}
  BY DEF Init, RestingOn, Resting, OrdersAt, Live
<1>2. Wrap(0) = 0
  BY BookAssumption DEF Wrap
<1> QED BY <1>1, <1>2, SharesLeftEmpty DEF Init, EmptyLevel, TotalsInv

\* A step that leaves the resting orders alone.
LEMMA QuietTotals ==
  ASSUME IndInv, RoomInv, TotalsInv,
         Resting' = Resting,
         \A j \in Resting : order_map'[j] = order_map[j],
         UNCHANGED <<levels, total_qty>>
  PROVE  TotalsInv'
<1>1. ASSUME NEW S \in SUBSET Resting
      PROVE  SharesLeft(order_map', S) = SharesLeft(order_map, S)
  <2>1. IsFiniteSet(S)
    BY SumsAreDefined DEF Resting
  <2>2. \A j \in S : order_map[j].remaining = order_map'[j].remaining
    OBVIOUS
  <2> QED BY <2>1, <2>2, SharesLeftSame
<1>2. ASSUME NEW s \in Sides
      PROVE  RestingOn(s) \in SUBSET Resting /\ RestingOn(s)' = RestingOn(s)
  BY DEF RestingOn
<1>3. ASSUME NEW s \in Sides, NEW p \in Prices
      PROVE  OrdersAt(s, p) \in SUBSET Resting /\ OrdersAt(s, p)' = OrdersAt(s, p)
  BY DEF OrdersAt, Resting
<1> QED BY <1>1, <1>2, <1>3 DEF TotalsInv, Wrap

\* Two sets that differ by i at most, and both lack it, are the same.
LEMMA SameWithout ==
  ASSUME NEW S, NEW T, NEW i, S \ {i} = T \ {i}, i \notin S, i \notin T
  PROVE  S = T
OBVIOUS

\* A step that changes one resting order i, of side s and price p, and adds to
\* both totals what the order's share of them grows by.
LEMMA OneOrderTotals ==
  ASSUME IndInv, RoomInv, TotalsInv, IndInv', RoomInv',
         NEW i, NEW s \in Sides, NEW p \in Prices, NEW d \in Int,
         Resting' \ {i} = Resting \ {i},
         \A j \in Resting \ {i} : order_map'[j] = order_map[j],
         i \in Resting => order_map[i].side = s /\ order_map[i].price = p,
         i \in Resting' => order_map'[i].side = s /\ order_map'[i].price = p,
         d = (IF i \in Resting' THEN order_map'[i].remaining ELSE 0)
               - (IF i \in Resting THEN order_map[i].remaining ELSE 0),
         \A t \in Sides :
           total_qty'[t] = IF t = s THEN total_qty[t] + d ELSE total_qty[t],
         \A t \in Sides, r \in Prices :
           levels'[t][r].total_quantity =
             IF t = s /\ r = p THEN Wrap(levels[t][r].total_quantity + d)
                               ELSE levels[t][r].total_quantity
  PROVE  TotalsInv'
<1>1. ASSUME NEW S \in SUBSET Resting, NEW T \in SUBSET Resting', S \ {i} = T \ {i},
             i \in S <=> i \in Resting, i \in T <=> i \in Resting'
      PROVE  /\ SharesLeft(order_map, S) \in Int
             /\ SharesLeft(order_map', T) = SharesLeft(order_map, S) + d
  <2>1. /\ IsFiniteSet(S) /\ SharesLeft(order_map, S) \in Int
        /\ \A j \in S : order_map[j].remaining \in Int
    BY SumsAreDefined DEF Resting
  <2>2. IsFiniteSet(T) /\ \A j \in T : order_map'[j].remaining \in Int
    <3>1. \A U \in SUBSET Live' : /\ IsFiniteSet(U)
                                  /\ \A j \in U : order_map'[j].remaining \in Int
      <4>1. \A U \in SUBSET Live' : IsFiniteSet(U)
        BY FS_Subset DEF RoomInv
      <4>2. \A j \in Live' : order_map'[j].remaining \in Int
        BY BookAssumption DEF IndInv, TypeOK, Order
      <4> QED BY <4>1, <4>2
    <3> QED BY <3>1 DEF Resting
  <2>3. \A j \in S \ {i} : order_map[j].remaining = order_map'[j].remaining
    OBVIOUS
  <2>4. PICK pm : pm = order_map'
    OBVIOUS
  <2>5. SharesLeft(pm, T) =
          SharesLeft(order_map, S) + (IF i \in T THEN pm[i].remaining ELSE 0)
                                   - (IF i \in S THEN order_map[i].remaining ELSE 0)
    BY <1>1, <2>1, <2>2, <2>3, <2>4, SharesLeftChange
  <2>6. /\ (IF i \in T THEN pm[i].remaining ELSE 0) \in Int
        /\ (IF i \in S THEN order_map[i].remaining ELSE 0) \in Int
    BY <2>1, <2>2, <2>4
  <2>7. d = (IF i \in T THEN pm[i].remaining ELSE 0)
              - (IF i \in S THEN order_map[i].remaining ELSE 0)
    BY <1>1, <2>4
  <2> QED BY <2>1, <2>4, <2>5, <2>6, <2>7
<1>2. ASSUME NEW S \in SUBSET Resting, S \in SUBSET Resting', i \notin S
      PROVE  SharesLeft(order_map', S) = SharesLeft(order_map, S)
  <2>1. IsFiniteSet(S)
    BY SumsAreDefined DEF Resting
  <2>2. \A j \in S : order_map[j].remaining = order_map'[j].remaining
    BY <1>2
  <2> QED BY <2>1, <2>2, SharesLeftSame
<1>3. ASSUME NEW t \in Sides
      PROVE  total_qty'[t] = SharesLeft(order_map', RestingOn(t)')
  <2>1. /\ RestingOn(t) \in SUBSET Resting
        /\ RestingOn(t)' \in SUBSET Resting'
        /\ RestingOn(t)' \ {i} = RestingOn(t) \ {i}
    BY DEF RestingOn
  <2>2. total_qty[t] = SharesLeft(order_map, RestingOn(t))
    BY DEF TotalsInv
  <2>3. CASE t = s
    <3>1. /\ i \in RestingOn(t) <=> i \in Resting
          /\ i \in RestingOn(t)' <=> i \in Resting'
      BY <2>3 DEF RestingOn
    <3>2. SharesLeft(order_map', RestingOn(t)') = SharesLeft(order_map, RestingOn(t)) + d
      BY <1>1, <2>1, <3>1
    <3> QED BY <2>2, <2>3, <3>2
  <2>4. CASE t # s
    <3>1. i \notin RestingOn(t) /\ i \notin RestingOn(t)'
      BY <2>4 DEF RestingOn
    <3>2. PICK S \in SUBSET Resting : S = RestingOn(t) /\ S = RestingOn(t)'
      <4>1. RestingOn(t)' = RestingOn(t)
        BY <2>1, <3>1, SameWithout
      <4> QED BY <2>1, <4>1
    <3>3. SharesLeft(order_map', S) = SharesLeft(order_map, S)
      BY <1>2, <2>1, <3>1, <3>2
    <3>4. total_qty'[t] = total_qty[t]
      BY <2>4
    <3> QED BY <2>2, <3>2, <3>3, <3>4
  <2> QED BY <2>3, <2>4
<1>4. ASSUME NEW t \in Sides, NEW r \in Prices
      PROVE  levels'[t][r].total_quantity = Wrap(SharesLeft(order_map', OrdersAt(t, r)'))
  <2>1. /\ OrdersAt(t, r) \in SUBSET Resting
        /\ OrdersAt(t, r)' \in SUBSET Resting'
        /\ OrdersAt(t, r)' \ {i} = OrdersAt(t, r) \ {i}
    BY DEF OrdersAt, Resting
  <2>2. levels[t][r].total_quantity = Wrap(SharesLeft(order_map, OrdersAt(t, r)))
    BY DEF TotalsInv
  <2>3. CASE t = s /\ r = p
    <3>1. /\ i \in OrdersAt(t, r) <=> i \in Resting
          /\ i \in OrdersAt(t, r)' <=> i \in Resting'
      BY <2>3 DEF OrdersAt, Resting
    <3>2. PICK n \in Int : n = SharesLeft(order_map, OrdersAt(t, r))
      BY <1>1, <2>1, <3>1
    <3>3. SharesLeft(order_map', OrdersAt(t, r)') = n + d
      BY <1>1, <2>1, <3>1, <3>2
    <3>4. Wrap(Wrap(n) + d) = Wrap(n + d)
      <4>1. PICK m \in Nat \ {0} : m = QtyModulus
        BY BookAssumption
      <4>2. ((n % m) + d) % m = (n + d) % m
        BY RemainderAdds
      <4> QED BY <4>1, <4>2 DEF Wrap
    <3>5. levels'[t][r].total_quantity = Wrap(levels[t][r].total_quantity + d)
      BY <2>3
    <3> QED BY <2>2, <3>2, <3>3, <3>4, <3>5
  <2>4. CASE ~ (t = s /\ r = p)
    <3>1. i \notin OrdersAt(t, r) /\ i \notin OrdersAt(t, r)'
      BY <2>4 DEF OrdersAt, Resting
    <3>2. PICK S \in SUBSET Resting : S = OrdersAt(t, r) /\ S = OrdersAt(t, r)'
      <4>1. OrdersAt(t, r)' = OrdersAt(t, r)
        BY <2>1, <3>1, SameWithout
      <4> QED BY <2>1, <4>1
    <3>3. SharesLeft(order_map', S) = SharesLeft(order_map, S)
      BY <1>2, <2>1, <3>1, <3>2
    <3>4. levels'[t][r].total_quantity = levels[t][r].total_quantity
      BY <2>4
    <3> QED BY <2>2, <3>2, <3>3, <3>4 DEF Wrap
  <2> QED BY <2>3, <2>4
<1> QED BY <1>3, <1>4 DEF TotalsInv, Wrap


LEMMA WithdrawTotals ==
  ASSUME IndInv, RoomInv, TotalsInv, IndInv', RoomInv',
         pc = "idle", pc' \in {"idle", "readd"}, NEW i \in Live, Withdraw(i)
  PROVE  TotalsInv'
<1> DEFINE s == order_map[i].side
           p == order_map[i].price
           n == order_map[i].remaining
<1>1. /\ s \in Sides /\ p \in Prices /\ n \in Int /\ 0 - n \in Int
      /\ levels \in [Sides -> [Prices -> Level]]
      /\ total_qty \in [Sides -> Int]
  BY BookAssumption DEF IndInv, TypeOK, Order
<1>2. Resting = Live /\ Resting' = Live \ {i}
  BY DEF Resting, InFlight, Withdraw, Erase, Live
<1>3. \A j \in Live \ {i} : order_map'[j] = order_map[j]
  BY DEF Withdraw, Erase, Live
<1>4. \A t \in Sides :
        total_qty'[t] = IF t = s THEN total_qty[t] + (0 - n) ELSE total_qty[t]
  BY <1>1 DEF Withdraw
<1>5. \A t \in Sides, r \in Prices :
        levels'[t][r].total_quantity =
          IF t = s /\ r = p THEN Wrap(levels[t][r].total_quantity + (0 - n))
                            ELSE levels[t][r].total_quantity
  <2> SUFFICES ASSUME NEW t \in Sides, NEW r \in Prices
               PROVE  levels'[t][r].total_quantity =
                        IF t = s /\ r = p THEN Wrap(levels[t][r].total_quantity + (0 - n))
                                          ELSE levels[t][r].total_quantity
    OBVIOUS
  <2>1. levels'[t][r] = IF t = s /\ r = p THEN Unlink(levels[t][r], i, n) ELSE levels[t][r]
    BY <1>1 DEF Withdraw
  <2>2. levels[t][r].total_quantity - n = levels[t][r].total_quantity + (0 - n)
    <3> HIDE DEF n
    <3>1. levels[t][r].total_quantity \in Int
      BY <1>1, BookAssumption DEF Level
    <3> QED BY <1>1, <3>1
  <2> QED BY <2>1, <2>2 DEF Unlink
<1> HIDE DEF s, p, n
<1>6. 0 - n = (IF i \in Resting' THEN order_map'[i].remaining ELSE 0)
                - (IF i \in Resting THEN order_map[i].remaining ELSE 0)
  BY <1>2 DEF n
<1>7. order_map[i].side = s /\ order_map[i].price = p
  BY DEF s, p
<1> QED BY <1>1, <1>2, <1>3, <1>4, <1>5, <1>6, <1>7, OneOrderTotals

LEMMA InPlaceTotals ==
  ASSUME IndInv, RoomInv, TotalsInv, IndInv', RoomInv', ModifyInPlace
  PROVE  TotalsInv'
<1>1. PICK i \in Live, q \in Quantities :
        LET o     == order_map[i]
            delta == o.remaining - q
        IN /\ q < o.remaining
           /\ levels' = [levels EXCEPT ![o.side][o.price].total_quantity = Wrap(@ - delta)]
           /\ total_qty' = [total_qty EXCEPT ![o.side] = @ - delta]
           /\ order_map' = [order_map EXCEPT ![i].remaining = q]
  BY InPlaceParts
<1> DEFINE s == order_map[i].side
           p == order_map[i].price
           n == order_map[i].remaining
           d == q - n
<1>2. /\ s \in Sides /\ p \in Prices /\ n \in Int /\ q \in Int /\ d \in Int
      /\ levels \in [Sides -> [Prices -> Level]]
      /\ total_qty \in [Sides -> Int]
      /\ order_map \in [Live -> Order]
  BY BookAssumption DEF IndInv, TypeOK, Order
<1>3. Resting = Live /\ Resting' = Live
  BY <1>1, <1>2 DEF ModifyInPlace, Resting, InFlight, Live
<1>4. /\ \A j \in Live \ {i} : order_map'[j] = order_map[j]
      /\ order_map'[i].side = s /\ order_map'[i].price = p /\ order_map'[i].remaining = q
  BY <1>1, <1>2 DEF Order
<1>5. \A t \in Sides : total_qty'[t] = IF t = s THEN total_qty[t] + d ELSE total_qty[t]
  <2>1. total_qty' = [total_qty EXCEPT ![s] = @ - (n - q)]
    BY <1>1
  <2> HIDE DEF s, n
  <2> QED BY <1>2, <2>1
<1>6. \A t \in Sides, r \in Prices :
        levels'[t][r].total_quantity =
          IF t = s /\ r = p THEN Wrap(levels[t][r].total_quantity + d)
                            ELSE levels[t][r].total_quantity
  <2> SUFFICES ASSUME NEW t \in Sides, NEW r \in Prices
               PROVE  levels'[t][r].total_quantity =
                        IF t = s /\ r = p THEN Wrap(levels[t][r].total_quantity + d)
                                          ELSE levels[t][r].total_quantity
    OBVIOUS
  <2>1. levels' = [levels EXCEPT ![s][p].total_quantity = Wrap(@ - (n - q))]
    BY <1>1
  <2> HIDE DEF s, p, n
  <2>2. levels'[t][r].total_quantity =
          IF t = s /\ r = p THEN Wrap(levels[t][r].total_quantity - (n - q))
                            ELSE levels[t][r].total_quantity
    <3>1. levels[t] \in [Prices -> Level] /\ levels[t][r] \in Level
      BY <1>2
    <3>2. levels'[t] =
            IF t = s THEN [levels[t] EXCEPT ![p].total_quantity = Wrap(@ - (n - q))]
                     ELSE levels[t]
      BY <1>2, <2>1
    <3> QED BY <3>1, <3>2 DEF Level
  <2>3. levels[t][r].total_quantity - (n - q) = levels[t][r].total_quantity + d
    <3>1. levels[t][r].total_quantity \in Int
      BY <1>2, BookAssumption DEF Level
    <3> QED BY <1>2, <3>1
  <2> QED BY <2>2, <2>3
<1>7. order_map[i].side = s /\ order_map[i].price = p
  OBVIOUS
<1>8. d = (IF i \in Resting' THEN order_map'[i].remaining ELSE 0)
            - (IF i \in Resting THEN order_map[i].remaining ELSE 0)
  BY <1>3, <1>4
<1>9. /\ Resting' \ {i} = Resting \ {i}
      /\ \A j \in Resting \ {i} : order_map'[j] = order_map[j]
  BY <1>3, <1>4
<1> HIDE DEF s, p, n, d
<1> QED BY <1>2, <1>4, <1>5, <1>6, <1>7, <1>8, <1>9, OneOrderTotals

LEMMA RestTotals ==
  ASSUME IndInv, RoomInv, TotalsInv, IndInv', RoomInv', RestRemainder
  PROVE  TotalsInv'
<1> DEFINE i == call.id
           s == order_map[i].side
           p == order_map[i].price
           n == order_map[i].remaining
<1>1. /\ i \in Live /\ s \in Sides /\ p \in Prices /\ n \in Int
      /\ levels \in [Sides -> [Prices -> Level]]
      /\ total_qty \in [Sides -> Int]
  <2>1. i \in Live
    BY DEF RestRemainder, IndInv, CallOK
  <2>2. order_map[i] \in Order
    BY <2>1 DEF IndInv, TypeOK
  <2>3. /\ levels \in [Sides -> [Prices -> Level]]
        /\ total_qty \in [Sides -> Int]
    BY DEF IndInv, TypeOK
  <2> QED BY <2>1, <2>2, <2>3, BookAssumption DEF Order
<1>2. Resting = Live \ {i} /\ Resting' = Live
  BY DEF RestRemainder, Resting, InFlight, Live
<1>3. order_map' = order_map
  BY DEF RestRemainder
<1>4. \A t \in Sides : total_qty'[t] = IF t = s THEN total_qty[t] + n ELSE total_qty[t]
  BY <1>1 DEF RestRemainder
<1>5. \A t \in Sides, r \in Prices :
        levels'[t][r].total_quantity =
          IF t = s /\ r = p THEN Wrap(levels[t][r].total_quantity + n)
                            ELSE levels[t][r].total_quantity
  <2> SUFFICES ASSUME NEW t \in Sides, NEW r \in Prices
               PROVE  levels'[t][r].total_quantity =
                        IF t = s /\ r = p THEN Wrap(levels[t][r].total_quantity + n)
                                          ELSE levels[t][r].total_quantity
    OBVIOUS
  <2>1. levels'[t][r] = IF t = s /\ r = p THEN PushBack(levels[t][r], i, n) ELSE levels[t][r]
    BY <1>1 DEF RestRemainder
  <2> QED BY <2>1 DEF PushBack
<1>6. /\ order_map'[i].side = s /\ order_map'[i].price = p
      /\ n = (IF i \in Resting' THEN order_map'[i].remaining ELSE 0)
               - (IF i \in Resting THEN order_map[i].remaining ELSE 0)
  BY <1>1, <1>2, <1>3
<1>7. /\ Resting' \ {i} = Resting \ {i}
      /\ \A j \in Resting \ {i} : order_map'[j] = order_map[j]
      /\ i \notin Resting
  BY <1>2, <1>3
<1>8. PICK j \in Ids : j = i
  BY <1>1 DEF IndInv, TypeOK
<1>9. /\ Resting' \ {j} = Resting \ {j}
      /\ \A k \in Resting \ {j} : order_map'[k] = order_map[k]
      /\ j \in Resting => order_map[j].side = s /\ order_map[j].price = p
      /\ j \in Resting' => order_map'[j].side = s /\ order_map'[j].price = p
      /\ n = (IF j \in Resting' THEN order_map'[j].remaining ELSE 0)
               - (IF j \in Resting THEN order_map[j].remaining ELSE 0)
  BY <1>6, <1>7, <1>8
<1> HIDE DEF i, s, p, n
<1> QED BY <1>1, <1>4, <1>5, <1>9, OneOrderTotals

LEMMA FillTotals ==
  ASSUME IndInv, RoomInv, TotalsInv, IndInv', RoomInv', MatchFill
  PROVE  TotalsInv'
<1> DEFINE c == call.id
           s == Opposite(order_map[c].side)
<1>1. PICK p \in Prices, i \in Live \ {c} :
        FillAt(i, p) /\ s \in Sides /\ i \in OrdersAt(s, p)
  BY MatchFillParts
<1> DEFINE fill == MinOf(order_map[c].remaining, order_map[i].remaining)
           filled == order_map[i].remaining = fill
           n == order_map[i].remaining
           om == [order_map EXCEPT ![c].remaining = @ - fill, ![i].remaining = @ - fill]
<1>2. /\ fill \in Int /\ 0 - fill \in Int /\ n \in Int
      /\ levels \in [Sides -> [Prices -> Level]]
      /\ total_qty \in [Sides -> Int]
      /\ order_map \in [Live -> Order]
      /\ c \in Live
  <2>1. fill \in Int
    BY <1>1, FillOrders, BookAssumption
  <2>2. 0 - fill \in Int
    <3> HIDE DEF fill
    <3> QED BY <2>1
  <2>3. c \in Live
    BY DEF MatchFill, IndInv, CallOK
  <2> QED BY <1>1, <2>1, <2>2, <2>3, BookAssumption DEF IndInv, TypeOK, Order
<1>3. i \in Live /\ i # c /\ order_map[i].side = s /\ order_map[i].price = p
  BY <1>1 DEF OrdersAt
<1>4. order_map' = IF filled THEN Erase(om, i) ELSE om
  BY <1>1 DEF FillAt
<1>5. /\ \A j \in Live \ {c, i} : om[j] = order_map[j]
      /\ om[i].side = s /\ om[i].price = p /\ om[i].remaining = n - fill
      /\ DOMAIN om = Live
  <2> HIDE DEF fill
  <2> QED BY <1>2, <1>3 DEF Order, Live
<1> HIDE DEF om
<1>6. /\ Resting = Live \ {c}
      /\ Resting' = IF filled THEN Live \ {c, i} ELSE Live \ {c}
  BY <1>4, <1>5 DEF MatchFill, Resting, InFlight, Erase, Live
<1>7. \A j \in Resting \ {i} : order_map'[j] = order_map[j]
  BY <1>4, <1>5, <1>6 DEF Erase
<1>8. i \in Resting' => /\ order_map'[i].side = s /\ order_map'[i].price = p
                        /\ order_map'[i].remaining = n - fill
  BY <1>3, <1>4, <1>5, <1>6
<1>9. 0 - fill = (IF i \in Resting' THEN order_map'[i].remaining ELSE 0)
                   - (IF i \in Resting THEN order_map[i].remaining ELSE 0)
  <2>1. CASE filled
    BY <1>2, <1>3, <1>6, <2>1
  <2>2. CASE ~ filled
    <3>1. i \in Resting' /\ i \in Resting
      BY <1>3, <1>6, <2>2
    <3> HIDE DEF fill
    <3> QED BY <1>2, <1>8, <3>1
  <2> QED BY <2>1, <2>2
<1>10. \A t \in Sides :
         total_qty'[t] = IF t = s THEN total_qty[t] + (0 - fill) ELSE total_qty[t]
  <2>1. total_qty' = [total_qty EXCEPT ![s] = @ - fill]
    BY <1>1 DEF FillAt
  <2> HIDE DEF fill, s
  <2> QED BY <1>1, <1>2, <2>1
<1>11. \A t \in Sides, r \in Prices :
         levels'[t][r].total_quantity =
           IF t = s /\ r = p THEN Wrap(levels[t][r].total_quantity + (0 - fill))
                             ELSE levels[t][r].total_quantity
  <2> SUFFICES ASSUME NEW t \in Sides, NEW r \in Prices
               PROVE  levels'[t][r].total_quantity =
                        IF t = s /\ r = p THEN Wrap(levels[t][r].total_quantity + (0 - fill))
                                          ELSE levels[t][r].total_quantity
    OBVIOUS
  <2>1. levels' = [levels EXCEPT ![s][p] = FillHead(@, fill, filled)]
    BY <1>1 DEF FillAt
  <2> HIDE DEF fill, filled, s
  <2>2. levels'[t][r] = IF t = s /\ r = p THEN FillHead(levels[t][r], fill, filled)
                                          ELSE levels[t][r]
    BY <1>1, <1>2, <2>1
  <2>3. levels[t][r].total_quantity - fill = levels[t][r].total_quantity + (0 - fill)
    BY <1>2, BookAssumption DEF Level
  <2> QED BY <2>2, <2>3 DEF FillHead
<1> HIDE DEF s, fill, filled, n
<1>12. Resting' \ {i} = Resting \ {i}
  BY <1>6
<1>13. PICK d \in Int : d = 0 - fill
  BY <1>2
<1>14. PICK u \in Sides :
         /\ i \in Resting => order_map[i].side = u /\ order_map[i].price = p
         /\ i \in Resting' => order_map'[i].side = u /\ order_map'[i].price = p
         /\ \A t \in Sides :
              total_qty'[t] = IF t = u THEN total_qty[t] + d ELSE total_qty[t]
         /\ \A t \in Sides, r \in Prices :
              levels'[t][r].total_quantity =
                IF t = u /\ r = p THEN Wrap(levels[t][r].total_quantity + d)
                                  ELSE levels[t][r].total_quantity
  BY <1>1, <1>3, <1>8, <1>10, <1>11, <1>13
<1>15. d = (IF i \in Resting' THEN order_map'[i].remaining ELSE 0)
             - (IF i \in Resting THEN order_map[i].remaining ELSE 0)
  BY <1>9, <1>13
<1> QED BY <1>7, <1>12, <1>14, <1>15, OneOrderTotals

LEMMA StepTotals ==
  ASSUME IndInv, RoomInv, TotalsInv, IndInv', RoomInv', [Next]_vars
  PROVE  TotalsInv'
<1>1. ASSUME pc \in {"idle", "readd"}, NEW c \in Call, c.id \notin Live, Accept(c)
      PROVE  TotalsInv'
  <2>1. Resting = Live /\ Resting' = Live
    BY <1>1 DEF Resting, InFlight, Accept, Insert, Live
  <2>2. \A j \in Live : order_map'[j] = order_map[j]
    BY <1>1 DEF Accept, Insert, Live
  <2> QED BY <1>1, <2>1, <2>2, QuietTotals DEF Accept
<1>2. CASE AddOrder
  BY <1>1, <1>2 DEF AddOrder, Keys
<1>3. CASE ReAdd
  BY <1>1, <1>3 DEF ReAdd, Keys, IndInv, CallOK
<1>4. CASE CancelOrder
  BY <1>4, WithdrawTotals DEF CancelOrder, Findable
<1>5. CASE ModifyReAdd
  BY <1>5, WithdrawTotals DEF ModifyReAdd, Findable
<1>6. CASE ModifyInPlace
  BY <1>6, InPlaceTotals
<1>7. CASE MatchFill
  BY <1>7, FillTotals
<1>8. CASE RestRemainder
  BY <1>8, RestTotals
<1>9. CASE ReclaimFilled
  <2>1. Resting = Live \ {call.id} /\ Resting' = Live \ {call.id}
    BY <1>9 DEF ReclaimFilled, Resting, InFlight, Erase, Live
  <2>2. \A j \in Resting : order_map'[j] = order_map[j]
    BY <1>9, <2>1 DEF ReclaimFilled, Erase, Live
  <2> QED BY <1>9, <2>1, <2>2, QuietTotals DEF ReclaimFilled
<1>10. CASE MatchFilled \/ MatchExhausted \/ ReAddRejected \/ UNCHANGED vars
  <2>1. /\ Resting' = Resting
        /\ UNCHANGED <<order_map, levels, total_qty>>
    BY <1>10 DEF MatchFilled, MatchExhausted, ReAddRejected, vars, Resting, InFlight, Live
  <2> QED BY <2>1, QuietTotals
<1> QED BY <1>2, <1>3, <1>4, <1>5, <1>6, <1>7, <1>8, <1>9, <1>10 DEF Next, Proceed

\* The totals that get_stats and top_of_book report are what the resting orders
\* have left: a side's total exactly, a level's modulo 2^32.
THEOREM TotalsAreSums == Spec => []TotalsMatch
<1>1. IndInv /\ RoomInv /\ TotalsInv /\ [Next]_vars => (IndInv /\ RoomInv /\ TotalsInv)'
  BY StepInv, StepRoom, StepTotals
<1>2. IndInv /\ TotalsInv => TotalsMatch
  <2> SUFFICES ASSUME IndInv, TotalsInv, NEW s \in Sides
               PROVE  /\ total_qty[s] = SharesLeft(order_map, RestingOn(s))
                      /\ \A p \in Prices :
                           levels[s][p].total_quantity =
                             Wrap(SharesLeft(order_map, ToSet(levels[s][p].queue)))
    BY DEF TotalsMatch, RestingOn, Resting, SharesLeft
  <2> QED BY DEF TotalsInv, IndInv, QueuedOnce
<1> QED BY InitInv, InitRoom, InitTotals, <1>1, <1>2, PTL DEF Spec

-----------------------------------------------------------------------------
(* Operations end.                                                          *)

\* A pass of match either erases an order or leaves nothing of the aggressor.
LEMMA FillProgress ==
  ASSUME IndInv, MatchFill
  PROVE  /\ call.id \in Live'
         /\ \/ \E i \in Live : Live' = Live \ {i}
            \/ Live' = Live /\ order_map'[call.id].remaining = 0
<1> DEFINE c == call.id
<1>1. PICK b \in Prices, i \in Live \ {c} : FillAt(i, b)
  BY MatchFillParts
<1> DEFINE fill == MinOf(order_map[c].remaining, order_map[i].remaining)
           om == [order_map EXCEPT ![c].remaining = @ - fill, ![i].remaining = @ - fill]
<1>2. /\ c \in Live
      /\ order_map[c].remaining \in Int
      /\ order_map[i].remaining \in Int
      /\ order_map \in [Live -> Order]
  <2>1. pc = "match"
    BY DEF MatchFill
  <2> QED BY <2>1, BookAssumption DEF IndInv, TypeOK, CallOK, Order
<1>3. Live' = IF order_map[i].remaining = fill THEN Live \ {i} ELSE Live
  BY <1>1, FillOrders
<1>4. CASE order_map[i].remaining = fill
  BY <1>2, <1>3, <1>4
<1>5. CASE order_map[i].remaining # fill
  <2>1. fill = order_map[c].remaining
    BY <1>5 DEF MinOf
  <2>2. order_map' = om
    BY <1>1, <1>5 DEF FillAt
  <2> HIDE DEF fill
  <2>3. om[c].remaining = order_map[c].remaining - fill
    BY <1>1, <1>2 DEF Order
  <2> QED BY <1>2, <1>3, <1>5, <2>1, <2>2, <2>3
<1> QED BY <1>4, <1>5

\* No call of the engine runs for ever, whatever quantities, zero included, the
\* book holds: every step but the first of an operation lowers a bound.
THEOREM OperationsEnd == Spec => OperationEnds
<1> DEFINE Closer == StepsLeft' < StepsLeft
<1>1. IndInv /\ RoomInv /\ [Next]_vars => [pc # "idle" => Closer]_vars
  <2> SUFFICES ASSUME IndInv, RoomInv, Next, pc # "idle" PROVE Closer
    OBVIOUS
  <2>1. IsFiniteSet(Live) /\ Cardinality(Live) \in Nat
    BY DEF RoomInv
  <2>2. CASE MatchFill
    <3>1. pc = "match" /\ pc' = "match" /\ call' = call /\ order_map[call.id].remaining > 0
      BY <2>2 DEF MatchFill
    <3>2. CASE \E i \in Live : Live' = Live \ {i}
      <4>1. PICK i \in Live : Live' = Live \ {i}
        BY <3>2
      <4>2. Cardinality(Live') = Cardinality(Live) - 1
        BY <2>1, <4>1, FS_RemoveElement
      <4> QED BY <2>1, <3>1, <4>2 DEF StepsLeft
    <3>3. CASE Live' = Live /\ order_map'[call.id].remaining = 0
      BY <2>1, <3>1, <3>3 DEF StepsLeft
    <3> QED BY <2>2, <3>2, <3>3, FillProgress
  <2>3. CASE MatchFilled \/ MatchExhausted
    BY <2>1, <2>3 DEF MatchFilled, MatchExhausted, StepsLeft
  <2>4. CASE RestRemainder \/ ReclaimFilled
    BY <2>4 DEF RestRemainder, ReclaimFilled, StepsLeft
  <2>5. CASE ReAdd
    <3>1. pc = "readd" /\ pc' \in {"match", "finish"}
      BY <2>5 DEF ReAdd, Accept
    <3>2. Live' = Live \cup {call.id} /\ call.id \notin Live
      BY <2>5 DEF ReAdd, Accept, Insert, Live, Keys, IndInv, CallOK
    <3>3. Cardinality(Live') = Cardinality(Live) + 1
      BY <2>1, <3>2, FS_AddElement
    <3> QED BY <2>1, <3>1, <3>3 DEF StepsLeft
  <2>6. CASE ReAddRejected
    BY <2>1, <2>6 DEF ReAddRejected, StepsLeft
  <2>7. ~ (AddOrder \/ CancelOrder \/ ModifyInPlace \/ ModifyReAdd)
    BY DEF AddOrder, CancelOrder, ModifyInPlace, ModifyReAdd
  <2> QED BY <2>2, <2>3, <2>4, <2>5, <2>6, <2>7 DEF Next, Proceed
<1>2. Spec => [](IndInv /\ RoomInv)
  BY IndInvHolds, RoomHolds, PTL
<1> QED BY <1>1, <1>2, PTL DEF Spec, OperationEnds

-----------------------------------------------------------------------------
(* Time priority within a level.                                            *)

\* Whoever was ahead in old, or alone of the two in it, is ahead in new.
KeepsOrder(old, new) ==
  \A i, j \in ToSet(new) :
    i \in ToSet(old) /\ (j \in ToSet(old) => Ahead(old, i, j)) /\ i # j
      => Ahead(new, i, j)

\* w is the queue q without what stood at place k.
Gap(w, q, k) ==
  /\ Len(w) = Len(q) - 1
  /\ DOMAIN w = 1 .. Len(q) - 1
  /\ \A m \in DOMAIN w : w[m] = IF m < k THEN q[m] ELSE q[m + 1]

\* In a queue without duplicates every element has one place.
LEMMA Places ==
  ASSUME NEW S, NEW q \in Seq(S), IsInjective(q)
  PROVE  /\ \A x \in ToSet(q) : PositionIn(q, x) \in DOMAIN q /\ q[PositionIn(q, x)] = x
         /\ \A m \in DOMAIN q : PositionIn(q, q[m]) = m /\ q[m] \in ToSet(q)
<1>1. \A x \in ToSet(q) : \E m \in DOMAIN q : q[m] = x
  BY DEF ToSet
<1>2. \A m \in DOMAIN q : q[m] \in ToSet(q)
  BY DEF ToSet
<1>3. \A m, n \in DOMAIN q : q[m] = q[n] => m = n
  BY DEF IsInjective
<1> QED BY <1>1, <1>2, <1>3 DEF PositionIn

\* One that joins, joins behind all others.
LEMMA AppendKeeps ==
  ASSUME NEW S, NEW q \in Seq(S), NEW x \in S, IsInjective(q), x \notin ToSet(q)
  PROVE  KeepsOrder(q, Append(q, x))
<1> DEFINE n == Len(q)
<1>1. PICK w : w = Append(q, x)
  OBVIOUS
<1>2. /\ n \in Nat /\ DOMAIN q = 1 .. n /\ DOMAIN w = 1 .. n + 1
      /\ \A m \in 1 .. n : w[m] = q[m]
      /\ w[n + 1] = x
  BY <1>1, AppendProperties
<1>3. w \in Seq(S) /\ IsInjective(w)
  BY <1>1, AppendLinks
<1> HIDE DEF n
<1>4. ASSUME NEW y \in ToSet(q)
      PROVE  PositionIn(w, y) = PositionIn(q, y) /\ PositionIn(w, y) \in 1 .. n
  <2>1. PositionIn(q, y) \in 1 .. n /\ q[PositionIn(q, y)] = y
    BY <1>2, Places
  <2>2. w[PositionIn(q, y)] = y /\ PositionIn(q, y) \in DOMAIN w
    BY <1>2, <2>1
  <2> QED BY <1>3, <2>1, <2>2, Places
<1>5. PositionIn(w, x) = n + 1
  <2>1. n + 1 \in DOMAIN w
    BY <1>2
  <2> QED BY <1>2, <1>3, <2>1, Places
<1>6. ToSet(w) = ToSet(q) \cup {x}
  BY <1>1, AppendLinks
<1> SUFFICES ASSUME NEW i \in ToSet(w), NEW j \in ToSet(w), i \in ToSet(q),
                    j \in ToSet(q) => Ahead(q, i, j), i # j
             PROVE  Ahead(w, i, j)
  BY <1>1 DEF KeepsOrder
<1>7. CASE j \in ToSet(q)
  BY <1>4, <1>7 DEF Ahead
<1>8. CASE j = x
  <2>1. PositionIn(w, i) \in 1 .. n
    BY <1>4
  <2> QED BY <1>2, <1>5, <1>8, <2>1 DEF Ahead
<1> QED BY <1>6, <1>7, <1>8

\* When one leaves, those behind it close up.
LEMMA GapKeeps ==
  ASSUME NEW S, NEW q \in Seq(S), NEW w \in Seq(S), IsInjective(q), IsInjective(w),
         NEW k \in DOMAIN q, Gap(w, q, k)
  PROVE  KeepsOrder(q, w)
<1> DEFINE n == Len(q)
<1>1. n \in Nat /\ DOMAIN q = 1 .. n /\ k \in 1 .. n
  OBVIOUS
<1>2. DOMAIN w = 1 .. n - 1 /\ \A m \in 1 .. n - 1 : w[m] = IF m < k THEN q[m] ELSE q[m + 1]
  BY DEF Gap
<1> HIDE DEF n
<1>3. ASSUME NEW y \in ToSet(w)
      PROVE  /\ y \in ToSet(q)
             /\ PositionIn(w, y) \in 1 .. n - 1
             /\ PositionIn(q, y) = IF PositionIn(w, y) < k THEN PositionIn(w, y)
                                   ELSE PositionIn(w, y) + 1
  <2> DEFINE m == PositionIn(w, y)
  <2>1. m \in 1 .. n - 1 /\ w[m] = y
    <3>1. m \in DOMAIN w /\ w[m] = y
      BY Places
    <3> QED BY <1>2, <3>1
  <2> HIDE DEF m
  <2>2. PICK r \in 1 .. n : r = (IF m < k THEN m ELSE m + 1) /\ q[r] = y
    BY <1>1, <1>2, <2>1
  <2>3. PositionIn(q, y) = r /\ y \in ToSet(q)
    BY <1>1, <2>2, Places
  <2> QED BY <2>1, <2>2, <2>3 DEF m
<1> SUFFICES ASSUME NEW i \in ToSet(w), NEW j \in ToSet(w), Ahead(q, i, j)
             PROVE  Ahead(w, i, j)
  BY <1>3 DEF KeepsOrder
<1>4. PICK a \in 1 .. n - 1, b \in 1 .. n - 1 : a = PositionIn(w, i) /\ b = PositionIn(w, j)
  BY <1>3
<1>5. (IF a < k THEN a ELSE a + 1) < (IF b < k THEN b ELSE b + 1)
  BY <1>3, <1>4 DEF Ahead
<1>6. a < b
  BY <1>1, <1>4, <1>5
<1> QED BY <1>4, <1>6 DEF Ahead

\* Every queue of the book is one without duplicates.
LEMMA QueueIsInjective ==
  ASSUME IndInv, NEW s \in Sides, NEW p \in Prices
  PROVE  /\ levels[s][p].queue \in Seq(Ids)
         /\ IsInjective(levels[s][p].queue)
         /\ ToSet(levels[s][p].queue) = OrdersAt(s, p)
BY DEF IndInv, TypeOK, Level, QueuedOnce

LEMMA SameKeeps ==
  ASSUME NEW q
  PROVE  KeepsOrder(q, q)
BY DEF KeepsOrder

LEMMA WithdrawKeeps ==
  ASSUME IndInv, pc = "idle", NEW i \in Live, Withdraw(i), IndInv',
         NEW s \in Sides, NEW p \in Prices
  PROVE  KeepsOrder(levels[s][p].queue, levels'[s][p].queue)
<1> DEFINE t == order_map[i].side
           r == order_map[i].price
           q == levels[t][r].queue
           k == PositionIn(q, i)
           w == RemoveAt(q, k)
<1>1. /\ t \in Sides /\ r \in Prices
      /\ s # t \/ p # r => levels'[s][p] = levels[s][p]
  BY WithdrawEmpties
<1>2. levels'[t][r].queue = w
  <2> DEFINE v == Unlink(levels[t][r], i, order_map[i].remaining)
  <2>1. levels' = [levels EXCEPT ![t][r] = v]
    BY DEF Withdraw
  <2>2. v.queue = w
    BY DEF Unlink
  <2>3. DOMAIN levels = Sides /\ \A x \in Sides : DOMAIN levels[x] = Prices
    BY DEF IndInv, TypeOK
  <2> HIDE DEF v, w, t, r
  <2> QED BY <1>1, <2>1, <2>2, <2>3
<1>3. i \in OrdersAt(t, r)
  BY DEF OrdersAt, InFlight
<1> HIDE DEF t, r
<1>4. q \in Seq(Ids) /\ IsInjective(q) /\ i \in ToSet(q)
  BY <1>1, <1>3, QueueIsInjective
<1>5. IsInjective(w)
  <2>1. (\A x \in Sides, y \in Prices : IsInjective(levels[x][y].queue))'
    BY DEF IndInv, QueuedOnce
  <2> QED BY <1>1, <1>2, <2>1
<1> HIDE DEF q
<1>6. k \in DOMAIN q /\ w \in Seq(Ids) /\ Gap(w, q, k)
  <2>1. /\ k \in 1 .. Len(q) /\ w \in Seq(Ids)
        /\ DOMAIN w = 1 .. Len(q) - 1 /\ Len(w) = Len(q) - 1
        /\ \A m \in 1 .. Len(q) - 1 : w[m] = IF m < k THEN q[m] ELSE q[m + 1]
    BY <1>4, RemoveShifts
  <2>2. DOMAIN q = 1 .. Len(q)
    BY <1>4
  <2> HIDE DEF w, k
  <2> QED BY <2>1, <2>2 DEF Gap
<1> HIDE DEF w, k
<1>7. KeepsOrder(q, w)
  BY <1>4, <1>5, <1>6, GapKeeps
<1>8. CASE s = t /\ p = r
  BY <1>2, <1>7, <1>8 DEF q
<1>9. CASE s # t \/ p # r
  BY <1>1, <1>9, SameKeeps
<1> QED BY <1>8, <1>9

LEMMA FillKeeps ==
  ASSUME IndInv, MatchFill, IndInv', NEW s \in Sides, NEW p \in Prices
  PROVE  KeepsOrder(levels[s][p].queue, levels'[s][p].queue)
<1> DEFINE t == Opposite(order_map[call.id].side)
<1>1. PICK b \in Prices, i \in Live \ {call.id} :
        FillAt(i, b) /\ t \in Sides /\ levels[t][b].queue # << >>
  BY MatchFillParts
<1> DEFINE q == levels[t][b].queue
           fill == MinOf(order_map[call.id].remaining, order_map[i].remaining)
           filled == order_map[i].remaining = fill
<1>2. /\ levels'[t][b].queue = IF filled THEN Tail(q) ELSE q
      /\ s # t \/ p # b => levels'[s][p] = levels[s][p]
  <2> DEFINE v == FillHead(levels[t][b], fill, filled)
  <2>1. levels' = [levels EXCEPT ![t][b] = v]
    BY <1>1 DEF FillAt
  <2>2. v.queue = IF filled THEN Tail(q) ELSE q
    BY DEF FillHead
  <2>3. DOMAIN levels = Sides /\ \A x \in Sides : DOMAIN levels[x] = Prices
    BY DEF IndInv, TypeOK
  <2> HIDE DEF v, t, filled
  <2> QED BY <1>1, <2>1, <2>2, <2>3
<1> HIDE DEF t, filled
<1>3. q \in Seq(Ids) /\ IsInjective(q) /\ q # << >>
  BY <1>1, QueueIsInjective
<1>4. IsInjective(levels'[t][b].queue)
  <2>1. (\A x \in Sides, y \in Prices : IsInjective(levels[x][y].queue))'
    BY DEF IndInv, QueuedOnce
  <2> QED BY <1>1, <2>1
<1>5. CASE s = t /\ p = b /\ filled
  <2>1. levels'[t][b].queue = Tail(q)
    BY <1>2, <1>5
  <2> HIDE DEF q
  <2>2. /\ Len(q) \in Nat \ {0} /\ DOMAIN q = 1 .. Len(q)
        /\ Tail(q) \in Seq(Ids) /\ Len(Tail(q)) = Len(q) - 1
        /\ DOMAIN Tail(q) = 1 .. Len(q) - 1
        /\ \A m \in 1 .. Len(q) - 1 : Tail(q)[m] = q[m + 1]
    BY <1>3
  <2>3. 1 \in DOMAIN q /\ Gap(Tail(q), q, 1)
    BY <2>2 DEF Gap
  <2>4. KeepsOrder(q, Tail(q))
    BY <1>3, <1>4, <2>1, <2>2, <2>3, GapKeeps
  <2> QED BY <1>5, <2>1, <2>4 DEF q
<1>6. CASE ~ (s = t /\ p = b /\ filled)
  <2>1. levels'[s][p].queue = levels[s][p].queue
    BY <1>2, <1>6
  <2> QED BY <2>1, SameKeeps
<1> QED BY <1>5, <1>6

LEMMA RestKeeps ==
  ASSUME IndInv, RestRemainder, NEW s \in Sides, NEW p \in Prices
  PROVE  KeepsOrder(levels[s][p].queue, levels'[s][p].queue)
<1> DEFINE i == call.id
           t == order_map[i].side
           r == order_map[i].price
           q == levels[t][r].queue
<1>1. pc = "finish" /\ i \in Live /\ i \in InFlight /\ order_map[i] \in Order
  BY DEF RestRemainder, IndInv, TypeOK, CallOK, InFlight
<1>2. t \in Sides /\ r \in Prices /\ i \in Ids
  BY <1>1 DEF Order, IndInv, TypeOK
<1>3. /\ levels'[t][r].queue = Append(q, i)
      /\ s # t \/ p # r => levels'[s][p] = levels[s][p]
  <2> DEFINE v == PushBack(levels[t][r], i, order_map[i].remaining)
  <2>1. levels' = [levels EXCEPT ![t][r] = v]
    BY DEF RestRemainder
  <2>2. v.queue = Append(q, i)
    BY DEF PushBack
  <2>3. DOMAIN levels = Sides /\ \A x \in Sides : DOMAIN levels[x] = Prices
    BY DEF IndInv, TypeOK
  <2> HIDE DEF v, t, r, i
  <2> QED BY <1>2, <2>1, <2>2, <2>3
<1> HIDE DEF t, r
<1>4. q \in Seq(Ids) /\ IsInjective(q) /\ i \notin ToSet(q)
  <2>1. i \notin OrdersAt(t, r)
    BY <1>1 DEF OrdersAt
  <2> QED BY <1>2, <2>1, QueueIsInjective
<1>5. KeepsOrder(q, Append(q, i))
  <2> HIDE DEF q, i
  <2> QED BY <1>2, <1>4, AppendKeeps
<1>6. CASE s = t /\ p = r
  BY <1>3, <1>5, <1>6
<1>7. CASE s # t \/ p # r
  BY <1>3, <1>7, SameKeeps
<1> QED BY <1>6, <1>7

\* An in-place modify changes a total and no queue.
LEMMA InPlaceKeeps ==
  ASSUME IndInv, ModifyInPlace, NEW s \in Sides, NEW p \in Prices
  PROVE  KeepsOrder(levels[s][p].queue, levels'[s][p].queue)
<1>1. PICK i \in Live, q \in Quantities :
        LET o     == order_map[i]
            delta == o.remaining - q
        IN levels' = [levels EXCEPT ![o.side][o.price].total_quantity = Wrap(@ - delta)]
  BY DEF ModifyInPlace, Findable
<1>2. levels'[s][p].queue = levels[s][p].queue
  BY <1>1 DEF IndInv, TypeOK, Level
<1> QED BY <1>2, SameKeeps

\* No operation changes who of two orders at a price is first.
THEOREM QueuesKeepOrder == Spec => QueueOrderKept
<1> DEFINE Kept == \A s \in Sides, p \in Prices :
                     KeepsOrder(levels[s][p].queue, levels'[s][p].queue)
<1>1. IndInv /\ [Next]_vars => [Kept]_vars
  <2> SUFFICES ASSUME IndInv, Next, NEW s \in Sides, NEW p \in Prices
               PROVE  KeepsOrder(levels[s][p].queue, levels'[s][p].queue)
    OBVIOUS
  <2>1. IndInv'
    BY StepInv
  <2>2. CASE CancelOrder \/ ModifyReAdd
    BY <2>1, <2>2, WithdrawKeeps DEF CancelOrder, ModifyReAdd, Findable
  <2>3. CASE MatchFill
    BY <2>1, <2>3, FillKeeps
  <2>4. CASE RestRemainder
    BY <2>4, RestKeeps
  <2>5. CASE ModifyInPlace
    BY <2>5, InPlaceKeeps
  <2>6. CASE levels' = levels
    BY <2>6, SameKeeps
  <2>7. CASE AddOrder \/ ReAdd
    BY <2>6, <2>7 DEF AddOrder, ReAdd, Accept
  <2>8. CASE MatchFilled \/ MatchExhausted \/ ReclaimFilled \/ ReAddRejected
    BY <2>6, <2>8 DEF MatchFilled, MatchExhausted, ReclaimFilled, ReAddRejected
  <2> QED BY <2>2, <2>3, <2>4, <2>5, <2>7, <2>8 DEF Next, Proceed
<1>2. [Kept]_vars => [\A s \in Sides, p \in Prices :
                        LET old == levels[s][p].queue
                            new == levels'[s][p].queue
                        IN \A i, j \in ToSet(new) :
                             i \in ToSet(old) /\ (j \in ToSet(old) => Ahead(old, i, j)) /\ i # j
                               => Ahead(new, i, j)]_vars
  BY DEF KeepsOrder
<1> QED BY <1>1, <1>2, IndInvHolds, PTL DEF Spec, QueueOrderKept

-----------------------------------------------------------------------------
(* The quotes never cross, even when the book does.                        *)

Have(s) == IF s = "Buy" THEN HaveBid ELSE HaveAsk

\* The strengthening: while an order matches, a quote of its own side is
\* already below (above) the opposite best price, wherever the walk takes it;
\* an order that is about to rest does not reach the opposite quote.
QuoteInv ==
  /\ QuotesNeverCross
  /\ best["Buy"] \in Prices
  /\ pc = "match" /\ Have(order_map[call.id].side) => best["Buy"] < best["Sell"]
  /\ pc = "finish" /\ order_map[call.id].remaining > 0 =>
       ~ BestTrades(order_map[call.id].side, order_map[call.id].price)

LEMMA InitQuotes == Init => QuoteInv
<1> SUFFICES ASSUME Init PROVE QuoteInv
  OBVIOUS
<1>1. ~ HaveBid
  BY BookAssumption DEF Init, HaveBid, EmptyAt, EmptyLevel, Sides, Prices
<1>2. best["Buy"] \in Prices
  BY BookAssumption DEF Init, Sides, Prices
<1> QED BY <1>1, <1>2 DEF Init, QuoteInv, QuotesNeverCross

LEMMA AcceptQuotes ==
  ASSUME IndInv, QuoteInv, NEW c \in Call, c.id \notin Live, Accept(c)
  PROVE  QuoteInv'
<1>1. /\ UNCHANGED <<levels, best>>
      /\ pc' = IF BestTrades(c.side, c.price) THEN "match" ELSE "finish"
      /\ call' = c
      /\ c.price < MaxPriceLevels
      /\ c.side \in Sides
      /\ c.price \in Nat
  BY BookAssumption DEF Accept, Call
<1>2. order_map'[c.id].side = c.side /\ order_map'[c.id].price = c.price
  BY DEF Accept, Insert
<1>3. HaveBid' = HaveBid /\ HaveAsk' = HaveAsk
  BY <1>1 DEF HaveBid, HaveAsk, EmptyAt
<1>4. QuotesNeverCross'
  BY <1>1, <1>3 DEF QuoteInv, QuotesNeverCross
<1>5. ASSUME pc' = "match", Have(c.side)' PROVE best'["Buy"] < best'["Sell"]
  <2>1. BestTrades(c.side, c.price)
    BY <1>1, <1>5
  <2>2. best["Sell"] \in CallPrices
    BY DEF IndInv, TypeOK, Sides
  <2>3. HaveBid /\ HaveAsk
    <3>1. CASE c.side = "Buy"
      <4>1. HaveBid
        BY <1>3, <1>5, <3>1 DEF Have
      <4>2. c.price >= best["Sell"] /\ ~ EmptyAt(levels, "Sell", best["Sell"])
        BY <2>1, <3>1 DEF BestTrades, Reaches, Opposite
      <4>3. best["Sell"] < MaxPriceLevels
        BY <1>1, <2>2, <4>2, BookAssumption DEF CallPrices
      <4> QED BY <4>1, <4>2, <4>3 DEF HaveAsk
    <3>2. CASE c.side = "Sell"
      <4>1. HaveAsk
        BY <1>3, <1>5, <3>2 DEF Have
      <4>2. HaveBid
        BY <2>1, <3>2 DEF BestTrades, Opposite, HaveBid
      <4> QED BY <4>1, <4>2
    <3> QED BY <1>1, <3>1, <3>2 DEF Sides
  <2> QED BY <1>1, <2>3 DEF QuoteInv, QuotesNeverCross
<1>6. pc' = "finish" => ~ BestTrades(c.side, c.price)'
  BY <1>1 DEF BestTrades, EmptyAt
<1>7. best'["Buy"] \in Prices
  BY <1>1 DEF QuoteInv
<1> QED BY <1>1, <1>2, <1>4, <1>5, <1>6, <1>7 DEF QuoteInv, Have

LEMMA WithdrawQuotes ==
  ASSUME IndInv, QuoteInv, pc = "idle", pc' \in {"idle", "readd"},
         NEW i \in Live, Withdraw(i)
  PROVE  QuoteInv'
<1> USE BookAssumption
<1> DEFINE s == order_map[i].side
           p == order_map[i].price
<1>1. /\ s \in Sides
      /\ p \in Prices
      /\ ~ EmptyAt(levels, s, p)
      /\ \A t \in Sides, r \in Prices : t # s \/ r # p => levels'[t][r] = levels[t][r]
  BY WithdrawEmpties
<1>2. PICK b \in CallPrices :
        /\ best' = [best EXCEPT ![s] = b]
        /\ p = best[s] => Walk(levels', s, best[s], LastPrice(s), b)
        /\ p # best[s] => b = best[s]
  BY WithdrawWalks
<1>3. best \in [Sides -> CallPrices]
  BY DEF IndInv, TypeOK
<1> HIDE DEF s, p
<1>4. ~ Better(s, b, best[s])
  <2>1. CASE p = best[s]
    <3>1. best[s] \in CallPrices /\ LastPrice(s) \in CallPrices
      BY <1>1, <1>3, StopsArePrices
    <3> QED BY <1>1, <1>2, <2>1, <3>1, WalkKeepsBound
  <2>2. CASE p # best[s]
    BY <1>1, <1>2, <1>3, <2>2 DEF Better, CallPrices
  <2> QED BY <2>1, <2>2
<1>5. ASSUME HaveBid', HaveAsk' PROVE best'["Buy"] < best'["Sell"]
  <2>1. CASE s = "Buy"
    <3>1. best'["Sell"] = best["Sell"] /\ best'["Buy"] = b /\ b <= best["Buy"]
      BY <1>2, <1>3, <1>4, <2>1 DEF Better, CallPrices, Sides
    <3>2. HaveAsk
      BY <1>1, <1>3, <1>5, <2>1, <3>1 DEF HaveAsk, EmptyAt, Sides, Prices, CallPrices
    <3>3. best'["Buy"] \in Prices
      BY <1>2, <3>1 DEF QuoteInv, Prices, CallPrices
    <3>4. HaveBid
      <4>1. CASE p = best[s]
        BY <1>1, <2>1, <4>1 DEF HaveBid
      <4>2. CASE p # best[s]
        <5>1. b = best["Buy"]
          BY <1>2, <2>1, <4>2
        <5>2. levels'["Buy"][b] = levels["Buy"][b]
          BY <1>1, <2>1, <3>1, <3>3, <4>2, <5>1 DEF Sides
        <5> QED BY <1>5, <3>1, <5>1, <5>2 DEF HaveBid, EmptyAt
      <4> QED BY <4>1, <4>2
    <3> QED BY <1>2, <1>3, <3>1, <3>2, <3>4
            DEF QuoteInv, QuotesNeverCross, CallPrices, Sides
  <2>2. CASE s = "Sell"
    <3>1. best'["Buy"] = best["Buy"] /\ best'["Sell"] = b /\ b >= best["Sell"]
      BY <1>2, <1>3, <1>4, <2>2 DEF Better, CallPrices, Sides
    <3>2. HaveBid
      <4>1. levels'["Buy"][best["Buy"]] = levels["Buy"][best["Buy"]]
        BY <1>1, <2>2 DEF QuoteInv, Sides
      <4> QED BY <1>5, <3>1, <4>1 DEF HaveBid, EmptyAt
    <3>3. HaveAsk
      <4>1. CASE p = best[s]
        BY <1>1, <2>2, <4>1 DEF HaveAsk, Prices
      <4>2. CASE p # best[s]
        <5>1. b = best["Sell"] /\ b < MaxPriceLevels
          BY <1>2, <1>5, <2>2, <3>1, <4>2 DEF HaveAsk
        <5>2. levels'["Sell"][b] = levels["Sell"][b]
          BY <1>1, <1>2, <2>2, <4>2, <5>1 DEF Prices, CallPrices, Sides
        <5> QED BY <1>5, <3>1, <5>1, <5>2 DEF HaveAsk, EmptyAt
      <4> QED BY <4>1, <4>2
    <3> QED BY <1>2, <1>3, <3>1, <3>2, <3>3
            DEF QuoteInv, QuotesNeverCross, CallPrices, Prices, Sides
  <2> QED BY <1>1, <2>1, <2>2 DEF Sides
<1>6. best'["Buy"] \in Prices
  BY <1>1, <1>2, <1>3, <1>4 DEF QuoteInv, Better, Prices, CallPrices, Sides
<1> QED BY <1>5, <1>6 DEF QuoteInv, QuotesNeverCross

LEMMA RestQuotes ==
  ASSUME IndInv, QuoteInv, RestRemainder
  PROVE  QuoteInv'
<1> USE BookAssumption
<1> DEFINE s == order_map[call.id].side
           p == order_map[call.id].price
<1>1. /\ s \in Sides
      /\ p \in Prices
      /\ \A t \in Sides, r \in Prices : t # s \/ r # p => levels'[t][r] = levels[t][r]
      /\ best' = [best EXCEPT ![s] = IF Better(s, p, best[s]) THEN p ELSE best[s]]
  BY RestParts
<1>2. best \in [Sides -> CallPrices] /\ best["Buy"] \in Prices
  BY DEF IndInv, TypeOK, QuoteInv
<1>3. ~ BestTrades(s, p) /\ pc' = "idle"
  BY DEF RestRemainder, QuoteInv
<1> HIDE DEF s, p
<1>4. ASSUME HaveBid', HaveAsk' PROVE best'["Buy"] < best'["Sell"]
  <2>1. CASE s = "Buy"
    <3>1. /\ best'["Sell"] = best["Sell"]
          /\ best'["Buy"] = IF p > best["Buy"] THEN p ELSE best["Buy"]
      BY <1>1, <1>2, <2>1 DEF Better, Sides
    <3>2. best["Sell"] \in Prices
      BY <1>2, <1>4, <3>1 DEF HaveAsk, Prices, CallPrices, Sides
    <3>3. ~ EmptyAt(levels, "Sell", best["Sell"])
      BY <1>1, <1>4, <2>1, <3>1, <3>2 DEF HaveAsk, EmptyAt, Sides
    <3>4. p < best["Sell"]
      BY <1>1, <1>3, <2>1, <3>2, <3>3 DEF BestTrades, Reaches, Opposite, Prices
    <3>5. CASE best["Buy"] <= p
      BY <1>1, <1>2, <3>1, <3>2, <3>4, <3>5 DEF Prices
    <3>6. CASE best["Buy"] > p
      <4>1. levels'["Buy"][best["Buy"]] = levels["Buy"][best["Buy"]]
        BY <1>1, <1>2, <3>6 DEF Prices, Sides
      <4>2. best'["Buy"] = best["Buy"]
        BY <1>1, <1>2, <3>1, <3>6 DEF Prices
      <4>3. HaveBid
        BY <1>4, <4>1, <4>2 DEF HaveBid, EmptyAt
      <4>4. HaveAsk
        BY <3>2, <3>3 DEF HaveAsk, Prices
      <4> QED BY <3>1, <4>2, <4>3, <4>4 DEF QuoteInv, QuotesNeverCross
    <3> QED BY <1>1, <1>2, <3>5, <3>6 DEF Prices
  <2>2. CASE s = "Sell"
    <3>1. /\ best'["Buy"] = best["Buy"]
          /\ best'["Sell"] = IF p < best["Sell"] THEN p ELSE best["Sell"]
      BY <1>1, <1>2, <2>2 DEF Better, Sides
    <3>2. HaveBid
      <4>1. levels'["Buy"][best["Buy"]] = levels["Buy"][best["Buy"]]
        BY <1>1, <1>2, <2>2 DEF Sides
      <4> QED BY <1>4, <3>1, <4>1 DEF HaveBid, EmptyAt
    <3>3. p > best["Buy"]
      BY <1>1, <1>2, <1>3, <2>2, <3>2
         DEF BestTrades, Reaches, Opposite, HaveBid, Prices
    <3>4. best["Sell"] \in 0 .. MaxPriceLevels
      BY <1>2 DEF CallPrices, Sides
    <3>5. CASE best["Sell"] >= p
      BY <1>1, <1>2, <3>1, <3>3, <3>4, <3>5 DEF Prices
    <3>6. CASE best["Sell"] < p
      <4>1. best["Sell"] \in Prices
        BY <1>1, <3>4, <3>6 DEF Prices
      <4>2. levels'["Sell"][best["Sell"]] = levels["Sell"][best["Sell"]]
        BY <1>1, <3>6, <4>1 DEF Prices, Sides
      <4>3. best'["Sell"] = best["Sell"]
        BY <1>1, <3>1, <3>4, <3>6 DEF Prices
      <4>4. HaveAsk
        BY <1>4, <4>2, <4>3 DEF HaveAsk, EmptyAt
      <4> QED BY <3>1, <3>2, <4>3, <4>4 DEF QuoteInv, QuotesNeverCross
    <3> QED BY <1>1, <3>4, <3>5, <3>6 DEF Prices
  <2> QED BY <1>1, <2>1, <2>2 DEF Sides
<1>5. best'["Buy"] \in Prices
  BY <1>1, <1>2 DEF Sides
<1> QED BY <1>3, <1>4, <1>5 DEF QuoteInv, QuotesNeverCross

\* While an order of side s matches, only the other side's levels and best
\* price move, and the best price moves away: a quote of side s stays, below or
\* above it.
LEMMA WalkKeepsQuotes ==
  ASSUME IndInv, QuoteInv, pc = "match",
         NEW s \in Sides, s = order_map[call.id].side,
         NEW b \in CallPrices,
         best' = [best EXCEPT ![Opposite(s)] = b],
         Walk(levels, Opposite(s), best[Opposite(s)], PastLast(Opposite(s)), b),
         \A r \in Prices : levels'[s][r] = levels[s][r]
  PROVE  /\ Have(s)' => best'["Buy"] < best'["Sell"]
         /\ QuotesNeverCross'
         /\ best'["Buy"] \in Prices
<1> USE BookAssumption
<1>1. best \in [Sides -> CallPrices] /\ best["Buy"] \in Prices
  BY DEF IndInv, TypeOK, QuoteInv
<1>2. ~ Better(Opposite(s), b, best[Opposite(s)])
  <2>1. Opposite(s) \in Sides
    BY DEF Opposite, Sides
  <2>2. best[Opposite(s)] \in CallPrices /\ PastLast(Opposite(s)) \in CallPrices
    BY <1>1, <2>1, StopsArePrices
  <2> QED BY <2>1, <2>2, WalkKeepsBound
<1>3. CASE s = "Buy"
  <2>1. best'["Buy"] = best["Buy"] /\ best'["Sell"] = b /\ b >= best["Sell"]
    BY <1>1, <1>2, <1>3 DEF Opposite, Better, CallPrices, Sides
  <2>2. HaveBid' = HaveBid
    BY <1>1, <1>3, <2>1 DEF HaveBid, EmptyAt
  <2>3. HaveBid' => best'["Buy"] < best'["Sell"]
    <3>1. HaveBid => best["Buy"] < best["Sell"]
      BY <1>3 DEF QuoteInv, Have
    <3> QED BY <1>1, <2>1, <2>2, <3>1 DEF Prices, CallPrices, Sides
  <2> QED BY <1>1, <1>3, <2>1, <2>3 DEF Have, QuotesNeverCross
<1>4. CASE s = "Sell"
  <2>1. best'["Sell"] = best["Sell"] /\ best'["Buy"] = b /\ b <= best["Buy"]
    BY <1>1, <1>2, <1>4 DEF Opposite, Better, CallPrices, Sides
  <2>2. HaveAsk' => HaveAsk
    BY <1>1, <1>4, <2>1 DEF HaveAsk, EmptyAt, Prices, CallPrices, Sides
  <2>3. HaveAsk' => best'["Buy"] < best'["Sell"]
    <3>1. HaveAsk => best["Buy"] < best["Sell"]
      BY <1>4 DEF QuoteInv, Have
    <3> QED BY <1>1, <2>1, <2>2, <3>1 DEF Prices, CallPrices, Sides
  <2>4. best'["Buy"] \in Prices
    BY <1>1, <2>1 DEF Prices, CallPrices
  <2> QED BY <1>4, <2>3, <2>4 DEF Have, QuotesNeverCross
<1> QED BY <1>3, <1>4 DEF Sides

LEMMA MatchFillQuotes ==
  ASSUME IndInv, QuoteInv, MatchFill
  PROVE  QuoteInv'
<1>1. PICK s \in Sides : s = order_map[call.id].side
  BY DEF MatchFill, Filled, IndInv, TypeOK, CallOK, Order
<1>2. PICK b \in Prices, i \in Live \ {call.id} :
        /\ FillAt(i, b)
        /\ best' = [best EXCEPT ![Opposite(s)] = b]
        /\ Walk(levels, Opposite(s), best[Opposite(s)], PastLast(Opposite(s)), b)
        /\ \A r \in Prices : levels'[s][r] = levels[s][r]
  BY <1>1, MatchFillWalks
<1>3. /\ call.id \in Live
      /\ pc = "match" /\ pc' = "match" /\ call' = call
  BY DEF MatchFill, Filled, IndInv, CallOK
<1>4. b \in CallPrices
  BY BookAssumption DEF Prices, CallPrices
<1>5. order_map'[call.id].side = s
  BY <1>1, <1>2, <1>3, FillOrders
<1>6. /\ Have(s)' => best'["Buy"] < best'["Sell"]
      /\ QuotesNeverCross'
      /\ best'["Buy"] \in Prices
  BY <1>1, <1>2, <1>3, <1>4, WalkKeepsQuotes
<1> QED BY <1>3, <1>5, <1>6 DEF QuoteInv, Have

LEMMA MatchExhaustedQuotes ==
  ASSUME IndInv, QuoteInv, MatchExhausted
  PROVE  QuoteInv'
<1>1. PICK s \in Sides, p \in Prices :
        s = order_map[call.id].side /\ p = order_map[call.id].price
  BY DEF MatchExhausted, IndInv, TypeOK, CallOK, Order
<1>2. PICK b \in CallPrices :
        /\ Walk(levels, Opposite(s), best[Opposite(s)], PastLast(Opposite(s)), b)
        /\ ~ LevelTrades(s, p, b)
        /\ best' = [best EXCEPT ![Opposite(s)] = b]
  BY <1>1 DEF MatchExhausted
<1>3. /\ pc = "match" /\ pc' = "finish"
      /\ UNCHANGED <<order_map, levels, call>>
  BY DEF MatchExhausted
<1>4. QuotesNeverCross' /\ best'["Buy"] \in Prices
  BY <1>1, <1>2, <1>3, WalkKeepsQuotes
<1>5. best'[Opposite(s)] = b
  BY <1>2 DEF IndInv, TypeOK, Opposite, Sides
<1>6. ~ BestTrades(s, p)'
  <2>1. BestTrades(s, p)' => Reaches(s, p, b) /\ ~ EmptyAt(levels, Opposite(s), b)
    BY <1>3, <1>5 DEF BestTrades, EmptyAt
  <2>2. Reaches(s, p, b) => b < MaxPriceLevels
    <3>1. CASE s = "Buy"
      BY <3>1, BookAssumption DEF Reaches, Prices, CallPrices
    <3>2. CASE s = "Sell"
      <4>1. b \in Prices
        BY <1>4, <1>5, <3>2 DEF Opposite
      <4> QED BY <4>1, BookAssumption DEF Prices
    <3> QED BY <3>1, <3>2 DEF Sides
  <2> QED BY <1>2, <2>1, <2>2 DEF LevelTrades
<1> QED BY <1>1, <1>3, <1>4, <1>6 DEF QuoteInv

LEMMA StepQuotes == IndInv /\ QuoteInv /\ [Next]_vars => QuoteInv'
<1> SUFFICES ASSUME IndInv, QuoteInv, [Next]_vars PROVE QuoteInv'
  OBVIOUS
<1>1. CASE AddOrder
  BY <1>1, AcceptQuotes DEF AddOrder, Keys
<1>2. CASE ReAdd
  BY <1>2, AcceptQuotes DEF ReAdd, Keys, IndInv, CallOK
<1>3. CASE CancelOrder
  BY <1>3, WithdrawQuotes DEF CancelOrder, Findable
<1>4. CASE ModifyReAdd
  BY <1>4, WithdrawQuotes DEF ModifyReAdd, Findable
<1>5. CASE ModifyInPlace
  <2>1. best' = best /\ pc' = "idle"
    BY <1>5 DEF ModifyInPlace
  <2>2. \A t \in Sides, r \in Prices : levels'[t][r].queue = levels[t][r].queue
    BY <1>5 DEF ModifyInPlace, IndInv, TypeOK, Level
  <2>3. HaveBid' = HaveBid /\ HaveAsk' = HaveAsk
    <3>1. best["Buy"] \in Prices /\ best["Sell"] \in CallPrices
      BY DEF QuoteInv, IndInv, TypeOK, Sides
    <3>2. HaveBid' = HaveBid
      BY <2>1, <2>2, <3>1 DEF HaveBid, EmptyAt, Sides
    <3>3. HaveAsk' = HaveAsk
      <4>1. CASE best["Sell"] \in Prices
        BY <2>1, <2>2, <4>1 DEF HaveAsk, EmptyAt, Sides
      <4>2. CASE best["Sell"] \notin Prices
        BY <2>1, <3>1, <4>2, BookAssumption DEF HaveAsk, Prices, CallPrices
      <4> QED BY <4>1, <4>2
    <3> QED BY <3>2, <3>3
  <2> QED BY <2>1, <2>3 DEF QuoteInv, QuotesNeverCross
<1>6. CASE MatchFill
  BY <1>6, MatchFillQuotes
<1>7. CASE MatchExhausted
  BY <1>7, MatchExhaustedQuotes
<1>8. CASE RestRemainder
  BY <1>8, RestQuotes
<1>9. CASE MatchFilled \/ ReclaimFilled \/ ReAddRejected
  <2>1. UNCHANGED <<best, levels>>
    BY <1>9 DEF MatchFilled, ReclaimFilled, ReAddRejected
  <2>2. \/ pc' = "idle"
        \/ pc' = "finish" /\ order_map'[call'.id].remaining = 0
    BY <1>9 DEF MatchFilled, ReclaimFilled, ReAddRejected
  <2>3. HaveBid' = HaveBid /\ HaveAsk' = HaveAsk
    BY <2>1 DEF HaveBid, HaveAsk, EmptyAt
  <2> QED BY <2>1, <2>2, <2>3 DEF QuoteInv, QuotesNeverCross
<1>10. CASE UNCHANGED vars
  BY <1>10 DEF vars, QuoteInv, QuotesNeverCross, HaveBid, HaveAsk, Have, EmptyAt, BestTrades
<1> QED BY <1>1, <1>2, <1>3, <1>4, <1>5, <1>6, <1>7, <1>8, <1>9, <1>10 DEF Next, Proceed

\* Whenever both quotes are reported, bid is below ask: the spread that
\* get_stats computes in unsigned arithmetic never wraps around.
THEOREM QuotesStayUncrossed == Spec => []QuotesNeverCross
<1>1. IndInv /\ QuoteInv /\ [Next]_vars => (IndInv /\ QuoteInv)'
  BY StepInv, StepQuotes
<1>2. QuoteInv => QuotesNeverCross
  BY DEF QuoteInv
<1> QED BY InitInv, InitQuotes, <1>1, <1>2, PTL DEF Spec

=============================================================================
