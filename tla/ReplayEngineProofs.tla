------------------------- MODULE ReplayEngineProofs -------------------------
(* Theorems about ReplayEngine, for every value of its constants.          *)
EXTENDS ReplayEngine, OrderBookProofs, TLAPS

-----------------------------------------------------------------------------
(* What the handlers rely on.  A reference is announced once and the order  *)
(* map has only keys that were announced, those of orders that are gone     *)
(* included, so that a new order's key is never in it.                      *)

FeedInv ==
  /\ Keys \subseteq announced
  /\ Tracked \subseteq announced
  /\ pc # "idle" => call.id \in announced
  /\ handler # NoHandler => handler.order.id \in announced
  /\ handler # NoHandler /\ handler.kind = "cancelled" =>
       pc = "idle" /\ handler.order.id \notin Keys

ReplayInv == IndInv /\ ReplayTypeOK /\ FeedInv

\* to_tick gives a price the book has a level for.
LEMMA TickIsAPrice ==
  ASSUME NEW p \in ItchPrices
  PROVE  ToTick(p) \in Prices
<1>1. p \in Nat /\ TickDivisor \in Nat \ {0} /\ MaxPriceLevels \in Nat \ {0}
  BY ReplayAssumption, BookAssumption
<1>2. p \div TickDivisor \in Nat
  BY <1>1
<1> QED BY <1>1, <1>2 DEF ToTick, MinOf, Prices

\* What a tracked order keeps is nothing or a quantity, and no more than it had.
LEMMA KeepsQuantity ==
  ASSUME ReplayTypeOK, NEW i \in Tracked, NEW asked \in Quantities
  PROVE  LET left == Wrap(order_tracker[i].remaining - Taken(i, asked)) IN
         /\ left # 0 => left \in Quantities
         /\ left <= order_tracker[i].remaining
         /\ left = order_tracker[i].remaining - Taken(i, asked)
         /\ left \in Nat /\ Taken(i, asked) \in Nat
<1> DEFINE r == order_tracker[i].remaining
           n == Taken(i, asked)
<1>1. r \in Quantities
  BY DEF ReplayTypeOK
<1>2. /\ r \in 0 .. QtyModulus - 1 /\ asked \in 0 .. QtyModulus - 1
      /\ QtyModulus \in Nat \ {0}
      /\ 1 .. r \subseteq Quantities
  BY <1>1, ReplayAssumption, BookAssumption
<1>3. n \in 0 .. r
  BY <1>2 DEF Taken, MinOf
<1> HIDE DEF n
<1>4. r - n \in 0 .. QtyModulus - 1 /\ r - n \in 0 .. r
  BY <1>2, <1>3
<1>5. Wrap(r - n) = r - n
  BY <1>2, <1>4 DEF Wrap
<1> QED BY <1>2, <1>3, <1>4, <1>5 DEF n

-----------------------------------------------------------------------------
(* The calls of the handlers are calls the book allows.                    *)

\* A call that misses its order leaves the book alone and is remembered.
LEMMA MissIsStutter ==
  ASSUME NEW i, BookMisses(i)
  PROVE  /\ UNCHANGED vars /\ Live' = Live /\ Keys' = Keys
         /\ missed \subseteq missed' /\ missed' \subseteq missed \cup Live
         /\ i \in Live => i \in missed'
BY DEF BookMisses, vars, Live, Keys

LEMMA CancelIsBookStep ==
  ASSUME IndInv, pc = "idle", NEW i, BookCancel(i)
  PROVE  /\ [Next]_vars
         /\ pc' = "idle"
         /\ UNCHANGED call
         /\ Keys' \subseteq Keys
         /\ missed \subseteq missed' /\ missed' \subseteq missed \cup Live
         /\ Live \ {i} \subseteq Live' /\ Live' \subseteq Live
         /\ \A j \in Live' : order_map'[j] = order_map[j]
         /\ i \in Live' => i \in missed'
<1>1. CASE i \in Findable /\ Withdraw(i) /\ UNCHANGED <<pc, call, missed>>
  <2>1. CancelOrder
    BY <1>1 DEF CancelOrder
  <2>2. i \in Live
    BY <1>1 DEF Findable
  <2>3. Keys' \subseteq Keys /\ Live' = Live \ {i}
    BY <1>1, <2>2, WithdrawInv DEF IndInv, TypeOK
  <2>4. \A j \in Live' : order_map'[j] = order_map[j]
    BY <1>1 DEF Withdraw, Erase, Live
  <2> QED BY <1>1, <2>1, <2>3, <2>4 DEF Next
<1>2. CASE BookMisses(i)
  BY <1>2, MissIsStutter DEF vars
<1> QED BY <1>1, <1>2 DEF BookCancel

\* A modify of a found order that takes it out of the book, to add it again.
LEMMA ReAddStarts ==
  ASSUME IndInv, NEW i, NEW p, NEW q, ModifyReAdd,
         call' = [id |-> i, price |-> p, qty |-> q, side |-> order_map[i].side]
  PROVE  /\ i \in Live /\ Live' = Live \ {i} /\ Keys' \subseteq Keys
         /\ pc' = "readd"
         /\ \A j \in Live' : order_map'[j] = order_map[j]
         /\ ~ (p = order_map[i].price /\ q < order_map[i].remaining)
<1>1. PICK j \in Live, r \in CallPrices, n \in Quantities :
        /\ ~ (r = order_map[j].price /\ n < order_map[j].remaining)
        /\ Withdraw(j)
        /\ call' = [id |-> j, price |-> r, qty |-> n, side |-> order_map[j].side]
  BY DEF ModifyReAdd, Findable
<1>2. j = i /\ r = p /\ n = q
  BY <1>1
<1>3. pc = "idle" /\ pc' = "readd"
  BY DEF ModifyReAdd
<1>4. call' \in Call
  <2>1. j \in Ids /\ order_map[j].side \in Sides
    BY DEF IndInv, TypeOK, Order
  <2> QED BY <1>1, <2>1 DEF Call, CallPrices
<1>5. Live' = Live \ {i} /\ Keys' \subseteq Keys
  BY <1>1, <1>2, <1>3, <1>4, WithdrawInv
<1>6. \A k \in Live' : order_map'[k] = order_map[k]
  BY <1>1 DEF Withdraw, Erase, Live
<1> QED BY <1>1, <1>2, <1>3, <1>5, <1>6

LEMMA ModifyIsBookStep ==
  ASSUME pc = "idle", IndInv, NEW i, NEW p, NEW q, BookModify(i, p, q)
  PROVE  /\ [Next]_vars
         /\ Keys' \subseteq Keys
         /\ missed \subseteq missed' /\ missed' \subseteq missed \cup Live
         /\ Live' \subseteq Live
         /\ pc' \in {"idle", "readd"}
         /\ \A j \in Live' :
              \/ j = i /\ j \in missed'
              \/ order_map'[j] = IF j = i THEN [order_map[j] EXCEPT !.remaining = q]
                                         ELSE order_map[j]
         /\ pc' = "readd" => /\ i \in Live
                             /\ i \notin Live'
                             /\ call' = [id |-> i, price |-> p, qty |-> q,
                                         side |-> order_map[i].side]
<1>1. CASE /\ i \in Findable
           /\ ModifyInPlace
           /\ order_map' = [order_map EXCEPT ![i].remaining = q]
           /\ UNCHANGED missed
  <2>1. pc' = "idle" /\ Live' = Live /\ Keys' = Keys
    BY <1>1 DEF ModifyInPlace, mapVars, Live, Keys
  <2>2. i \in Live
    BY <1>1 DEF Findable
  <2> QED BY <1>1, <2>1, <2>2 DEF Next, Live, IndInv, TypeOK
<1>2. CASE /\ ModifyReAdd
           /\ call' = [id |-> i, price |-> p, qty |-> q, side |-> order_map[i].side]
           /\ UNCHANGED missed
  <2>1. /\ i \in Live /\ Live' = Live \ {i} /\ Keys' \subseteq Keys
        /\ pc' = "readd"
        /\ \A j \in Live' : order_map'[j] = order_map[j]
    BY <1>2, ReAddStarts
  <2>2. [Next]_vars
    BY <1>2 DEF Next
  <2> QED BY <1>2, <2>1, <2>2
<1>3. CASE BookMisses(i)
  <2>1. /\ UNCHANGED vars /\ Live' = Live /\ Keys' = Keys
        /\ missed \subseteq missed' /\ missed' \subseteq missed \cup Live
        /\ i \in Live => i \in missed'
    BY <1>3, MissIsStutter
  <2>2. \A j \in Live' : \/ j = i /\ j \in missed'
                         \/ j # i /\ order_map'[j] = order_map[j]
    BY <2>1 DEF vars
  <2>3. pc' = "idle" /\ [Next]_vars
    BY <2>1 DEF vars
  <2> QED BY <2>1, <2>2, <2>3
<1> QED BY <1>1, <1>2, <1>3 DEF BookModify

\* add_order puts the order in the map, and nothing else changes there yet.
LEMMA AcceptAdds ==
  ASSUME NEW c \in Call, c.id \notin Keys, Accept(c)
  PROVE  /\ c.id \notin Live
         /\ Keys' = Keys \cup {c.id}
         /\ DOMAIN order_map' = DOMAIN order_map \cup {c.id}
         /\ order_map'[c.id] = [price |-> c.price, remaining |-> c.qty, side |-> c.side]
         /\ \A j \in DOMAIN order_map : order_map'[j] = order_map[j]
         /\ pc' \in {"match", "finish"}
         /\ call' = c
BY DEF Accept, Insert, TableInsert, Live, Keys

\* An erase leaves at most the key that it was called for.
LEMMA ErasedKeys ==
  ASSUME NEW i, TableEraseUnchecked(i)
  PROVE  leftover' \subseteq leftover \cup {i}
BY DEF TableEraseUnchecked, TableErase, TableMiss

\* The steps of a call: no order appears but the one modify_order re-adds, none
\* changes its terms, and none gains quantity.
LEMMA ProceedKeeps ==
  ASSUME IndInv, Proceed
  PROVE  /\ [Next]_vars
         /\ pc # "idle"
         /\ pc' # "idle" => call' = call
         /\ pc' # "readd"
         /\ Keys' \subseteq Keys \cup {call.id}
         /\ \A j \in DOMAIN order_map' :
              \/ /\ j \in Live
                 /\ order_map'[j].side = order_map[j].side
                 /\ order_map'[j].price = order_map[j].price
                 /\ order_map'[j].remaining <= order_map[j].remaining
              \/ /\ pc = "readd"
                 /\ j = call.id
                 /\ order_map'[j] = [price |-> call.price, remaining |-> call.qty,
                                     side |-> call.side]
<1> DEFINE Kept ==
      \A j \in DOMAIN order_map' :
        /\ j \in Live
        /\ order_map'[j].side = order_map[j].side
        /\ order_map'[j].price = order_map[j].price
        /\ order_map'[j].remaining <= order_map[j].remaining
<1>1. [Next]_vars
  BY DEF Next
<1>2. \A j \in Live : order_map[j].remaining <= order_map[j].remaining
  BY BookAssumption DEF IndInv, TypeOK, Order
<1>3. CASE MatchFill
  <2>1. PICK b \in Prices, i \in Live \ {call.id} : FillAt(i, b)
    BY <1>3, MatchFillParts
  <2>2. Kept
    <3> DEFINE filled == order_map[i].remaining
                           = MinOf(order_map[call.id].remaining, order_map[i].remaining)
    <3>1. Live' \subseteq Live
      BY <1>3, <2>1, FillOrders
    <3>2. \A j \in Live' : /\ order_map'[j].side = order_map[j].side
                           /\ order_map'[j].price = order_map[j].price
                           /\ order_map'[j].remaining <= order_map[j].remaining
      BY <1>3, <2>1, FillOrders
    <3> QED BY <3>1, <3>2 DEF Live
  <2>3. pc = "match" /\ pc' = pc /\ call' = call
    BY <1>3 DEF MatchFill
  <2>4. Keys' \subseteq Keys
    <3>1. TableEraseUnchecked(i) \/ UNCHANGED mapVars
      BY <2>1 DEF FillAt
    <3>2. leftover' \subseteq leftover \cup {i}
      BY <3>1, ErasedKeys DEF mapVars
    <3> QED BY <2>2, <3>2 DEF Keys, Live
  <2> QED BY <1>1, <2>2, <2>3, <2>4
<1>4. CASE MatchFilled \/ MatchExhausted \/ RestRemainder
  <2>1. /\ UNCHANGED order_map
        /\ pc \in {"match", "finish"}
        /\ pc' \in {"finish", "idle"}
        /\ pc' # "idle" => call' = call
    BY <1>4 DEF MatchFilled, MatchExhausted, RestRemainder
  <2>2. Keys' = Keys
    BY <1>4, <2>1 DEF MatchFilled, MatchExhausted, RestRemainder, mapVars, Keys, Live
  <2> QED BY <1>1, <1>2, <2>1, <2>2 DEF Live
<1>5. CASE ReclaimFilled
  <2>1. pc = "finish" /\ pc' = "idle" /\ order_map' = Erase(order_map, call.id)
    BY <1>5 DEF ReclaimFilled
  <2>2. PICK i : i = call.id
    OBVIOUS
  <2>3. leftover' \subseteq leftover \cup {i}
    BY <1>5, <2>2, ErasedKeys DEF ReclaimFilled
  <2>4. Keys' \subseteq Keys \cup {call.id}
    BY <2>1, <2>2, <2>3 DEF Keys, Live, Erase
  <2> QED BY <1>1, <1>2, <2>1, <2>4 DEF Live, Erase
<1>6. CASE ReAdd
  <2>1. pc = "readd" /\ call \in Call /\ call.id \notin Keys /\ Accept(call)
    BY <1>6 DEF ReAdd, IndInv, CallOK
  <2>2. /\ DOMAIN order_map' = DOMAIN order_map \cup {call.id}
        /\ order_map'[call.id] = [price |-> call.price, remaining |-> call.qty,
                                  side |-> call.side]
        /\ \A j \in DOMAIN order_map : order_map'[j] = order_map[j]
        /\ pc' \in {"match", "finish"}
        /\ call' = call
        /\ Keys' = Keys \cup {call.id}
    BY <2>1, AcceptAdds
  <2> QED BY <1>1, <1>2, <2>1, <2>2 DEF Live
<1>7. CASE ReAddRejected
  <2>1. pc = "readd" /\ pc' = "idle" /\ UNCHANGED order_map
    BY <1>7 DEF ReAddRejected
  <2>2. Keys' = Keys
    BY <1>7, <2>1 DEF ReAddRejected, mapVars, Keys, Live
  <2> QED BY <1>1, <1>2, <2>1, <2>2 DEF Live
<1> QED BY <1>3, <1>4, <1>5, <1>6, <1>7 DEF Proceed

-----------------------------------------------------------------------------
(* Type correctness of what the handlers keep                              *)

LEMMA CountTypes ==
  ASSUME ReplayTypeOK, NEW names, NEW shares \in Nat
  PROVE  /\ Count(names) \in [Counters -> Nat]
         /\ CountTrade(names, shares) \in [Counters -> Nat]
<1>1. \A c \in Counters : stats[c] \in Nat /\ stats[c] + 1 \in Nat
  BY DEF ReplayTypeOK
<1>2. \A set : Count(set) \in [Counters -> Nat]
  BY <1>1 DEF Count
<1>3. Count(names \cup {"trades"})["shares"] + shares \in Nat
  BY <1>2 DEF Counters
<1> QED BY <1>2, <1>3 DEF CountTrade, Counters

TrackedOrder == [price : Prices, remaining : Quantities, side : Sides]

LEMMA ForgetTypes ==
  ASSUME ReplayTypeOK, NEW ref
  PROVE  /\ DOMAIN Forget(ref) = Tracked \ {ref}
         /\ Forget(ref) \in [Tracked \ {ref} -> TrackedOrder]
BY DEF Forget, ReplayTypeOK, TrackedOrder

LEMMA AnnounceTypes ==
  ASSUME ReplayTypeOK, NEW ref \in Ids, Announce(ref)
  PROVE  /\ announced' = announced \cup {ref}
         /\ announced' \subseteq Ids
BY DEF Announce, ReplayTypeOK

\* The tracker after an execution or a partial cancel.
LEMMA TakeTypes ==
  ASSUME ReplayTypeOK, NEW i \in Tracked, NEW asked \in Quantities, TakeShares(i, asked)
  PROVE  /\ DOMAIN order_tracker' \subseteq Tracked
         /\ order_tracker' \in [DOMAIN order_tracker' -> TrackedOrder]
<1> DEFINE left == Wrap(order_tracker[i].remaining - Taken(i, asked))
<1>1. left # 0 => left \in Quantities
  BY KeepsQuantity
<1>2. order_tracker \in [Tracked -> TrackedOrder]
  BY DEF ReplayTypeOK, TrackedOrder
<1>3. \/ order_tracker' = Forget(i)
      \/ left # 0 /\ order_tracker' = [order_tracker EXCEPT ![i].remaining = left]
  BY DEF TakeShares
<1> HIDE DEF left
<1>4. CASE order_tracker' = Forget(i)
  BY <1>4, ForgetTypes
<1>5. CASE left # 0 /\ order_tracker' = [order_tracker EXCEPT ![i].remaining = left]
  <2>1. order_tracker[i] \in TrackedOrder /\ left \in Quantities
    BY <1>1, <1>2, <1>5
  <2>2. [order_tracker[i] EXCEPT !.remaining = left] \in TrackedOrder
    BY <2>1 DEF TrackedOrder
  <2> QED BY <1>2, <1>5, <2>2
<1> QED BY <1>3, <1>4, <1>5

\* What a call has missed was in the book.
LEMMA MissedTypes ==
  ASSUME ReplayInv, missed' \subseteq missed \cup Live
  PROVE  missed' \subseteq Ids
BY DEF ReplayInv, ReplayTypeOK, IndInv, TypeOK

-----------------------------------------------------------------------------
(* Every step of the engine is a step of the book, or none of it, and keeps *)
(* the invariant.                                                           *)

LEMMA BookInvFollows ==
  ASSUME ReplayInv, [Next]_vars
  PROVE  IndInv'
BY StepInv DEF ReplayInv

LEMMA MatchedType ==
  ASSUME ReplayTypeOK, NoteMatch
  PROVE  matched' \in BOOLEAN
BY DEF ReplayTypeOK, NoteMatch

\* Messages and returns that do not touch the book.
LEMMA QuietInv ==
  ASSUME ReplayInv, StockDirectory \/ AddSkipped \/ AddRejected \/ UnknownOrder \/ ReplaceRejected
  PROVE  [Next]_vars /\ ReplayInv'
<1>1. UNCHANGED vars /\ UNCHANGED <<order_tracker, missed>> /\ NoteMatch
  BY DEF StockDirectory, AddSkipped, AddRejected, UnknownOrder, ReplaceRejected
<1>2. matched' \in BOOLEAN
  BY <1>1, MatchedType DEF ReplayInv
<1>3. IndInv'
  BY <1>1, BookInvFollows
<1>4. CASE StockDirectory
  BY <1>1, <1>2, <1>3, <1>4
  DEF StockDirectory, ReplayInv, ReplayTypeOK, FeedInv, vars, Keys, Live, Tracked
<1>5. CASE AddSkipped \/ AddRejected
  <2>1. PICK ref \in Ids \ announced : Announce(ref)
    BY <1>5 DEF AddSkipped, AddRejected
  <2>2. /\ announced' = announced \cup {ref}
        /\ announced' \subseteq Ids
    BY <2>1, AnnounceTypes DEF ReplayInv
  <2>3. UNCHANGED <<locate, handler, accepted>>
    BY <1>5 DEF AddSkipped, AddRejected, Receive
  <2>4. stats' \in [Counters -> Nat]
    BY <1>5, CountTypes DEF AddSkipped, AddRejected, ReplayInv
  <2> QED
    BY <1>1, <1>2, <1>3, <2>1, <2>2, <2>3, <2>4
    DEF ReplayInv, ReplayTypeOK, FeedInv, vars, Keys, Live, Tracked
<1>6. CASE UnknownOrder
  <2>1. UNCHANGED <<locate, handler, announced, accepted>>
    BY <1>6 DEF UnknownOrder, Receive
  <2>2. stats' \in [Counters -> Nat]
    BY <1>6, CountTypes DEF UnknownOrder, ReplayInv
  <2> QED
    BY <1>1, <1>2, <1>3, <2>1, <2>2
    DEF ReplayInv, ReplayTypeOK, FeedInv, vars, Keys, Live, Tracked
<1>7. CASE ReplaceRejected
  <2>1. UNCHANGED <<locate, announced, accepted>> /\ handler' = NoHandler
    BY <1>7 DEF ReplaceRejected
  <2>2. stats' \in [Counters -> Nat]
    BY <1>7, CountTypes DEF ReplaceRejected, ReplayInv
  <2> QED
    BY <1>1, <1>2, <1>3, <2>1, <2>2
    DEF ReplayInv, ReplayTypeOK, FeedInv, vars, Keys, Live, Tracked
<1> QED BY <1>1, <1>4, <1>5, <1>6, <1>7

\* add_order of a new order: its reference is fresh, so its key is not in the map.
LEMMA AddStartInv ==
  ASSUME ReplayInv, AddStart
  PROVE  [Next]_vars /\ ReplayInv'
<1>1. PICK ref \in Ids \ announced, price \in ItchPrices, qty \in Quantities, side \in Sides :
        LET o == [id |-> ref, price |-> ToTick(price), qty |-> qty, side |-> side]
        IN /\ BookAdd(o)
           /\ handler' = [kind |-> "add", order |-> o]
           /\ Announce(ref)
  BY DEF AddStart
<1> DEFINE o == [id |-> ref, price |-> ToTick(price), qty |-> qty, side |-> side]
<1>2. /\ o \in Call /\ o.price \in Prices /\ o.qty \in Nat
      /\ o.id \notin Keys /\ Accept(o)
  <2>1. ToTick(price) \in Prices /\ ToTick(price) \in 0 .. MaxPriceLevels
    BY TickIsAPrice, BookAssumption DEF Prices
  <2>2. qty \in Nat
    BY BookAssumption
  <2> QED BY <1>1, <2>1, <2>2 DEF Call, BookAdd, ReplayInv, FeedInv
<1>3. /\ pc = "idle" /\ handler = NoHandler /\ NoteMatch
      /\ UNCHANGED <<locate, order_tracker, missed>>
  BY DEF AddStart, Receive
<1> HIDE DEF o
<1>4. [Next]_vars
  BY <1>2, <1>3 DEF Next, AddOrder
<1>5. IndInv'
  BY <1>4, BookInvFollows
<1>6. /\ Keys' = Keys \cup {o.id}
      /\ pc' \in {"match", "finish"}
      /\ call' = o
  BY <1>2, AcceptAdds
<1>7. /\ announced' = announced \cup {ref}
      /\ announced' \subseteq Ids
  BY <1>1, AnnounceTypes DEF ReplayInv
<1>8. handler' = [kind |-> "add", order |-> o] /\ accepted' = accepted + o.qty /\ o.id = ref
  BY <1>1 DEF o, BookAdd
<1>9. handler' \in Handler /\ handler' # NoHandler
  BY <1>2, <1>8, ReplayAssumption DEF Handler
<1>10. ReplayTypeOK'
  <2>1. stats' \in [Counters -> Nat]
    BY CountTypes DEF AddStart, ReplayInv
  <2>2. accepted' \in Nat
    BY <1>2, <1>8 DEF ReplayInv, ReplayTypeOK
  <2>3. matched' \in BOOLEAN
    BY <1>3, MatchedType DEF ReplayInv
  <2> QED
    BY <1>3, <1>7, <1>9, <2>1, <2>2, <2>3 DEF ReplayInv, ReplayTypeOK, Tracked
<1>11. FeedInv'
  BY <1>3, <1>6, <1>7, <1>8 DEF ReplayInv, FeedInv, Tracked
<1> QED BY <1>4, <1>5, <1>10, <1>11 DEF ReplayInv

\* The same for the new order of a replace, after the old one has gone.
LEMMA ReplaceAddInv ==
  ASSUME ReplayInv, ReplaceAdd
  PROVE  [Next]_vars /\ ReplayInv'
<1> DEFINE o == handler.order
<1>1. /\ pc = "idle" /\ handler # NoHandler /\ handler.kind = "cancelled"
      /\ Accept(o) /\ accepted' = accepted + o.qty /\ NoteMatch
      /\ handler' = [handler EXCEPT !.kind = "replace"]
      /\ UNCHANGED <<locate, order_tracker, stats, announced, missed>>
  BY DEF ReplaceAdd, BookAdd
<1>2. handler \in Handler /\ o \in Call /\ o.id \notin Keys /\ o.id \in announced
  BY <1>1 DEF ReplayInv, ReplayTypeOK, FeedInv, Handler
<1>3. o.qty \in Nat
  <2>1. o.qty \in Quantities
    BY <1>2 DEF Call
  <2>2. \A q \in Quantities : q \in Nat
    BY BookAssumption
  <2> QED BY <2>1, <2>2
<1>4. [Next]_vars
  BY <1>1, <1>2 DEF Next, AddOrder
<1>5. IndInv'
  BY <1>4, BookInvFollows
<1>6. /\ Keys' = Keys \cup {o.id}
      /\ pc' \in {"match", "finish"}
      /\ call' = o
  BY <1>1, <1>2, AcceptAdds
<1>7. /\ handler' \in Handler /\ handler' # NoHandler
      /\ handler'.kind = "replace" /\ handler'.order = o
  BY <1>1, <1>2, ReplayAssumption DEF Handler
<1>8. ReplayTypeOK'
  <2>1. accepted' \in Nat
    BY <1>1, <1>3 DEF ReplayInv, ReplayTypeOK
  <2>2. matched' \in BOOLEAN
    BY <1>1, MatchedType DEF ReplayInv
  <2> QED BY <1>1, <1>7, <2>1, <2>2 DEF ReplayInv, ReplayTypeOK, Tracked
<1>9. FeedInv'
  <2>1. UNCHANGED <<announced, order_tracker>>
    BY <1>1
  <2> QED BY <1>2, <1>6, <1>7, <2>1 DEF ReplayInv, FeedInv, Tracked
<1> QED BY <1>4, <1>5, <1>8, <1>9 DEF ReplayInv

\* add_order has returned and the order becomes a tracked one.
LEMMA AddDoneInv ==
  ASSUME ReplayInv, AddDone
  PROVE  [Next]_vars /\ ReplayInv'
<1> DEFINE o == handler.order
<1>1. /\ pc = "idle" /\ handler # NoHandler
      /\ order_tracker' = Remember(o) /\ handler' = NoHandler /\ NoteMatch
      /\ UNCHANGED <<vars, locate, announced, accepted, missed>>
  BY DEF AddDone
<1>2. /\ o.id \in Ids /\ o.price \in Prices /\ o.qty \in Quantities /\ o.side \in Sides
      /\ o.id \in announced
  BY <1>1 DEF ReplayInv, ReplayTypeOK, FeedInv, Handler, Call
<1> HIDE DEF o
<1>3. [price |-> o.price, remaining |-> o.qty, side |-> o.side] \in TrackedOrder
  BY <1>2 DEF TrackedOrder
<1>4. /\ DOMAIN order_tracker' = Tracked \cup {o.id}
      /\ order_tracker' \in [DOMAIN order_tracker' -> TrackedOrder]
  BY <1>1, <1>3 DEF Remember, ReplayInv, ReplayTypeOK, TrackedOrder
<1>5. stats' \in [Counters -> Nat]
  BY CountTypes DEF AddDone, ReplayInv
<1>6. matched' \in BOOLEAN
  BY <1>1, MatchedType DEF ReplayInv
<1>7. ReplayTypeOK'
  BY <1>1, <1>2, <1>4, <1>5, <1>6 DEF ReplayInv, ReplayTypeOK, TrackedOrder, Tracked
<1>8. FeedInv'
  BY <1>1, <1>2, <1>4 DEF ReplayInv, FeedInv, Keys, Live, Tracked, vars
<1>9. IndInv'
  BY <1>1, BookInvFollows
<1> QED BY <1>1, <1>7, <1>8, <1>9 DEF ReplayInv

\* An execution or a partial cancel is a cancel or a modify of the book.
LEMMA TakeSharesInv ==
  ASSUME ReplayInv, Executed \/ PartialCancel
  PROVE  [Next]_vars /\ ReplayInv'
<1>1. PICK i \in Tracked, asked \in Quantities : TakeShares(i, asked)
  BY DEF Executed, PartialCancel
<1>2. /\ pc = "idle" /\ handler = NoHandler /\ NoteMatch
      /\ UNCHANGED <<locate, handler, announced, accepted>>
  BY DEF Executed, PartialCancel, Receive
<1>3. /\ [Next]_vars
      /\ Keys' \subseteq Keys
      /\ missed' \subseteq missed \cup Live
      /\ pc' # "idle" => call'.id = i
  <2>1. CASE BookCancel(i)
    BY <1>2, <2>1, CancelIsBookStep DEF ReplayInv
  <2>2. CASE \E p, q : BookModify(i, p, q)
    <3>1. PICK p, q : BookModify(i, p, q)
      BY <2>2
    <3>2. /\ [Next]_vars
          /\ Keys' \subseteq Keys
          /\ missed' \subseteq missed \cup Live
          /\ pc' \in {"idle", "readd"}
          /\ pc' = "readd" => call' = [id |-> i, price |-> p, qty |-> q,
                                       side |-> order_map[i].side]
      BY <1>2, <3>1, ModifyIsBookStep DEF ReplayInv
    <3> QED BY <3>2
  <2> QED BY <1>1, <2>1, <2>2 DEF TakeShares
<1>4. /\ DOMAIN order_tracker' \subseteq Tracked
      /\ order_tracker' \in [DOMAIN order_tracker' -> TrackedOrder]
  BY <1>1, TakeTypes DEF ReplayInv
<1>5. stats' \in [Counters -> Nat]
  <2>1. CASE PartialCancel
    BY <2>1, CountTypes DEF PartialCancel, ReplayInv
  <2>2. CASE Executed
    <3>1. PICK ref \in Tracked, executed_shares \in Quantities,
               names \in SUBSET Counters :
            stats' = CountTrade(names, Taken(ref, executed_shares))
      BY <2>2 DEF Executed, Counters
    <3>2. Taken(ref, executed_shares) \in Nat
      BY KeepsQuantity DEF ReplayInv
    <3> QED BY <3>1, <3>2, CountTypes DEF ReplayInv
  <2> QED BY <2>1, <2>2
<1>6. ReplayTypeOK'
  BY <1>2, <1>3, <1>4, <1>5, MatchedType, MissedTypes DEF ReplayInv, ReplayTypeOK, TrackedOrder, Tracked
<1>7. FeedInv'
  BY <1>1, <1>2, <1>3, <1>4 DEF ReplayInv, FeedInv, Tracked
<1> QED BY <1>3, <1>6, <1>7, BookInvFollows DEF ReplayInv

LEMMA DeleteInv ==
  ASSUME ReplayInv, Delete
  PROVE  [Next]_vars /\ ReplayInv'
<1>1. PICK i \in Ids : BookCancel(i) /\ order_tracker' = Forget(i)
  BY DEF Delete
<1>2. /\ pc = "idle" /\ handler = NoHandler /\ NoteMatch
      /\ UNCHANGED <<locate, handler, announced, accepted>>
  BY DEF Delete, Receive
<1>3. /\ [Next]_vars /\ pc' = "idle" /\ Keys' \subseteq Keys
      /\ missed' \subseteq missed \cup Live
  BY <1>1, <1>2, CancelIsBookStep DEF ReplayInv
<1>4. /\ DOMAIN order_tracker' = Tracked \ {i}
      /\ order_tracker' \in [DOMAIN order_tracker' -> TrackedOrder]
  BY <1>1, ForgetTypes DEF ReplayInv
<1>5. stats' \in [Counters -> Nat]
  BY CountTypes DEF Delete, ReplayInv
<1>6. ReplayTypeOK'
  BY <1>2, <1>3, <1>4, <1>5, MatchedType, MissedTypes DEF ReplayInv, ReplayTypeOK, TrackedOrder, Tracked
<1>7. FeedInv'
  BY <1>2, <1>3, <1>4 DEF ReplayInv, FeedInv, Tracked
<1> QED BY <1>3, <1>6, <1>7, BookInvFollows DEF ReplayInv

LEMMA ReplaceStartInv ==
  ASSUME ReplayInv, ReplaceStart
  PROVE  [Next]_vars /\ ReplayInv'
<1>1. PICK orig \in Ids, ref \in Ids \ announced,
           price \in ItchPrices, qty \in Quantities :
        LET side == IF orig \in Tracked THEN order_tracker[orig].side ELSE "Buy"
            o    == [id |-> ref, price |-> ToTick(price), qty |-> qty, side |-> side]
        IN /\ BookCancel(orig)
           /\ order_tracker' = Forget(orig)
           /\ handler' = [kind |-> "cancelled", order |-> o]
           /\ Announce(ref)
  BY DEF ReplaceStart
<1> DEFINE side == IF orig \in Tracked THEN order_tracker[orig].side ELSE "Buy"
           o    == [id |-> ref, price |-> ToTick(price), qty |-> qty, side |-> side]
<1>2. /\ pc = "idle" /\ NoteMatch
      /\ UNCHANGED <<locate, accepted>>
  BY DEF ReplaceStart, Receive
<1>3. /\ [Next]_vars /\ pc' = "idle" /\ Keys' \subseteq Keys
      /\ missed' \subseteq missed \cup Live
  BY <1>1, <1>2, CancelIsBookStep DEF ReplayInv
<1>4. /\ DOMAIN order_tracker' = Tracked \ {orig}
      /\ order_tracker' \in [DOMAIN order_tracker' -> TrackedOrder]
  BY <1>1, ForgetTypes DEF ReplayInv
<1>5. side \in Sides
  BY DEF Sides, ReplayInv, ReplayTypeOK
<1>6. o \in Call /\ o.price \in Prices /\ o.id = ref
  <2>1. ToTick(price) \in Prices /\ ToTick(price) \in 0 .. MaxPriceLevels
    BY TickIsAPrice, BookAssumption DEF Prices
  <2> HIDE DEF side
  <2> QED BY <1>5, <2>1 DEF Call
<1>7. /\ announced' = announced \cup {ref}
      /\ announced' \subseteq Ids
  BY <1>1, AnnounceTypes DEF ReplayInv
<1>8. handler' = [kind |-> "cancelled", order |-> o]
  BY <1>1
<1> HIDE DEF o
<1>9. handler' \in Handler
  BY <1>6, <1>8 DEF Handler
<1>10. stats' \in [Counters -> Nat]
  BY CountTypes DEF ReplaceStart, ReplayInv
<1>11. ReplayTypeOK'
  BY <1>2, <1>3, <1>4, <1>7, <1>9, <1>10, MatchedType, MissedTypes
  DEF ReplayInv, ReplayTypeOK, TrackedOrder, Tracked
<1>12. FeedInv'
  BY <1>3, <1>4, <1>6, <1>7, <1>8 DEF ReplayInv, FeedInv, Tracked
<1> QED BY <1>3, <1>11, <1>12, BookInvFollows DEF ReplayInv

LEMMA BookStepInv ==
  ASSUME ReplayInv, BookStep
  PROVE  [Next]_vars /\ ReplayInv'
<1>1. /\ Proceed /\ NoteMatch
      /\ UNCHANGED <<locate, order_tracker, stats, handler, announced, accepted, missed>>
  BY DEF BookStep
<1>2. /\ [Next]_vars
      /\ pc # "idle"
      /\ pc' # "idle" => call' = call
      /\ Keys' \subseteq Keys \cup {call.id}
  BY <1>1, ProceedKeeps DEF ReplayInv
<1>3. ReplayTypeOK'
  BY <1>1, MatchedType DEF ReplayInv, ReplayTypeOK, Tracked
<1>4. FeedInv'
  BY <1>1, <1>2 DEF ReplayInv, FeedInv, Tracked
<1> QED BY <1>2, <1>3, <1>4, BookInvFollows DEF ReplayInv

LEMMA ReplayInitInv == ReplayInit => ReplayInv
<1> SUFFICES ASSUME ReplayInit PROVE ReplayInv
  OBVIOUS
<1>1. IndInv
  BY InitInv DEF ReplayInit
<1>2. Keys = {} /\ pc = "idle"
  BY DEF ReplayInit, Init, Keys, Live
<1>3. Tracked = {} /\ announced = {}
  BY DEF ReplayInit, Tracked
<1>4. ReplayTypeOK
  <2>1. order_tracker \in [Tracked -> TrackedOrder]
    BY <1>3 DEF ReplayInit
  <2>2. stats \in [Counters -> Nat]
    BY DEF ReplayInit
  <2> QED BY <1>3, <2>1, <2>2 DEF ReplayInit, ReplayTypeOK, TrackedOrder
<1>5. FeedInv
  BY <1>2, <1>3 DEF ReplayInit, FeedInv
<1> QED BY <1>1, <1>4, <1>5 DEF ReplayInv

LEMMA ReplayStepInv ==
  ReplayInv /\ [ReplayNext]_allVars => [Next]_vars /\ ReplayInv'
<1> SUFFICES ASSUME ReplayInv, [ReplayNext]_allVars PROVE [Next]_vars /\ ReplayInv'
  OBVIOUS
<1>1. CASE StockDirectory \/ AddSkipped \/ AddRejected \/ UnknownOrder \/ ReplaceRejected
  BY <1>1, QuietInv
<1>2. CASE AddStart
  BY <1>2, AddStartInv
<1>3. CASE AddDone
  BY <1>3, AddDoneInv
<1>4. CASE Executed \/ PartialCancel
  BY <1>4, TakeSharesInv
<1>5. CASE Delete
  BY <1>5, DeleteInv
<1>6. CASE ReplaceStart
  BY <1>6, ReplaceStartInv
<1>7. CASE ReplaceAdd
  BY <1>7, ReplaceAddInv
<1>8. CASE BookStep
  BY <1>8, BookStepInv
<1>9. CASE UNCHANGED allVars
  <2>1. UNCHANGED vars /\ UNCHANGED replayVars
    BY <1>9 DEF allVars
  <2>2. IndInv'
    BY <2>1, BookInvFollows
  <2> QED
    BY <2>1, <2>2
    DEF ReplayInv, ReplayTypeOK, FeedInv, vars, replayVars, Keys, Live, Tracked
<1> QED BY <1>1, <1>2, <1>3, <1>4, <1>5, <1>6, <1>7, <1>8, <1>9 DEF ReplayNext

\* Whatever the feed says, the engine keeps its types.
THEOREM ReplayTypes == ReplaySpec => []ReplayTypeOK
<1>1. ReplayInv => ReplayTypeOK
  BY DEF ReplayInv
<1> QED BY ReplayInitInv, ReplayStepInv, <1>1, PTL DEF ReplaySpec

\* A replay implements the book: every handler makes only calls that OrderBook
\* allows, so the theorems of OrderBookProofs hold of the book of a replay.
THEOREM ReplayUsesBook == ReplaySpec => UsesBook
<1>1. ReplayInit => Init
  BY DEF ReplayInit
<1> QED BY ReplayInitInv, ReplayStepInv, <1>1, PTL DEF ReplaySpec, UsesBook, Spec

-----------------------------------------------------------------------------
(* The book never shows more than the feed has left it, but for the orders   *)
(* that a call has missed in the order map.  The order that add_order works  *)
(* on counts with the terms it was added with, and the one that modify_order *)
(* is about to add again with those of the tracker.                          *)

\* The terms the engine holds, or is about to hold, for order i.
Terms(i) ==
  IF i \in Untracked
  THEN [price |-> handler.order.price, remaining |-> handler.order.qty,
        side |-> handler.order.side]
  ELSE order_tracker[i]

Covers(terms, o) ==
  /\ o.price = terms.price
  /\ o.side = terms.side
  /\ o.remaining <= terms.remaining

CoverInv ==
  /\ \A i \in Live \ missed :
       i \in Untracked \cup Tracked /\ Covers(Terms(i), order_map[i])
  /\ pc = "readd" /\ call.id \notin missed =>
       /\ handler = NoHandler
       /\ call.id \in Tracked
       /\ Covers(order_tracker[call.id],
                 [price |-> call.price, remaining |-> call.qty, side |-> call.side])

\* Steps that leave the book and the tracker alone.
LEMMA QuietCovers ==
  ASSUME ReplayInv, CoverInv, UNCHANGED <<vars, order_tracker, missed>>,
         Untracked' = Untracked, handler' = handler \/ handler' = NoHandler
  PROVE  CoverInv'
<1>1. \A i : Terms(i)' = Terms(i)
  <2>1. CASE handler' = handler
    BY <2>1 DEF Terms, Untracked
  <2>2. CASE handler' = NoHandler
    BY <2>2 DEF Terms, Untracked
  <2> QED BY <2>1, <2>2
<1> QED BY <1>1 DEF CoverInv, Covers, vars, Live, Tracked

\* An add starts, with nothing else under way.
LEMMA AcceptCovers ==
  ASSUME ReplayInv, CoverInv, Untracked = {},
         NEW o \in Call, o.id \notin Keys, o.qty \in Nat, Accept(o),
         UNCHANGED <<order_tracker, missed>>,
         handler' # NoHandler, handler'.kind # "cancelled", handler'.order = o
  PROVE  CoverInv'
<1>1. Untracked' = {o.id}
  BY DEF Untracked
<1>2. /\ Live' = Live \cup {o.id}
      /\ order_map'[o.id] = [price |-> o.price, remaining |-> o.qty, side |-> o.side]
      /\ \A j \in Live : order_map'[j] = order_map[j]
      /\ pc' # "readd"
  BY AcceptAdds DEF Live
<1>3. \A j \in Live : Terms(j)' = Terms(j)
  BY <1>1, AcceptAdds DEF Terms
<1>4. Covers(Terms(o.id)', order_map'[o.id])
  BY <1>1, <1>2 DEF Terms, Covers
<1> QED BY <1>1, <1>2, <1>3, <1>4 DEF CoverInv, Tracked

\* An order leaves the book and the tracker.
LEMMA ForgetCovers ==
  ASSUME ReplayInv, CoverInv, pc = "idle", Untracked = {}, Untracked' = {},
         NEW i, BookCancel(i), order_tracker' = Forget(i)
  PROVE  CoverInv'
<1>1. /\ Live' \subseteq Live /\ pc' = "idle" /\ missed \subseteq missed'
      /\ \A j \in Live' : order_map'[j] = order_map[j]
      /\ i \in Live' => i \in missed'
  BY CancelIsBookStep DEF ReplayInv
<1>2. /\ Tracked' = Tracked \ {i}
      /\ \A j \in Tracked \ {i} : order_tracker'[j] = order_tracker[j]
  BY DEF Forget, Tracked
<1> QED BY <1>1, <1>2 DEF CoverInv, Terms

LEMMA TakeSharesCovers ==
  ASSUME ReplayInv, CoverInv, Executed \/ PartialCancel
  PROVE  CoverInv'
<1>1. PICK i \in Tracked, asked \in Quantities : TakeShares(i, asked)
  BY DEF Executed, PartialCancel
<1>2. pc = "idle" /\ handler = NoHandler /\ handler' = NoHandler
  BY DEF Executed, PartialCancel, Receive
<1>3. Untracked = {} /\ Untracked' = {}
  BY <1>2 DEF Untracked
<1> DEFINE left == Wrap(order_tracker[i].remaining - Taken(i, asked))
<1>4. left \in Nat
  BY KeepsQuantity DEF ReplayInv
<1>5. CASE BookCancel(i) /\ order_tracker' = Forget(i)
  BY <1>2, <1>3, <1>5, ForgetCovers
<1>6. CASE /\ BookModify(i, order_tracker[i].price, left)
           /\ order_tracker' = [order_tracker EXCEPT ![i].remaining = left]
  <2> DEFINE p == order_tracker[i].price
  <2> HIDE DEF left
  <2>1. /\ Live' \subseteq Live /\ missed \subseteq missed'
        /\ pc' \in {"idle", "readd"}
        /\ \A j \in Live' \ missed' :
             order_map'[j] = IF j = i THEN [order_map[j] EXCEPT !.remaining = left]
                                      ELSE order_map[j]
        /\ pc' = "readd" => /\ i \in Live
                            /\ call' = [id |-> i, price |-> p, qty |-> left,
                                        side |-> order_map[i].side]
    BY <1>2, <1>6, ModifyIsBookStep DEF ReplayInv
  <2>2. /\ order_tracker \in [Tracked -> TrackedOrder]
        /\ order_map \in [Live -> Order]
    BY DEF ReplayInv, ReplayTypeOK, TrackedOrder, IndInv, TypeOK
  <2>3. /\ Tracked' = Tracked
        /\ \A j \in Tracked \ {i} : order_tracker'[j] = order_tracker[j]
        /\ order_tracker'[i].price = order_tracker[i].price
        /\ order_tracker'[i].side = order_tracker[i].side
        /\ order_tracker'[i].remaining = left
    BY <1>6, <2>2 DEF Tracked, TrackedOrder
  <2>4. \A j \in Live' \ missed' : Covers(order_tracker'[j], order_map'[j])
    <3> SUFFICES ASSUME NEW j \in Live' \ missed' PROVE Covers(order_tracker'[j], order_map'[j])
      OBVIOUS
    <3>1. j \in Live /\ j \in Tracked /\ Covers(order_tracker[j], order_map[j])
      BY <1>3, <2>1 DEF CoverInv, Terms
    <3>2. CASE j # i
      BY <2>1, <2>3, <3>1, <3>2
    <3>3. CASE j = i
      <4>1. order_map'[i] = [order_map[i] EXCEPT !.remaining = left]
        BY <2>1, <3>3
      <4>2. /\ order_map'[i].price = order_map[i].price
            /\ order_map'[i].side = order_map[i].side
            /\ order_map'[i].remaining = left
        BY <2>2, <3>1, <3>3, <4>1 DEF Order
      <4> QED BY <1>4, <2>3, <3>1, <3>3, <4>2 DEF Covers
    <3> QED BY <3>2, <3>3
  <2>5. ASSUME pc' = "readd", call'.id \notin missed'
        PROVE  /\ call'.id \in Tracked'
               /\ Covers(order_tracker'[call'.id],
                         [price |-> call'.price, remaining |-> call'.qty, side |-> call'.side])
    <3>1. i \in Live \ missed /\ order_map[i].side = order_tracker[i].side
      BY <1>3, <2>1, <2>5 DEF CoverInv, Terms, Covers
    <3> QED BY <1>4, <2>1, <2>3, <2>5, <3>1 DEF Covers
  <2>6. \A j \in Live' \ missed' : j \in Tracked' /\ Covers(Terms(j)', order_map'[j])
    <3>1. \A j \in Live \ missed : j \in Tracked
      BY <1>3 DEF CoverInv
    <3>2. \A j : Terms(j)' = order_tracker'[j]
      BY <1>3 DEF Terms
    <3> QED BY <2>1, <2>3, <2>4, <3>1, <3>2
  <2> QED BY <1>2, <2>5, <2>6 DEF CoverInv
<1> QED BY <1>1, <1>5, <1>6 DEF TakeShares

LEMMA AddDoneCovers ==
  ASSUME ReplayInv, CoverInv, AddDone
  PROVE  CoverInv'
<1> DEFINE o == handler.order
<1>1. /\ pc = "idle" /\ pc' = "idle" /\ UNCHANGED <<order_map, missed>>
      /\ order_tracker' = Remember(o)
      /\ Untracked = {o.id} /\ Untracked' = {}
  BY DEF AddDone, Untracked, vars
<1>2. /\ Tracked' = Tracked \cup {o.id}
      /\ \A j \in Tracked' :
           order_tracker'[j] = IF j = o.id THEN [price |-> o.price, remaining |-> o.qty,
                                                 side |-> o.side]
                                           ELSE order_tracker[j]
  BY <1>1 DEF Remember, Tracked
<1>3. \A j \in Live \ missed : j \in Tracked' /\ Terms(j)' = Terms(j)
  BY <1>1, <1>2 DEF Terms, CoverInv
<1> QED BY <1>1, <1>3 DEF CoverInv, Live

LEMMA BookStepCovers ==
  ASSUME ReplayInv, CoverInv, BookStep
  PROVE  CoverInv'
<1>1. Proceed /\ UNCHANGED <<handler, order_tracker, missed>>
  BY DEF BookStep
<1>2. /\ pc' # "readd"
      /\ \A j \in Live' :
           \/ /\ j \in Live
              /\ order_map'[j].side = order_map[j].side
              /\ order_map'[j].price = order_map[j].price
              /\ order_map'[j].remaining <= order_map[j].remaining
           \/ /\ pc = "readd"
              /\ j = call.id
              /\ order_map'[j] = [price |-> call.price, remaining |-> call.qty,
                                  side |-> call.side]
  BY <1>1, ProceedKeeps DEF ReplayInv, Live
<1>3. IndInv'
  BY BookStepInv DEF ReplayInv
<1>4. Untracked' = Untracked /\ Tracked' = Tracked /\ \A j : Terms(j)' = Terms(j)
  BY <1>1 DEF Untracked, Terms, Tracked
<1>5. ASSUME NEW j \in Live' \ missed
      PROVE  j \in Untracked \cup Tracked /\ Covers(Terms(j), order_map'[j])
  <2>1. CASE /\ pc = "readd"
             /\ j = call.id
             /\ order_map'[j] = [price |-> call.price, remaining |-> call.qty,
                                 side |-> call.side]
    BY <2>1 DEF CoverInv, Terms, Untracked
  <2>2. CASE /\ j \in Live
             /\ order_map'[j].side = order_map[j].side
             /\ order_map'[j].price = order_map[j].price
             /\ order_map'[j].remaining <= order_map[j].remaining
    <3>1. j \in Untracked \cup Tracked /\ Covers(Terms(j), order_map[j])
      BY <2>2 DEF CoverInv
    <3>2. /\ order_map'[j].remaining \in Int
          /\ order_map[j].remaining \in Int
      BY <1>3, <2>2, BookAssumption DEF ReplayInv, IndInv, TypeOK, Order
    <3>3. Terms(j).remaining \in Int
      <4>1. \A q \in Quantities : q \in Int
        BY BookAssumption
      <4>2. CASE j \in Untracked
        <5>1. handler \in Handler
          BY <4>2 DEF Untracked, ReplayInv, ReplayTypeOK
        <5>2. handler.order.qty \in Quantities
          BY <5>1 DEF Handler, Call
        <5> QED BY <4>1, <4>2, <5>2 DEF Terms
      <4>3. CASE j \notin Untracked
        <5>1. order_tracker[j].remaining \in Quantities
          BY <3>1, <4>3 DEF ReplayInv, ReplayTypeOK
        <5> QED BY <4>1, <4>3, <5>1 DEF Terms
      <4> QED BY <4>2, <4>3
    <3> QED BY <2>2, <3>1, <3>2, <3>3 DEF Covers
  <2> QED BY <1>2, <2>1, <2>2
<1> QED BY <1>1, <1>2, <1>4, <1>5 DEF CoverInv

LEMMA CoverStep ==
  ReplayInv /\ CoverInv /\ [ReplayNext]_allVars => CoverInv'
<1> SUFFICES ASSUME ReplayInv, CoverInv, [ReplayNext]_allVars PROVE CoverInv'
  OBVIOUS
<1>1. CASE StockDirectory \/ AddSkipped \/ AddRejected \/ UnknownOrder
  <2>1. UNCHANGED <<vars, order_tracker, handler, missed>>
    BY <1>1 DEF StockDirectory, AddSkipped, AddRejected, UnknownOrder
  <2>2. Untracked' = Untracked
    BY <2>1 DEF Untracked
  <2> QED BY <2>1, <2>2, QuietCovers
<1>2. CASE ReplaceRejected
  BY <1>2, QuietCovers DEF ReplaceRejected, Untracked
<1>3. CASE AddStart
  <2>1. PICK ref \in Ids \ announced, price \in ItchPrices, qty \in Quantities, side \in Sides :
          LET o == [id |-> ref, price |-> ToTick(price), qty |-> qty, side |-> side]
          IN Accept(o) /\ handler' = [kind |-> "add", order |-> o]
    BY <1>3 DEF AddStart, BookAdd
  <2> DEFINE o == [id |-> ref, price |-> ToTick(price), qty |-> qty, side |-> side]
  <2>2. o \in Call /\ o.id \notin Keys /\ o.qty \in Nat
    <3>1. ToTick(price) \in 0 .. MaxPriceLevels
      BY TickIsAPrice, BookAssumption DEF Prices
    <3>2. qty \in Nat
      BY BookAssumption
    <3> QED BY <3>1, <3>2 DEF Call, ReplayInv, FeedInv
  <2>3. Untracked = {} /\ UNCHANGED <<order_tracker, missed>>
    BY <1>3 DEF AddStart, Receive, Untracked
  <2>4. handler' # NoHandler
    BY <1>3, AddStartInv, <2>1, <2>2, ReplayAssumption
  <2>5. handler'.kind # "cancelled" /\ handler'.order = o /\ Accept(o)
    BY <2>1
  <2> HIDE DEF o
  <2> QED BY <2>2, <2>3, <2>4, <2>5, AcceptCovers
<1>4. CASE ReplaceAdd
  <2> DEFINE o == handler.order
  <2>1. /\ handler # NoHandler /\ handler.kind = "cancelled" /\ Accept(o)
        /\ handler' = [handler EXCEPT !.kind = "replace"]
        /\ UNCHANGED <<order_tracker, missed>>
    BY <1>4 DEF ReplaceAdd, BookAdd
  <2>2. handler \in Handler /\ o \in Call /\ o.id \notin Keys
    BY <2>1 DEF ReplayInv, ReplayTypeOK, FeedInv, Handler
  <2>3. o.qty \in Nat
    <3>1. o.qty \in Quantities
      BY <2>2 DEF Call
    <3>2. \A q \in Quantities : q \in Nat
      BY BookAssumption
    <3> QED BY <3>1, <3>2
  <2>4. handler' # NoHandler /\ handler'.kind # "cancelled" /\ handler'.order = o
    BY <2>1, <2>2, ReplayAssumption DEF Handler
  <2>5. Untracked = {}
    BY <2>1 DEF Untracked
  <2> HIDE DEF o
  <2> QED BY <2>1, <2>2, <2>3, <2>4, <2>5, AcceptCovers
<1>5. CASE AddDone
  BY <1>5, AddDoneCovers
<1>6. CASE Executed \/ PartialCancel
  BY <1>6, TakeSharesCovers
<1>7. CASE Delete
  <2>1. PICK i : BookCancel(i) /\ order_tracker' = Forget(i)
    BY <1>7 DEF Delete
  <2>2. pc = "idle" /\ Untracked = {} /\ Untracked' = {}
    BY <1>7 DEF Delete, Receive, Untracked
  <2> QED BY <2>1, <2>2, ForgetCovers
<1>8. CASE ReplaceStart
  <2>1. PICK i : BookCancel(i) /\ order_tracker' = Forget(i)
    BY <1>8 DEF ReplaceStart
  <2>2. pc = "idle" /\ Untracked = {} /\ Untracked' = {}
    BY <1>8 DEF ReplaceStart, Receive, Untracked
  <2> QED BY <2>1, <2>2, ForgetCovers
<1>9. CASE BookStep
  BY <1>9, BookStepCovers
<1>10. CASE UNCHANGED allVars
  <2>1. UNCHANGED <<vars, order_tracker, handler, missed>>
    BY <1>10 DEF allVars, replayVars
  <2>2. Untracked' = Untracked
    BY <2>1 DEF Untracked
  <2> QED BY <2>1, <2>2, QuietCovers
<1> QED BY <1>1, <1>2, <1>3, <1>4, <1>5, <1>6, <1>7, <1>8, <1>9, <1>10 DEF ReplayNext

\* In every replay, and at every step of it, an order in the book is one the
\* engine tracks, on the terms it tracks and with no more left, unless a cancel
\* or a modify has missed it in the order map.
THEOREM TrackerCovers == ReplaySpec => []TrackerCoversBook
<1>1. ReplayInit => CoverInv
  BY DEF ReplayInit, Init, CoverInv, Live
<1>2. CoverInv => TrackerCoversBook
  BY DEF CoverInv, TrackerCoversBook, Terms, Covers
<1> QED BY ReplayInitInv, ReplayStepInv, CoverStep, <1>1, <1>2, PTL DEF ReplaySpec

-----------------------------------------------------------------------------
(* Shares.  What an order loses in the tracker is what it is counted as     *)
(* traded, or nothing; what a new order brings has been accepted before.    *)

\* The shares of an order that the book has accepted and that is not tracked.
Awaited == IF Untracked # {} THEN handler.order.qty ELSE 0

\* The strengthening: an order yet to be tracked has a reference that is not.
SharesInv ==
  /\ IsFiniteSet(Tracked)
  /\ handler # NoHandler => handler.order.id \notin Tracked
  /\ stats["shares"] + SharesLeft(order_tracker, Tracked) + Awaited <= accepted

\* The shares still tracked, as numbers.
LEMMA TrackedShares ==
  ASSUME ReplayTypeOK, IsFiniteSet(Tracked)
  PROVE  /\ \A i \in Tracked : order_tracker[i].remaining \in Nat
         /\ SharesLeft(order_tracker, Tracked) \in Int
         /\ stats["shares"] \in Nat
         /\ accepted \in Nat
         /\ Awaited \in Nat
<1>1. \A q \in Quantities : q \in Nat
  BY BookAssumption
<1>2. \A i \in Tracked : order_tracker[i].remaining \in Nat
  BY <1>1 DEF ReplayTypeOK
<1>3. SharesLeft(order_tracker, Tracked) \in Int
  BY <1>2, SharesLeftInt
<1>4. Awaited \in Nat
  <2>1. CASE Untracked = {}
    BY <2>1 DEF Awaited
  <2>2. CASE Untracked # {}
    <3>1. handler \in Handler
      BY <2>2 DEF Untracked, ReplayTypeOK
    <3>2. handler.order.qty \in Quantities
      BY <3>1 DEF Handler, Call
    <3> QED BY <1>1, <2>2, <3>2 DEF Awaited
  <2> QED BY <2>1, <2>2
<1> QED BY <1>2, <1>3, <1>4 DEF ReplayTypeOK, Counters

\* A step that changes at most one order of the tracker.
LEMMA OneTrackedChanges ==
  ASSUME ReplayTypeOK, ReplayTypeOK', IsFiniteSet(Tracked), NEW i,
         Tracked' \ {i} = Tracked \ {i},
         \A j \in Tracked \ {i} : order_tracker'[j] = order_tracker[j]
  PROVE  /\ IsFiniteSet(Tracked')
         /\ SharesLeft(order_tracker', Tracked') =
              SharesLeft(order_tracker, Tracked)
                + (IF i \in Tracked' THEN order_tracker'[i].remaining ELSE 0)
                - (IF i \in Tracked THEN order_tracker[i].remaining ELSE 0)
<1>1. IsFiniteSet(Tracked')
  <2>1. IsFiniteSet(Tracked \cup {i})
    BY FS_AddElement
  <2>2. Tracked' \subseteq Tracked \cup {i}
    OBVIOUS
  <2> QED BY <2>1, <2>2, FS_Subset
<1>2. \A j \in Tracked : order_tracker[j].remaining \in Int
  BY TrackedShares
<1>3. \A j \in Tracked' : order_tracker'[j].remaining \in Int
  <2>1. \A q \in Quantities : q \in Int
    BY BookAssumption
  <2> QED BY <2>1 DEF ReplayTypeOK
<1>4. PICK pm, T : pm = order_tracker' /\ T = Tracked'
  OBVIOUS
<1>5. /\ IsFiniteSet(T) /\ Tracked \ {i} = T \ {i}
      /\ \A j \in T : pm[j].remaining \in Int
      /\ \A j \in Tracked \ {i} : order_tracker[j].remaining = pm[j].remaining
  BY <1>1, <1>3, <1>4
<1>6. SharesLeft(pm, T) =
        SharesLeft(order_tracker, Tracked)
          + (IF i \in T THEN pm[i].remaining ELSE 0)
          - (IF i \in Tracked THEN order_tracker[i].remaining ELSE 0)
  BY <1>2, <1>5, SharesLeftChange
<1> QED BY <1>1, <1>4, <1>6

\* An order leaves the tracker with what it has left.
LEMMA ForgetShares ==
  ASSUME ReplayTypeOK, ReplayTypeOK', IsFiniteSet(Tracked), NEW i,
         order_tracker' = Forget(i)
  PROVE  /\ IsFiniteSet(Tracked')
         /\ Tracked' = Tracked \ {i}
         /\ SharesLeft(order_tracker', Tracked') =
              SharesLeft(order_tracker, Tracked)
                - (IF i \in Tracked THEN order_tracker[i].remaining ELSE 0)
<1>1. /\ Tracked' = Tracked \ {i}
      /\ \A j \in Tracked \ {i} : order_tracker'[j] = order_tracker[j]
  BY DEF Forget, Tracked
<1>2. /\ IsFiniteSet(Tracked')
      /\ SharesLeft(order_tracker', Tracked') =
           SharesLeft(order_tracker, Tracked)
             + (IF i \in Tracked' THEN order_tracker'[i].remaining ELSE 0)
             - (IF i \in Tracked THEN order_tracker[i].remaining ELSE 0)
  BY <1>1, OneTrackedChanges
<1>3. /\ SharesLeft(order_tracker, Tracked) \in Int
      /\ (IF i \in Tracked THEN order_tracker[i].remaining ELSE 0) \in Int
  BY TrackedShares
<1>4. (IF i \in Tracked' THEN order_tracker'[i].remaining ELSE 0) = 0
  BY <1>1
<1> QED BY <1>1, <1>2, <1>3, <1>4

\* A handler that counts no trade keeps the count of shares.
LEMMA CountKeepsShares ==
  ASSUME NEW names, "shares" \notin names
  PROVE  Count(names)["shares"] = stats["shares"]
BY DEF Count, Counters

LEMMA TradeAddsShares ==
  ASSUME ReplayTypeOK, NEW names, "shares" \notin names, NEW n
  PROVE  CountTrade(names, n)["shares"] = stats["shares"] + n
BY DEF CountTrade, Count, Counters

LEMMA TakeSharesShares ==
  ASSUME ReplayInv, ReplayInv', SharesInv, Executed \/ PartialCancel
  PROVE  SharesInv'
<1>1. PICK i \in Tracked, asked \in Quantities :
        /\ TakeShares(i, asked)
        /\ stats'["shares"] <= stats["shares"] + Taken(i, asked)
        /\ stats'["shares"] \in Nat
  <2>1. stats["shares"] \in Nat
    BY DEF ReplayInv, ReplayTypeOK, Counters
  <2>2. CASE Executed
    <3>1. PICK i \in Tracked, asked \in Quantities :
            /\ TakeShares(i, asked)
            /\ stats' = CountTrade({"messages",
                                    IF Taken(i, asked) = order_tracker[i].remaining
                                    THEN "cancelled" ELSE "executed"}, Taken(i, asked))
      BY <2>2 DEF Executed
    <3>2. stats'["shares"] = stats["shares"] + Taken(i, asked)
      BY <3>1, TradeAddsShares DEF ReplayInv
    <3>3. Taken(i, asked) \in Nat
      BY KeepsQuantity DEF ReplayInv
    <3> QED BY <2>1, <3>1, <3>2, <3>3
  <2>3. CASE PartialCancel
    <3>1. PICK i \in Tracked, asked \in Quantities : TakeShares(i, asked)
      BY <2>3 DEF PartialCancel
    <3>2. stats'["shares"] = stats["shares"]
      BY <2>3, CountKeepsShares DEF PartialCancel
    <3>3. Taken(i, asked) \in Nat
      BY KeepsQuantity DEF ReplayInv
    <3> QED BY <2>1, <3>1, <3>2, <3>3
  <2> QED BY <2>2, <2>3
<1>2. /\ handler = NoHandler /\ handler' = NoHandler /\ accepted' = accepted
      /\ Awaited = 0 /\ Awaited' = 0
  BY DEF Executed, PartialCancel, Receive, Awaited, Untracked
<1> DEFINE r == order_tracker[i].remaining
           n == Taken(i, asked)
           left == Wrap(r - n)
<1>3. left = r - n /\ left \in Nat /\ n \in Nat /\ r \in Nat
  BY KeepsQuantity, TrackedShares DEF ReplayInv, SharesInv
<1>4. /\ IsFiniteSet(Tracked')
      /\ SharesLeft(order_tracker', Tracked') = SharesLeft(order_tracker, Tracked) - n
  <2>1. SharesLeft(order_tracker, Tracked) \in Int
    BY TrackedShares DEF ReplayInv, SharesInv
  <2>2. CASE left = 0 /\ order_tracker' = Forget(i)
    <3>1. r = n
      <4> HIDE DEF r, n
      <4> QED BY <1>3, <2>2
    <3> QED BY <2>2, <3>1, ForgetShares DEF ReplayInv, SharesInv
  <2>3. CASE order_tracker' = [order_tracker EXCEPT ![i].remaining = left]
    <3>1. /\ Tracked' = Tracked
          /\ \A j \in Tracked \ {i} : order_tracker'[j] = order_tracker[j]
          /\ order_tracker'[i].remaining = left
      <4>1. order_tracker \in [Tracked -> TrackedOrder]
        BY DEF ReplayInv, ReplayTypeOK, TrackedOrder
      <4> HIDE DEF left
      <4> QED BY <2>3, <4>1 DEF Tracked, TrackedOrder
    <3>2. /\ IsFiniteSet(Tracked')
          /\ SharesLeft(order_tracker', Tracked') =
               SharesLeft(order_tracker, Tracked) + left - r
      BY <3>1, OneTrackedChanges DEF ReplayInv, SharesInv
    <3> HIDE DEF r, n, left
    <3> QED BY <1>3, <2>1, <3>2
  <2> QED BY <1>1, <2>2, <2>3 DEF TakeShares
<1>5. /\ stats["shares"] \in Nat /\ accepted \in Nat
      /\ SharesLeft(order_tracker, Tracked) \in Int
  BY TrackedShares DEF ReplayInv, SharesInv
<1> HIDE DEF n
<1>6. stats'["shares"] + SharesLeft(order_tracker', Tracked') + Awaited' <= accepted'
  <2>1. stats["shares"] + SharesLeft(order_tracker, Tracked) + 0 <= accepted
    BY <1>2 DEF SharesInv
  <2>2. stats'["shares"] <= stats["shares"] + n /\ stats'["shares"] \in Nat
    BY <1>1 DEF n
  <2> QED BY <1>2, <1>3, <1>4, <1>5, <2>1, <2>2
<1> QED BY <1>2, <1>4, <1>6 DEF SharesInv

LEMMA ForgetStepShares ==
  ASSUME ReplayInv, ReplayInv', SharesInv, Delete \/ ReplaceStart
  PROVE  SharesInv'
<1>1. PICK i : order_tracker' = Forget(i)
  BY DEF Delete, ReplaceStart
<1>2. /\ stats'["shares"] = stats["shares"] /\ accepted' = accepted
      /\ Awaited = 0
  BY CountKeepsShares DEF Delete, ReplaceStart, Receive, Awaited, Untracked
<1>3. Awaited' = 0 /\ (handler' # NoHandler => handler'.order.id \notin Tracked)
  <2>1. CASE Delete
    BY <2>1 DEF Delete, Receive, Awaited, Untracked
  <2>2. CASE ReplaceStart
    <3>1. PICK ref \in Ids \ announced : /\ handler'.order.id = ref
                                         /\ handler'.kind = "cancelled"
      BY <2>2 DEF ReplaceStart
    <3> QED BY <3>1 DEF Awaited, Untracked, ReplayInv, FeedInv
  <2> QED BY <2>1, <2>2
<1>4. /\ IsFiniteSet(Tracked')
      /\ Tracked' = Tracked \ {i}
      /\ SharesLeft(order_tracker', Tracked') =
           SharesLeft(order_tracker, Tracked)
             - (IF i \in Tracked THEN order_tracker[i].remaining ELSE 0)
  BY <1>1, ForgetShares DEF ReplayInv, SharesInv
<1>5. /\ stats["shares"] \in Nat /\ accepted \in Nat
      /\ SharesLeft(order_tracker, Tracked) \in Int
      /\ (IF i \in Tracked THEN order_tracker[i].remaining ELSE 0) \in Nat
  BY TrackedShares DEF ReplayInv, SharesInv
<1>6. stats["shares"] + SharesLeft(order_tracker, Tracked) + 0 <= accepted
  BY <1>2 DEF SharesInv
<1>7. stats'["shares"] + SharesLeft(order_tracker', Tracked') + Awaited' <= accepted'
  BY <1>2, <1>3, <1>4, <1>5, <1>6
<1> QED BY <1>3, <1>4, <1>7 DEF SharesInv

\* An accepted order's shares are awaited from the tracker.
LEMMA AcceptedShares ==
  ASSUME ReplayInv, SharesInv, Untracked = {}, UNCHANGED order_tracker,
         stats'["shares"] = stats["shares"],
         NEW o, o.qty \in Nat, o.id \notin Tracked, accepted' = accepted + o.qty,
         handler' # NoHandler, handler'.kind # "cancelled", handler'.order = o
  PROVE  SharesInv'
<1>1. Awaited = 0 /\ Awaited' = o.qty /\ Tracked' = Tracked
  BY DEF Awaited, Untracked, Tracked
<1>2. /\ stats["shares"] \in Nat /\ accepted \in Nat
      /\ SharesLeft(order_tracker, Tracked) \in Int
  BY TrackedShares DEF ReplayInv, SharesInv
<1>3. stats["shares"] + SharesLeft(order_tracker, Tracked) + 0 <= accepted
  BY <1>1 DEF SharesInv
<1>4. stats'["shares"] + SharesLeft(order_tracker', Tracked') + Awaited' <= accepted'
  BY <1>1, <1>2, <1>3
<1> QED BY <1>1, <1>4 DEF SharesInv

LEMMA AddDoneShares ==
  ASSUME ReplayInv, ReplayInv', SharesInv, AddDone
  PROVE  SharesInv'
<1> DEFINE o == handler.order
<1>1. /\ handler # NoHandler /\ handler' = NoHandler
      /\ order_tracker' = Remember(o)
      /\ accepted' = accepted
      /\ Awaited = o.qty /\ Awaited' = 0
  BY DEF AddDone, Awaited, Untracked
<1>2. stats'["shares"] = stats["shares"]
  BY CountKeepsShares DEF AddDone
<1>3. PICK i \in Ids : i = o.id /\ i \notin Tracked
  <2>1. o.id \in Ids
    BY <1>1 DEF ReplayInv, ReplayTypeOK, Handler, Call
  <2> QED BY <1>1, <2>1 DEF SharesInv
<1>4. /\ Tracked' = Tracked \cup {i}
      /\ \A j \in Tracked \ {i} : order_tracker'[j] = order_tracker[j]
      /\ order_tracker'[i].remaining = o.qty
  BY <1>1, <1>3 DEF Remember, Tracked
<1>5. /\ IsFiniteSet(Tracked')
      /\ SharesLeft(order_tracker', Tracked') = SharesLeft(order_tracker, Tracked) + o.qty - 0
  <2>1. Tracked' \ {i} = Tracked \ {i} /\ i \in Tracked'
    BY <1>4
  <2> QED BY <1>3, <1>4, <2>1, OneTrackedChanges DEF ReplayInv, SharesInv
<1>6. /\ stats["shares"] \in Nat /\ accepted \in Nat /\ Awaited \in Nat
      /\ SharesLeft(order_tracker, Tracked) \in Int
  BY TrackedShares DEF ReplayInv, SharesInv
<1>7. stats["shares"] + SharesLeft(order_tracker, Tracked) + Awaited <= accepted
  BY DEF SharesInv
<1> HIDE DEF o
<1>8. stats'["shares"] + SharesLeft(order_tracker', Tracked') + Awaited' <= accepted'
  BY <1>1, <1>2, <1>5, <1>6, <1>7
<1> QED BY <1>1, <1>5, <1>8 DEF SharesInv

LEMMA SharesStep ==
  ReplayInv /\ ReplayInv' /\ SharesInv /\ [ReplayNext]_allVars => SharesInv'
<1> SUFFICES ASSUME ReplayInv, ReplayInv', SharesInv, [ReplayNext]_allVars
             PROVE  SharesInv'
  OBVIOUS
<1>1. CASE \/ StockDirectory \/ AddSkipped \/ AddRejected \/ UnknownOrder
           \/ BookStep \/ UNCHANGED allVars
  <2>1. UNCHANGED <<order_tracker, handler, accepted>>
    BY <1>1 DEF StockDirectory, AddSkipped, AddRejected, UnknownOrder, BookStep, allVars,
                replayVars
  <2>2. stats'["shares"] = stats["shares"]
    BY <1>1, CountKeepsShares
    DEF StockDirectory, AddSkipped, AddRejected, UnknownOrder, BookStep, allVars, replayVars
  <2> QED BY <2>1, <2>2 DEF SharesInv, Awaited, Untracked, Tracked
<1>2. CASE ReplaceRejected
  <2>1. /\ UNCHANGED <<order_tracker, accepted>>
        /\ handler' = NoHandler
        /\ Untracked = {} /\ Untracked' = {}
    BY <1>2 DEF ReplaceRejected, Untracked
  <2>2. stats'["shares"] = stats["shares"]
    BY <1>2, CountKeepsShares DEF ReplaceRejected
  <2> QED BY <2>1, <2>2 DEF SharesInv, Awaited, Tracked
<1>3. CASE AddStart
  <2>1. PICK ref \in Ids \ announced, price \in ItchPrices, qty \in Quantities, side \in Sides :
          LET o == [id |-> ref, price |-> ToTick(price), qty |-> qty, side |-> side]
          IN accepted' = accepted + o.qty /\ handler' = [kind |-> "add", order |-> o]
    BY <1>3 DEF AddStart, BookAdd
  <2> DEFINE o == [id |-> ref, price |-> ToTick(price), qty |-> qty, side |-> side]
  <2>2. o.qty \in Nat /\ o.id \notin Tracked
    BY BookAssumption DEF ReplayInv, FeedInv
  <2>3. Untracked = {} /\ UNCHANGED order_tracker /\ pc = "idle"
    BY <1>3 DEF AddStart, Receive, Untracked
  <2>4. handler' # NoHandler
    <3>1. ToTick(price) \in Prices /\ ToTick(price) \in 0 .. MaxPriceLevels
      BY TickIsAPrice, BookAssumption DEF Prices
    <3>2. o \in Call /\ o.price \in Prices
      BY <3>1 DEF Call
    <3> HIDE DEF o
    <3>3. [kind |-> "add", order |-> o] \in [kind : {"add", "cancelled", "replace"}, order : Call]
      BY <3>2
    <3> QED BY <2>1, <3>3, ReplayAssumption DEF o
  <2>5. stats'["shares"] = stats["shares"]
    BY <1>3, CountKeepsShares DEF AddStart
  <2>6. accepted' = accepted + o.qty /\ handler'.kind # "cancelled" /\ handler'.order = o
    BY <2>1
  <2> HIDE DEF o
  <2> QED BY <2>2, <2>3, <2>4, <2>5, <2>6, AcceptedShares
<1>4. CASE ReplaceAdd
  <2> DEFINE o == handler.order
  <2>1. /\ handler # NoHandler /\ handler.kind = "cancelled"
        /\ accepted' = accepted + o.qty
        /\ handler' = [handler EXCEPT !.kind = "replace"]
        /\ UNCHANGED <<order_tracker, stats>>
    BY <1>4 DEF ReplaceAdd, BookAdd
  <2>2. handler \in Handler /\ o \in Call /\ o.id \notin Tracked
    BY <2>1 DEF ReplayInv, ReplayTypeOK, SharesInv, Handler
  <2>3. o.qty \in Nat
    <3>1. o.qty \in Quantities
      BY <2>2 DEF Call
    <3>2. \A q \in Quantities : q \in Nat
      BY BookAssumption
    <3> QED BY <3>1, <3>2
  <2>4. handler' # NoHandler /\ handler'.kind # "cancelled" /\ handler'.order = o
    BY <2>1, <2>2, ReplayAssumption DEF Handler
  <2>5. Untracked = {}
    BY <2>1 DEF Untracked
  <2> HIDE DEF o
  <2> QED BY <2>1, <2>2, <2>3, <2>4, <2>5, AcceptedShares
<1>5. CASE AddDone
  BY <1>5, AddDoneShares
<1>6. CASE Executed \/ PartialCancel
  BY <1>6, TakeSharesShares
<1>7. CASE Delete \/ ReplaceStart
  BY <1>7, ForgetStepShares
<1> QED BY <1>1, <1>2, <1>3, <1>4, <1>5, <1>6, <1>7 DEF ReplayNext

LEMMA InitShares == ReplayInit => SharesInv
<1> SUFFICES ASSUME ReplayInit PROVE SharesInv
  OBVIOUS
<1>1. Tracked = {} /\ handler = NoHandler /\ accepted = 0 /\ stats["shares"] = 0
  BY DEF ReplayInit, Tracked, Counters
<1> QED BY <1>1, SharesLeftEmpty, FS_EmptySet DEF SharesInv, Awaited, Untracked

LEMMA SharesHold == ReplaySpec => []SharesInv
BY ReplayInitInv, ReplayStepInv, InitShares, SharesStep, PTL DEF ReplaySpec

\* In every replay, what the engine has counted as traded and what it still
\* tracks never add up to more than the shares of the orders it has accepted.
THEOREM SharesStayConserved == ReplaySpec => []SharesConserved
<1>1. ReplayInv /\ SharesInv => SharesConserved
  <2> SUFFICES ASSUME ReplayInv, SharesInv PROVE SharesConserved
    OBVIOUS
  <2>1. /\ stats["shares"] \in Nat /\ accepted \in Nat /\ Awaited \in Nat
        /\ SharesLeft(order_tracker, Tracked) \in Int
    BY TrackedShares DEF ReplayInv, SharesInv
  <2>2. stats["shares"] + SharesLeft(order_tracker, Tracked) <= accepted
    BY <2>1 DEF SharesInv
  <2> QED BY <2>2 DEF SharesConserved, SharesLeft
<1> QED BY ReplayInitInv, ReplayStepInv, SharesHold, <1>1, PTL DEF ReplaySpec

-----------------------------------------------------------------------------
(* While no two orders of the feed have matched, the book is the tracker:    *)
(* every order the engine tracks that has shares left is in the book, on     *)
(* the same terms, or modify_order has just taken it out to add it again.    *)
(* An order that a call has missed is in the book as well, with what it had  *)
(* before, which is no less than the tracker has.                            *)

Held(i) == i \in Live \/ (pc = "readd" /\ i = call.id)

\* What the book has of order i, while a call runs as well.
ExactInv ==
  /\ pc # "match"
  /\ \A i \in Live \cap (Untracked \cup Tracked) :
       /\ order_map[i].price = Terms(i).price
       /\ order_map[i].side = Terms(i).side
       /\ Terms(i).remaining <= order_map[i].remaining
  /\ \A i \in Live \ missed :
       /\ i \in Untracked \cup Tracked
       /\ order_map[i] = Terms(i)
       /\ order_map[i].remaining > 0 \/ (pc = "finish" /\ i = call.id)
  /\ \A i \in (Untracked \cup Tracked) \ missed : Terms(i).remaining > 0 => Held(i)
  /\ pc = "readd" =>
       /\ handler = NoHandler
       /\ call.id \in Tracked
       /\ order_tracker[call.id] =
            [price |-> call.price, remaining |-> call.qty, side |-> call.side]
       /\ call.qty > 0

LEMMA QuietExact ==
  ASSUME ExactInv, UNCHANGED <<vars, order_tracker, missed>>, Untracked' = Untracked,
         handler' = handler \/ handler' = NoHandler
  PROVE  ExactInv'
<1>1. \A i : Terms(i)' = Terms(i)
  <2>1. CASE handler' = handler
    BY <2>1 DEF Terms, Untracked
  <2>2. CASE handler' = NoHandler
    BY <2>2 DEF Terms, Untracked
  <2> QED BY <2>1, <2>2
<1> QED BY <1>1 DEF ExactInv, Held, vars, Live, Tracked

\* add_order works on an order of which the engine holds the terms.
LEMMA AcceptExact ==
  ASSUME ReplayInv, SharesInv, ExactInv, pc = "idle", pc' # "match", Untracked = {},
         NEW o \in Call, o.id \notin Keys, o.id \notin Tracked, Accept(o),
         UNCHANGED <<order_tracker, missed>>,
         handler' # NoHandler, handler'.kind # "cancelled", handler'.order = o
  PROVE  ExactInv'
<1>1. Untracked' = {o.id} /\ Tracked' = Tracked
  BY DEF Untracked, Tracked
<1>2. /\ Live' = Live \cup {o.id}
      /\ order_map'[o.id] = [price |-> o.price, remaining |-> o.qty, side |-> o.side]
      /\ \A j \in Live : order_map'[j] = order_map[j]
      /\ pc' = "finish" /\ call' = o /\ o.id \notin Live
  BY AcceptAdds DEF Live
<1>3. /\ Terms(o.id)' = order_map'[o.id]
      /\ \A j \in Tracked : Terms(j)' = Terms(j)
  BY <1>1, <1>2 DEF Terms
<1>4. \A j \in Live' \cap (Untracked' \cup Tracked') :
        /\ order_map'[j].price = Terms(j)'.price
        /\ order_map'[j].side = Terms(j)'.side
        /\ Terms(j)'.remaining <= order_map'[j].remaining
  <2>1. \A j \in Live \cap Tracked : /\ order_map[j].price = Terms(j).price
                                    /\ order_map[j].side = Terms(j).side
                                    /\ Terms(j).remaining <= order_map[j].remaining
    BY DEF ExactInv
  <2>2. o.qty <= o.qty
    <3>1. \A q \in Quantities : q <= q
      BY BookAssumption
    <3> QED BY <3>1 DEF Call
  <2> QED BY <1>1, <1>2, <1>3, <2>1, <2>2
<1>5. \A j \in Live \ missed : /\ j \in Tracked /\ order_map[j] = Terms(j)
                               /\ order_map[j].remaining > 0
  BY DEF ExactInv
<1>6. \A j \in Tracked \ missed : Terms(j).remaining > 0 => j \in Live
  BY DEF ExactInv, Held
<1> QED BY <1>1, <1>2, <1>3, <1>4, <1>5, <1>6 DEF ExactInv, Held

LEMMA ForgetExact ==
  ASSUME ReplayInv, ExactInv, pc = "idle", Untracked = {}, Untracked' = {},
         NEW i, BookCancel(i), order_tracker' = Forget(i)
  PROVE  ExactInv'
<1>1. /\ Live \ {i} \subseteq Live' /\ Live' \subseteq Live
      /\ pc' = "idle" /\ missed \subseteq missed'
      /\ \A j \in Live' : order_map'[j] = order_map[j]
      /\ i \in Live' => i \in missed'
  BY CancelIsBookStep DEF ReplayInv
<1>2. /\ Tracked' = Tracked \ {i}
      /\ \A j \in Tracked \ {i} : order_tracker'[j] = order_tracker[j]
  BY DEF Forget, Tracked
<1>3. \A j \in Live' \ missed' :
        j \in Tracked' /\ order_map'[j] = Terms(j)' /\ order_map'[j].remaining > 0
  BY <1>1, <1>2 DEF ExactInv, Terms
<1>4. \A j \in Tracked' \ missed' : Terms(j)'.remaining > 0 => j \in Live'
  BY <1>1, <1>2 DEF ExactInv, Terms, Held
<1>5. \A j \in Live' \cap Tracked' : /\ order_map'[j].price = Terms(j)'.price
                                   /\ order_map'[j].side = Terms(j)'.side
                                   /\ Terms(j)'.remaining <= order_map'[j].remaining
  BY <1>1, <1>2 DEF ExactInv, Terms
<1> QED BY <1>1, <1>3, <1>4, <1>5 DEF ExactInv, Held

LEMMA AddDoneExact ==
  ASSUME ReplayInv, SharesInv, ExactInv, AddDone
  PROVE  ExactInv'
<1> DEFINE o == handler.order
<1>1. /\ pc = "idle" /\ UNCHANGED <<vars, missed>>
      /\ order_tracker' = Remember(o)
      /\ Untracked = {o.id} /\ Untracked' = {}
      /\ o.id \notin Tracked
  BY DEF AddDone, Untracked, SharesInv
<1>2. /\ Tracked' = Tracked \cup {o.id}
      /\ \A j \in Tracked' :
           order_tracker'[j] = IF j = o.id THEN [price |-> o.price, remaining |-> o.qty,
                                                 side |-> o.side]
                                           ELSE order_tracker[j]
  BY <1>1 DEF Remember, Tracked
<1>3. \A j \in Tracked' : Terms(j)' = Terms(j)
  BY <1>1, <1>2 DEF Terms
<1>4. UNCHANGED <<order_map, pc, call, missed>> /\ Live' = Live
  BY <1>1 DEF vars, Live
<1>5. Untracked \cup Tracked = Untracked' \cup Tracked'
  BY <1>1, <1>2
<1> QED BY <1>1, <1>2, <1>3, <1>4, <1>5 DEF ExactInv, Held

\* modify_order at the tracked price: in place for fewer shares than the order
\* has, out of the book for as many, and not at all if the map misses it.
LEMMA TakeSharesExact ==
  ASSUME ReplayInv, ExactInv, NEW i \in Tracked, NEW asked \in Quantities,
         TakeShares(i, asked), pc = "idle", handler = NoHandler, handler' = NoHandler
  PROVE  ExactInv'
<1> DEFINE left == Wrap(order_tracker[i].remaining - Taken(i, asked))
<1>1. Untracked = {} /\ Untracked' = {}
  BY DEF Untracked
<1>2. left \in Nat /\ left <= order_tracker[i].remaining
  BY KeepsQuantity DEF ReplayInv
<1>3. CASE BookCancel(i) /\ order_tracker' = Forget(i)
  BY <1>1, <1>3, ForgetExact
<1>4. CASE /\ left # 0
           /\ BookModify(i, order_tracker[i].price, left)
           /\ order_tracker' = [order_tracker EXCEPT ![i].remaining = left]
  <2> DEFINE p == order_tracker[i].price
             Above(j) == /\ order_map[j].price = order_tracker[j].price
                         /\ order_map[j].side = order_tracker[j].side
                         /\ order_tracker[j].remaining <= order_map[j].remaining
  <2> HIDE DEF left
  <2>1. /\ order_tracker \in [Tracked -> TrackedOrder]
        /\ order_map \in [Live -> Order]
    BY DEF ReplayInv, ReplayTypeOK, TrackedOrder, IndInv, TypeOK
  <2>2. /\ Tracked' = Tracked
        /\ \A j \in Tracked \ {i} : order_tracker'[j] = order_tracker[j]
        /\ order_tracker'[i] = [price |-> p, remaining |-> left, side |-> order_tracker[i].side]
    BY <1>4, <2>1 DEF Tracked, TrackedOrder
  <2>3. order_tracker[i].remaining \in Nat /\ order_tracker[i].remaining > 0
    <3>1. order_tracker[i].remaining \in Nat
      <4>1. \A q \in Quantities : q \in Nat
        BY BookAssumption
      <4> QED BY <2>1, <4>1 DEF TrackedOrder
    <3> QED BY <1>2, <1>4, <3>1
  <2>4. \A j : Terms(j)' = order_tracker'[j] /\ Terms(j) = order_tracker[j]
    BY <1>1 DEF Terms
  <2>5. \A j \in Live \ missed : /\ j \in Tracked /\ order_map[j] = order_tracker[j]
                                 /\ order_map[j].remaining > 0
    BY <1>1, <2>4 DEF ExactInv
  <2>6. \A j \in Tracked \ missed : order_tracker[j].remaining > 0 => j \in Live
    BY <1>1, <2>4 DEF ExactInv, Held
  <2>7. \A j \in Live \cap Tracked : Above(j)
    BY <1>1, <2>4 DEF ExactInv
  <2>8. /\ left \in Int /\ left > 0
        /\ \A j \in Live : order_map[j].remaining \in Int
    <3>1. \A q \in Quantities : q \in Int
      BY BookAssumption
    <3> QED BY <1>2, <1>4, <2>1, <3>1 DEF Order
  <2>9. CASE /\ i \in Findable
             /\ ModifyInPlace
             /\ order_map' = [order_map EXCEPT ![i].remaining = left]
             /\ UNCHANGED missed
    <3>1. pc' = "idle" /\ Live' = Live /\ i \in Live
      BY <2>9 DEF ModifyInPlace, Findable, Live
    <3>2. Above(i)
      BY <2>7, <3>1
    <3>3. /\ \A j \in Live \ {i} : order_map'[j] = order_map[j]
          /\ order_map'[i] = order_tracker'[i]
      BY <2>1, <2>2, <2>9, <3>1, <3>2 DEF Order, TrackedOrder
    <3>4. \A j \in Live' \ missed' : /\ j \in Tracked' /\ order_map'[j] = order_tracker'[j]
                                     /\ order_map'[j].remaining > 0
      BY <2>2, <2>5, <2>8, <2>9, <3>1, <3>3
    <3>5. \A j \in Tracked' \ missed' : order_tracker'[j].remaining > 0 => j \in Live'
      BY <2>2, <2>6, <2>9, <3>1
    <3>6. \A j \in Live' \cap Tracked' : /\ order_map'[j].price = order_tracker'[j].price
                                        /\ order_map'[j].side = order_tracker'[j].side
                                        /\ order_tracker'[j].remaining <= order_map'[j].remaining
      BY <2>2, <2>7, <2>8, <3>1, <3>3
    <3> QED BY <1>1, <2>4, <3>1, <3>4, <3>5, <3>6 DEF ExactInv, Held
  <2>10. CASE /\ ModifyReAdd
              /\ call' = [id |-> i, price |-> p, qty |-> left, side |-> order_map[i].side]
              /\ UNCHANGED missed
    <3>1. /\ pc' = "readd" /\ i \in Live /\ Live' = Live \ {i}
          /\ \A j \in Live' : order_map'[j] = order_map[j]
      BY <2>10, ReAddStarts DEF ReplayInv
    <3>2. /\ call'.id = i
          /\ order_tracker'[i] = [price |-> call'.price, remaining |-> call'.qty,
                                  side |-> call'.side]
          /\ call'.qty > 0
      BY <2>2, <2>7, <2>8, <2>10, <3>1
    <3>3. \A j \in Live' \ missed' : /\ j \in Tracked' /\ order_map'[j] = order_tracker'[j]
                                     /\ order_map'[j].remaining > 0
      BY <2>2, <2>5, <2>10, <3>1
    <3>4. \A j \in Tracked' \ missed' : order_tracker'[j].remaining > 0 => j \in Live' \/ j = i
      BY <2>2, <2>6, <2>10, <3>1
    <3>5. \A j \in Live' \cap Tracked' : /\ order_map'[j].price = order_tracker'[j].price
                                        /\ order_map'[j].side = order_tracker'[j].side
                                        /\ order_tracker'[j].remaining <= order_map'[j].remaining
      BY <2>2, <2>7, <3>1
    <3> QED BY <1>1, <2>2, <2>4, <3>1, <3>2, <3>3, <3>4, <3>5 DEF ExactInv, Held
  <2>11. CASE BookMisses(i)
    <3>1. /\ pc' = "idle" /\ Live' = Live /\ order_map' = order_map
          /\ missed \subseteq missed' /\ (i \in Live => i \in missed')
      BY <2>11, MissIsStutter DEF vars
    <3>2. \A j \in Live' \ missed' : /\ j \in Tracked' /\ order_map'[j] = order_tracker'[j]
                                     /\ order_map'[j].remaining > 0
      BY <2>2, <2>5, <3>1
    <3>3. \A j \in Tracked' \ missed' : order_tracker'[j].remaining > 0 => j \in Live'
      BY <2>2, <2>3, <2>6, <3>1
    <3>4. \A j \in Live' \cap Tracked' : /\ order_map'[j].price = order_tracker'[j].price
                                        /\ order_map'[j].side = order_tracker'[j].side
                                        /\ order_tracker'[j].remaining <= order_map'[j].remaining
      BY <1>2, <2>2, <2>3, <2>7, <2>8, <3>1
    <3> QED BY <1>1, <2>4, <3>1, <3>2, <3>3, <3>4 DEF ExactInv, Held
  <2> QED BY <1>4, <2>9, <2>10, <2>11 DEF BookModify
<1> QED BY <1>3, <1>4 DEF TakeShares

\* The steps of a call.
LEMMA BookStepExact ==
  ASSUME ReplayInv, RoomInv, ExactInv, pc' # "match", BookStep
  PROVE  ExactInv'
<1>1. Proceed /\ UNCHANGED <<handler, order_tracker, missed>>
  BY DEF BookStep
<1>2. /\ Untracked' = Untracked /\ Tracked' = Tracked
      /\ \A j : Terms(j)' = Terms(j)
  BY <1>1 DEF Untracked, Terms, Tracked
<1>3. ~ (MatchFill \/ MatchFilled \/ MatchExhausted)
  BY DEF ExactInv, MatchFill, MatchFilled, MatchExhausted
<1>4. CASE RestRemainder
  <2>1. pc = "finish" /\ pc' = "idle" /\ UNCHANGED order_map /\ order_map[call.id].remaining > 0
    BY <1>4 DEF RestRemainder
  <2> QED BY <1>1, <1>2, <2>1 DEF ExactInv, Held, Live
<1>5. CASE ReclaimFilled
  <2>1. /\ pc = "finish" /\ pc' = "idle"
        /\ Live' = Live \ {call.id}
        /\ \A j \in Live' : order_map'[j] = order_map[j]
        /\ order_map[call.id].remaining = 0
        /\ call.id \in Live
    BY <1>5 DEF ReclaimFilled, Erase, Live, ReplayInv, IndInv, CallOK
  <2>2. call.id \notin missed => Terms(call.id).remaining = 0
    BY <2>1 DEF ExactInv
  <2>3. \A j \in Live' \ missed : /\ j \in Untracked' \cup Tracked' /\ order_map'[j] = Terms(j)'
                         /\ order_map'[j].remaining > 0
    BY <1>2, <2>1 DEF ExactInv
  <2>4. \A j \in (Untracked' \cup Tracked') \ missed :
          Terms(j)'.remaining > 0 => j \in Live'
    BY <1>2, <2>1, <2>2 DEF ExactInv, Held
  <2>5. \A j \in Live' \cap (Untracked' \cup Tracked') :
          /\ order_map'[j].price = Terms(j)'.price
          /\ order_map'[j].side = Terms(j)'.side
          /\ Terms(j)'.remaining <= order_map'[j].remaining
    BY <1>2, <2>1 DEF ExactInv
  <2> QED BY <1>1, <2>1, <2>3, <2>4, <2>5 DEF ExactInv, Held
<1>6. CASE ReAdd
  <2>1. pc = "readd" /\ call \in Call /\ call.id \notin Keys /\ Accept(call)
    BY <1>6 DEF ReAdd, ReplayInv, IndInv, CallOK
  <2>2. /\ Live' = Live \cup {call.id}
        /\ order_map'[call.id] = [price |-> call.price, remaining |-> call.qty,
                                  side |-> call.side]
        /\ \A j \in Live : order_map'[j] = order_map[j]
        /\ pc' = "finish" /\ call' = call /\ call.id \notin Live
    BY <2>1, AcceptAdds DEF Live
  <2>3. Untracked = {} /\ call.id \in Tracked /\ Terms(call.id) = order_map'[call.id]
        /\ order_map'[call.id].remaining > 0
    BY <2>1, <2>2 DEF ExactInv, Untracked, Terms
  <2>4. \A j \in Live' \ missed :
          /\ j \in Untracked' \cup Tracked' /\ order_map'[j] = Terms(j)'
          /\ order_map'[j].remaining > 0
    BY <1>2, <2>1, <2>2, <2>3 DEF ExactInv
  <2>5. \A j \in (Untracked' \cup Tracked') \ missed :
          Terms(j)'.remaining > 0 => j \in Live'
    BY <1>2, <2>1, <2>2 DEF ExactInv, Held
  <2>6. \A j \in Live' \cap (Untracked' \cup Tracked') :
          /\ order_map'[j].price = Terms(j)'.price
          /\ order_map'[j].side = Terms(j)'.side
          /\ Terms(j)'.remaining <= order_map'[j].remaining
    <3>1. call.qty <= call.qty
      <4>1. \A q \in Quantities : q <= q
        BY BookAssumption
      <4> QED BY <2>1, <4>1 DEF Call
    <3>2. \A j \in Live \cap (Untracked \cup Tracked) :
            /\ order_map[j].price = Terms(j).price
            /\ order_map[j].side = Terms(j).side
            /\ Terms(j).remaining <= order_map[j].remaining
      BY DEF ExactInv
    <3> QED BY <1>2, <2>2, <2>3, <3>1, <3>2
  <2> QED BY <1>1, <2>2, <2>4, <2>5, <2>6 DEF ExactInv, Held
<1>7. CASE ReAddRejected
  <2>1. pc = "readd" /\ (call.price = MaxPriceLevels \/ ~ HasRoom)
    BY <1>7 DEF ReAddRejected
  <2>2. HasRoom
    BY <2>1 DEF RoomInv, HasRoom
  <2>3. call.price \in Prices
    <3>1. /\ call.id \in Tracked
          /\ order_tracker[call.id] =
               [price |-> call.price, remaining |-> call.qty, side |-> call.side]
      BY <2>1 DEF ExactInv
    <3>2. order_tracker[call.id].price \in Prices
      BY <3>1 DEF ReplayInv, ReplayTypeOK
    <3> QED BY <3>1, <3>2
  <2> QED BY <2>1, <2>2, <2>3, BookAssumption DEF Prices
<1> QED BY <1>1, <1>3, <1>4, <1>5, <1>6, <1>7 DEF Proceed

LEMMA ExactStep ==
  /\ ReplayInv /\ RoomInv /\ SharesInv /\ (~ matched => ExactInv)
  /\ [ReplayNext]_allVars
  => (~ matched => ExactInv)'
<1> SUFFICES ASSUME ReplayInv, RoomInv, SharesInv, ~ matched => ExactInv,
                    [ReplayNext]_allVars, ~ matched'
             PROVE  ExactInv'
  OBVIOUS
<1>0. CASE UNCHANGED allVars
  <2>1. UNCHANGED <<vars, order_tracker, handler, missed, matched>>
    BY <1>0 DEF allVars, replayVars
  <2>2. Untracked' = Untracked
    BY <2>1 DEF Untracked
  <2> QED BY <2>1, <2>2, QuietExact
<1>1. CASE ReplayNext
  <2>0. NoteMatch
    BY <1>1 DEF ReplayNext, StockDirectory, AddSkipped, AddStart, AddRejected, AddDone,
                Executed, PartialCancel, UnknownOrder, Delete, ReplaceStart, ReplaceAdd,
                ReplaceRejected, BookStep
  <2>a. ExactInv /\ pc' # "match"
    BY <2>0 DEF NoteMatch
  <2>1. CASE StockDirectory \/ AddSkipped \/ AddRejected \/ UnknownOrder
    <3>1. UNCHANGED <<vars, order_tracker, handler, missed>>
      BY <2>1 DEF StockDirectory, AddSkipped, AddRejected, UnknownOrder
    <3>2. Untracked' = Untracked
      BY <3>1 DEF Untracked
    <3> QED BY <2>a, <3>1, <3>2, QuietExact
  <2>2. CASE ReplaceRejected
    BY <2>a, <2>2, QuietExact DEF ReplaceRejected, Untracked
  <2>3. CASE AddStart
    <3>1. PICK ref \in Ids \ announced, price \in ItchPrices, qty \in Quantities, side \in Sides :
            LET o == [id |-> ref, price |-> ToTick(price), qty |-> qty, side |-> side]
            IN Accept(o) /\ handler' = [kind |-> "add", order |-> o]
      BY <2>3 DEF AddStart, BookAdd
    <3> DEFINE o == [id |-> ref, price |-> ToTick(price), qty |-> qty, side |-> side]
    <3>2. o \in Call /\ o.id \notin Keys /\ o.id \notin Tracked
      <4>1. ToTick(price) \in 0 .. MaxPriceLevels
        BY TickIsAPrice, BookAssumption DEF Prices
      <4> QED BY <4>1 DEF Call, ReplayInv, FeedInv
    <3>3. Untracked = {} /\ UNCHANGED <<order_tracker, missed>> /\ pc = "idle"
      BY <2>3 DEF AddStart, Receive, Untracked
    <3>4. handler' # NoHandler
      BY <2>3, AddStartInv, <3>1, <3>2, ReplayAssumption
    <3>5. handler'.kind # "cancelled" /\ handler'.order = o /\ Accept(o)
      BY <3>1
    <3> HIDE DEF o
    <3> QED BY <2>a, <3>2, <3>3, <3>4, <3>5, AcceptExact
  <2>4. CASE ReplaceAdd
    <3> DEFINE o == handler.order
    <3>1. /\ handler # NoHandler /\ handler.kind = "cancelled" /\ Accept(o) /\ pc = "idle"
          /\ handler' = [handler EXCEPT !.kind = "replace"]
          /\ UNCHANGED <<order_tracker, missed>>
      BY <2>4 DEF ReplaceAdd, BookAdd
    <3>2. handler \in Handler /\ o \in Call /\ o.id \notin Keys /\ o.id \notin Tracked
      BY <3>1 DEF ReplayInv, ReplayTypeOK, FeedInv, SharesInv, Handler
    <3>3. handler' # NoHandler /\ handler'.kind # "cancelled" /\ handler'.order = o
      BY <3>1, <3>2, ReplayAssumption DEF Handler
    <3>4. Untracked = {}
      BY <3>1 DEF Untracked
    <3> HIDE DEF o
    <3> QED BY <2>a, <3>1, <3>2, <3>3, <3>4, AcceptExact
  <2>5. CASE AddDone
    BY <2>a, <2>5, AddDoneExact
  <2>6. CASE Executed \/ PartialCancel
    BY <2>a, <2>6, TakeSharesExact DEF Executed, PartialCancel, Receive
  <2>7. CASE Delete \/ ReplaceStart
    <3>1. PICK i : BookCancel(i) /\ order_tracker' = Forget(i)
      BY <2>7 DEF Delete, ReplaceStart
    <3>2. pc = "idle" /\ Untracked = {} /\ Untracked' = {}
      BY <2>7 DEF Delete, ReplaceStart, Receive, Untracked
    <3> QED BY <2>a, <3>1, <3>2, ForgetExact
  <2>8. CASE BookStep
    BY <2>a, <2>8, BookStepExact
  <2> QED BY <1>1, <2>1, <2>2, <2>3, <2>4, <2>5, <2>6, <2>7, <2>8 DEF ReplayNext
<1> QED BY <1>0, <1>1

LEMMA ExactHolds == ReplaySpec => [](ReplayInv /\ RoomInv /\ SharesInv /\ (~ matched => ExactInv))
<1>1. ReplayInit => ExactInv
  BY DEF ReplayInit, Init, ExactInv, Live, Untracked, Tracked
<1>2. ReplayInit => RoomInv
  BY InitRoom DEF ReplayInit
<1>3. ReplayInv /\ RoomInv /\ [ReplayNext]_allVars => RoomInv'
  BY ReplayStepInv, StepRoom DEF ReplayInv
<1> QED BY ReplayInitInv, ReplayStepInv, InitShares, SharesStep, ExactStep, <1>1, <1>2, <1>3,
           PTL DEF ReplaySpec

\* As long as the orders of the feed never cross in ticks, the book between two
\* messages is the tracker, order by order, but for the orders that a call has
\* missed in the order map: nothing else is lost, left behind or given other
\* terms by any handler.
THEOREM ReplayStaysExact == ReplaySpec => []ReplayExact
<1>1. ReplayInv /\ (~ matched => ExactInv) => ReplayExact
  <2> SUFFICES ASSUME ReplayInv, ExactInv, pc = "idle", handler = NoHandler
               PROVE  Restrict(order_map, Live \ missed) =
                        [i \in {j \in Tracked \ missed : order_tracker[j].remaining > 0}
                           |-> order_tracker[i]]
    BY DEF ReplayExact
  <2>1. Untracked = {} /\ \A i : Terms(i) = order_tracker[i]
    BY DEF Untracked, Terms
  <2>2. \A i \in Live \ missed : /\ i \in Tracked /\ order_map[i] = order_tracker[i]
                                 /\ order_tracker[i].remaining > 0
    BY <2>1 DEF ExactInv
  <2>3. Live \ missed = {j \in Tracked \ missed : order_tracker[j].remaining > 0}
    BY <2>1, <2>2 DEF ExactInv, Held
  <2>4. Restrict(order_map, Live \ missed) = [i \in Live \ missed |-> order_map[i]]
    BY DEF Restrict
  <2> QED BY <2>2, <2>3, <2>4
<1> QED BY <1>1, ExactHolds, PTL

\* Until orders of the feed cross in ticks, an order that loses a part of its
\* shares keeps its place: modify_order finds fewer shares asked for than the
\* book has, at the book's price.
THEOREM PartialLossKeepsPlace == ReplaySpec => PlaceKept
<1> DEFINE Kept == ~ matched => \A i \in Live \cap Tracked : LosesPart(i) => i \in DOMAIN order_map'
<1>1. ReplayInv /\ SharesInv /\ (~ matched => ExactInv) /\ [ReplayNext]_allVars => [Kept]_allVars
  <2> SUFFICES ASSUME ReplayInv, SharesInv, ~ matched => ExactInv, ReplayNext
               PROVE  Kept
    OBVIOUS
  <2> SUFFICES ASSUME ExactInv, NEW i \in Live \cap Tracked, LosesPart(i)
               PROVE  i \in DOMAIN order_map'
    OBVIOUS
  <2>0. order_tracker[i].remaining \in Int
    <3>1. \A q \in Quantities : q \in Int
      BY BookAssumption
    <3> QED BY <3>1 DEF ReplayInv, ReplayTypeOK
  <2>1. ASSUME order_tracker'[i] = order_tracker[i] PROVE FALSE
    BY <2>0, <2>1 DEF LosesPart
  <2>2. CASE \/ StockDirectory \/ AddSkipped \/ AddRejected \/ UnknownOrder \/ AddStart
             \/ ReplaceAdd \/ ReplaceRejected \/ BookStep
    BY <2>1, <2>2 DEF StockDirectory, AddSkipped, AddRejected, UnknownOrder, AddStart,
                      ReplaceAdd, ReplaceRejected, BookStep
  <2>3. CASE AddDone
    <3>1. i # handler.order.id /\ order_tracker' = Remember(handler.order)
      BY <2>3 DEF AddDone, SharesInv
    <3> QED BY <2>1, <3>1 DEF Remember
  <2>4. CASE Delete \/ ReplaceStart
    <3>1. PICK j : order_tracker' = Forget(j)
      BY <2>4 DEF Delete, ReplaceStart
    <3>2. i \in DOMAIN order_tracker'
      BY DEF LosesPart
    <3> QED BY <2>1, <3>1, <3>2 DEF Forget
  <2>5. CASE Executed \/ PartialCancel
    <3>1. PICK j \in Tracked, asked \in Quantities : TakeShares(j, asked)
      BY <2>5 DEF Executed, PartialCancel
    <3>2. pc = "idle" /\ handler = NoHandler
      BY <2>5 DEF Executed, PartialCancel, Receive
    <3> DEFINE left == Wrap(order_tracker[j].remaining - Taken(j, asked))
               p == order_tracker[j].price
    <3>3. CASE order_tracker' = Forget(j)
      <4>1. i \in DOMAIN order_tracker'
        BY DEF LosesPart
      <4> QED BY <2>1, <3>3, <4>1 DEF Forget
    <3>4. CASE /\ BookModify(j, p, left)
               /\ order_tracker' = [order_tracker EXCEPT ![j].remaining = left]
      <4> HIDE DEF left
      <4>1. order_tracker \in [Tracked -> TrackedOrder]
        BY DEF ReplayInv, ReplayTypeOK, TrackedOrder
      <4>2. i = j
        BY <2>1, <3>4, <4>1 DEF Tracked
      <4>3. left < order_tracker[i].remaining
        BY <3>4, <4>1, <4>2 DEF LosesPart, Tracked, TrackedOrder
      <4>4. /\ order_map[i].price = order_tracker[i].price
            /\ order_tracker[i].remaining <= order_map[i].remaining
            /\ order_map[i].remaining \in Int /\ left \in Int
        <5>1. \A q \in 0 .. QtyModulus - 1 : q \in Int
          BY BookAssumption
        <5>2. order_map[i].remaining \in 0 .. QtyModulus - 1
          BY DEF ReplayInv, IndInv, TypeOK, Order
        <5>3. left \in Nat
          BY <3>1, KeepsQuantity DEF ReplayInv, left
        <5> QED BY <3>2, <5>1, <5>2, <5>3 DEF ExactInv, Terms, Untracked
      <4>5. CASE order_map' = [order_map EXCEPT ![j].remaining = left]
        BY <4>5 DEF Live
      <4>6. CASE /\ ModifyReAdd
                 /\ call' = [id |-> j, price |-> p, qty |-> left, side |-> order_map[j].side]
        <5>1. ~ (p = order_map[j].price /\ left < order_map[j].remaining)
          BY <4>6, ReAddStarts DEF ReplayInv
        <5> QED BY <2>0, <4>2, <4>3, <4>4, <5>1
      <4>7. CASE BookMisses(j)
        BY <4>7, MissIsStutter DEF Live
      <4> QED BY <3>4, <4>5, <4>6, <4>7 DEF BookModify
    <3> QED BY <3>1, <3>3, <3>4 DEF TakeShares
  <2> QED BY <2>2, <2>3, <2>4, <2>5 DEF ReplayNext
<1> QED BY <1>1, ExactHolds, PTL DEF ReplaySpec, PlaceKept

=============================================================================
