------------------------------ MODULE OrderBook ------------------------------
(***************************************************************************)
(* The matching engine of order_book.h: add_order, cancel_order,           *)
(* modify_order, match and the cached best prices, with the order map, the *)
(* order pool and the event queue they drive.                              *)
(*                                                                         *)
(* A price level is the sequence of the ids linked from head to tail and   *)
(* its 32-bit total, and the pool is its in_use counter.  An operation of  *)
(* the engine is a call with a control state, because the event callback   *)
(* is called inside it; calls never overlap (memory_pool.h:12).  One fill, *)
(* with the removal of an order it completes, is one step.                 *)
(*                                                                         *)
(* The hash table of order_map.h (OrderMap.tla models it slot by slot) is  *)
(* not reliable: an erase may leave another key where no search meets it.  *)
(* Here it is what the table does to its users: order_map has the orders   *)
(* that are in the book, stranded those of them that find and erase miss,  *)
(* and leftover the entries that an erase has missed, whose orders are     *)
(* gone and whose pointers dangle.                                         *)
(*                                                                         *)
(* Callers give each new order an id that no key of the table has.  A call *)
(* for a leftover id returns false; an insert could let the search for it  *)
(* meet the dangling pointer, and what the code then does is not modelled. *)
(*                                                                         *)
(* A definition whose name ends in Slip is not part of the model: it is    *)
(* the definition after it with a plausible bug, for the mutation runs.    *)
(***************************************************************************)
EXTENDS Integers, FiniteSets, FiniteSetsExt, Functions, SequencesExt

CONSTANTS Ids,             \* order ids a caller may use; 0 is never one of them
          MaxPriceLevels,  \* MAX_PRICE_LEVELS: prices are 0 .. MaxPriceLevels-1
          Quantities,      \* quantities a caller may pass, 0 included
          QtyModulus,      \* 2^32, the modulus of Quantity and of level totals
          PoolSize,        \* ORDER_POOL_SIZE
          MapSize,         \* ORDER_MAP_SIZE
          QueueSize,       \* EVENT_QUEUE_SIZE, of which QueueSize-1 are usable
          MaxLost,         \* a bound: keys the order map may have lost at a time
          NoCall           \* no operation is in progress

Sides == {"Buy", "Sell"}

Call == [id : Ids, price : 0 .. MaxPriceLevels, qty : Quantities, side : Sides]

ASSUME BookAssumption ==
  /\ MaxPriceLevels \in Nat \ {0}
  /\ QtyModulus \in Nat \ {0}
  /\ Quantities \subseteq 0 .. QtyModulus - 1
  /\ PoolSize \in Nat \ {0}
  /\ MapSize \in Nat \ {0}
  /\ QueueSize \in Nat \ {0}
  /\ MaxLost \in Nat
  /\ NoCall \notin Call

VARIABLES order_map,   \* live id -> its price, remaining quantity and side
          stranded,    \* live ids that a search of the table misses
          leftover,    \* ids in the table whose orders have been released
          in_use,      \* orders taken from the pool
          levels,      \* bids_ ("Buy") and asks_ ("Sell"), by price
          best,        \* best_bid_ and best_ask_
          total_qty,   \* bid_total_qty_ and ask_total_qty_
          queue_len,   \* events held by event_queue_
          pc,          \* where the operation in progress stands
          call         \* the arguments of the add_order in progress

vars == <<order_map, stranded, leftover, in_use, levels, best, total_qty, queue_len,
          pc, call>>

\* The two variables of the table that say where it is wrong.
mapVars == <<stranded, leftover>>

Prices == 0 .. MaxPriceLevels - 1

\* What a caller may pass as a price: MaxPriceLevels stands for every price
\* that is out of range.
CallPrices == 0 .. MaxPriceLevels

Order == [price : Prices, remaining : 0 .. QtyModulus - 1, side : Sides]

Level == [queue : Seq(Ids), total_quantity : 0 .. QtyModulus - 1]

Opposite(s) == IF s = "Buy" THEN "Sell" ELSE "Buy"

\* Price p is better than price q for a resting order of side s.
Better(s, p, q) == IF s = "Buy" THEN p > q ELSE p < q

\* An order of side s and limit price p trades with a resting price r.
Reaches(s, p, r) == IF s = "Buy" THEN p >= r ELSE p <= r

MinOf(a, b) == IF a <= b THEN a ELSE b

\* Arithmetic on a 32-bit level total.
Wrap(n) == n % QtyModulus

Live == DOMAIN order_map

\* The keys in the slots of the table.
Keys == Live \cup leftover

\* The live orders that order_map_->find and erase meet.
Findable == Live \ stranded

\* The order that add_order has put in the map and not yet in a level.
InFlight == IF pc \in {"match", "finish"} THEN {call.id} ELSE {}

-----------------------------------------------------------------------------
(* Price levels (price_level.h): an intrusive list with a running total.   *)

EmptyLevel == [queue |-> << >>, total_quantity |-> 0]

EmptyAt(lv, s, p) == lv[s][p].queue = << >>

PushBackSlip(level, i, qty) ==
  [queue |-> <<i>> \o level.queue,
   total_quantity |-> Wrap(level.total_quantity + qty)]

\* push_back
PushBack(level, i, qty) ==
  [queue |-> Append(level.queue, i),
   total_quantity |-> Wrap(level.total_quantity + qty)]

PositionIn(queue, i) == CHOOSE k \in DOMAIN queue : queue[k] = i

UnlinkSlip(level, i, qty) ==
  [level EXCEPT !.queue = RemoveAt(@, PositionIn(@, i))]

\* remove
Unlink(level, i, qty) ==
  [queue |-> RemoveAt(level.queue, PositionIn(level.queue, i)),
   total_quantity |-> Wrap(level.total_quantity - qty)]

FilledSlip(remaining, fill) == fill > 0 /\ remaining = fill

\* is_filled, after a fill.
Filled(remaining, fill) == remaining = fill

FillHeadSlip(level, fill, filled) ==
  [level EXCEPT !.total_quantity = Wrap(@ - fill)]

\* One fill against the order at the head, which leaves the list once filled.
FillHead(level, fill, filled) ==
  [queue |-> IF filled THEN Tail(level.queue) ELSE level.queue,
   total_quantity |-> Wrap(level.total_quantity - fill)]

-----------------------------------------------------------------------------
(* The order map, the cached best price and the event queue.               *)

\* What is left of the map when an order leaves the book, and when one enters.
Erase(om, i) == [j \in DOMAIN om \ {i} |-> om[j]]

Insert(om, i, o) == [j \in DOMAIN om \cup {i} |-> IF j = i THEN o ELSE om[j]]

\* order_map_->insert fills the first empty slot on the way: every key that a
\* search met is still met, and one behind the gap may be met again.
TableInsert ==
  /\ stranded' \in SUBSET stranded
  /\ UNCHANGED leftover

\* order_map_->erase, for a key that it finds: backward_shift may stop early,
\* at a key that is where its search begins, and strand keys displaced past it.
TableErase(i) ==
  /\ i \in Findable
  /\ \E lost \in SUBSET (Findable \ {i}) :
       /\ lost # {} => /\ Keys \ ({i} \cup stranded \cup lost) # {}
                       /\ Cardinality(stranded \cup leftover \cup lost) <= MaxLost
       /\ stranded' = stranded \cup lost
  /\ UNCHANGED leftover

\* The same call for a key it misses: it returns false, which the callers that
\* release the order (order_book.h:195, 313) ignore, and the entry stays.
TableMiss(i) ==
  /\ i \in stranded
  /\ stranded' = stranded \ {i}
  /\ leftover' = leftover \cup {i}

\* erase, with its result ignored.
TableEraseUnchecked(i) == TableErase(i) \/ TableMiss(i)

\* Walking the cached best price of side s away from the spread, from price
\* "from", ends at b: over empty levels, at most as far as "stop".
Walk(lv, s, from, stop, b) ==
  IF s = "Sell"
  THEN /\ b \in from .. stop
       /\ \A p \in from .. b - 1 : EmptyAt(lv, s, p)
       /\ b < stop => ~ EmptyAt(lv, s, b)
  ELSE /\ b \in stop .. from
       /\ \A p \in b + 1 .. from : EmptyAt(lv, s, p)
       /\ b > stop => ~ EmptyAt(lv, s, b)

\* update_best_bid and update_best_ask stop at the last price; match lets
\* best_ask_ run past it.
LastPrice(s) == IF s = "Sell" THEN MaxPriceLevels - 1 ELSE 0
PastLast(s)  == IF s = "Sell" THEN MaxPriceLevels ELSE 0

\* The event goes to the callback, which changes nothing here, and to a queue
\* that nothing pops: push is refused when full and the refusal is ignored.
Publish == queue_len' = MinOf(queue_len + 1, QueueSize - 1)

-----------------------------------------------------------------------------
(* add_order                                                               *)

BestTradesSlip(s, p) ==
  /\ IF s = "Buy" THEN p > best["Sell"] ELSE p < best["Buy"]
  /\ ~ EmptyAt(levels, Opposite(s), best[Opposite(s)])

\* The crossing check: only the cached best level is looked at.
BestTrades(s, p) ==
  /\ Reaches(s, p, best[Opposite(s)])
  /\ ~ EmptyAt(levels, Opposite(s), best[Opposite(s)])

\* acquire and insert succeed; leftover entries take up room in the table.
HasRoom == in_use < PoolSize /\ Cardinality(Keys) < MapSize

AcceptSlip(c) ==
  /\ c.price <= MaxPriceLevels
  /\ HasRoom
  /\ order_map' = Insert(order_map, c.id, [price     |-> c.price,
                                           remaining |-> c.qty,
                                           side      |-> c.side])
  /\ TableInsert
  /\ in_use' = in_use + 1
  /\ pc' = IF BestTrades(c.side, c.price) THEN "match" ELSE "finish"
  /\ call' = c
  /\ UNCHANGED <<levels, best, total_qty, queue_len>>

\* Up to the crossing check: the order is in the pool and the map only.
Accept(c) ==
  /\ c.price < MaxPriceLevels
  /\ HasRoom
  /\ order_map' = Insert(order_map, c.id, [price     |-> c.price,
                                           remaining |-> c.qty,
                                           side      |-> c.side])
  /\ TableInsert
  /\ in_use' = in_use + 1
  /\ pc' = IF BestTrades(c.side, c.price) THEN "match" ELSE "finish"
  /\ call' = c
  /\ UNCHANGED <<levels, best, total_qty, queue_len>>

\* A call with a price out of range, or with no pool slot or no map slot left,
\* returns false and leaves the book as it was: no step.
AddOrder ==
  /\ pc = "idle"
  /\ \E c \in Call : c.id \notin Keys /\ Accept(c)

RestRemainderSlip ==
  LET o == order_map[call.id] IN
  /\ pc = "finish"
  /\ o.remaining > 0
  /\ levels' = [levels EXCEPT ![o.side][o.price] = PushBack(@, call.id, o.remaining)]
  /\ total_qty' = [total_qty EXCEPT ![o.side] = @ + o.remaining]
  /\ Publish
  /\ pc' = "idle"
  /\ call' = NoCall
  /\ UNCHANGED <<order_map, mapVars, in_use, best>>

\* What is left of the order rests at its price; Ack.
RestRemainder ==
  LET o == order_map[call.id] IN
  /\ pc = "finish"
  /\ o.remaining > 0
  /\ levels' = [levels EXCEPT ![o.side][o.price] = PushBack(@, call.id, o.remaining)]
  /\ total_qty' = [total_qty EXCEPT ![o.side] = @ + o.remaining]
  /\ best' = [best EXCEPT ![o.side] = IF Better(o.side, o.price, @) THEN o.price ELSE @]
  /\ Publish
  /\ pc' = "idle"
  /\ call' = NoCall
  /\ UNCHANGED <<order_map, mapVars, in_use>>

ReclaimFilledSlip ==
  /\ pc = "finish"
  /\ order_map[call.id].remaining = 0
  /\ order_map' = Erase(order_map, call.id)
  /\ TableEraseUnchecked(call.id)
  /\ Publish
  /\ pc' = "idle"
  /\ call' = NoCall
  /\ UNCHANGED <<levels, best, total_qty, in_use>>

\* A fully matched order goes back to the pool without ever resting; Ack.
ReclaimFilled ==
  /\ pc = "finish"
  /\ order_map[call.id].remaining = 0
  /\ order_map' = Erase(order_map, call.id)
  /\ TableEraseUnchecked(call.id)
  /\ in_use' = in_use - 1
  /\ Publish
  /\ pc' = "idle"
  /\ call' = NoCall
  /\ UNCHANGED <<levels, best, total_qty>>

-----------------------------------------------------------------------------
(* match                                                                   *)

\* The level at b, where the walk of the opposite best price has ended, trades
\* with an order of side s and limit price p.
LevelTrades(s, p, b) ==
  /\ b < MaxPriceLevels
  /\ Reaches(s, p, b)
  /\ ~ EmptyAt(levels, Opposite(s), b)

\* One pass of the inner loop, after the walk of the outer one when the level
\* is a new one: a fill against the oldest order there; Trade.
MatchFill ==
  LET a    == order_map[call.id]
      side == Opposite(a.side)
  IN
  /\ pc = "match"
  /\ a.remaining > 0
  /\ \E b \in CallPrices :
       /\ Walk(levels, side, best[side], PastLast(side), b)
       /\ LevelTrades(a.side, a.price, b)
       /\ best' = [best EXCEPT ![side] = b]
       /\ LET i      == Head(levels[side][b].queue)
              fill   == MinOf(a.remaining, order_map[i].remaining)
              filled == Filled(order_map[i].remaining, fill)
              om     == [order_map EXCEPT ![call.id].remaining = @ - fill,
                                          ![i].remaining = @ - fill]
          IN /\ levels' = [levels EXCEPT ![side][b] = FillHead(@, fill, filled)]
             /\ total_qty' = [total_qty EXCEPT ![side] = @ - fill]
             /\ order_map' = IF filled THEN Erase(om, i) ELSE om
             /\ IF filled THEN TableEraseUnchecked(i) ELSE UNCHANGED mapVars
             /\ in_use' = IF filled THEN in_use - 1 ELSE in_use
  /\ Publish
  /\ UNCHANGED <<pc, call>>

\* The loop ends because the aggressor is filled: best stays where it is, even
\* if the last fill has just emptied that level.
MatchFilled ==
  /\ pc = "match"
  /\ order_map[call.id].remaining = 0
  /\ pc' = "finish"
  /\ UNCHANGED <<order_map, mapVars, in_use, levels, best, total_qty, queue_len, call>>

\* The loop ends because no level is left, or the next one is out of reach.
MatchExhausted ==
  LET a    == order_map[call.id]
      side == Opposite(a.side)
  IN
  /\ pc = "match"
  /\ a.remaining > 0
  /\ \E b \in CallPrices :
       /\ Walk(levels, side, best[side], PastLast(side), b)
       /\ ~ LevelTrades(a.side, a.price, b)
       /\ best' = [best EXCEPT ![side] = b]
  /\ pc' = "finish"
  /\ UNCHANGED <<order_map, mapVars, in_use, levels, total_qty, queue_len, call>>

-----------------------------------------------------------------------------
(* cancel_order and modify_order                                           *)

WithdrawSlip(i) ==
  LET o == order_map[i]
  IN /\ levels' = [levels EXCEPT ![o.side][o.price] = Unlink(@, i, o.remaining)]
     /\ total_qty' = [total_qty EXCEPT ![o.side] = @ - o.remaining]
     /\ order_map' = Erase(order_map, i)
     /\ TableErase(i)
     /\ UNCHANGED <<in_use, best>>
     /\ Publish

\* cancel_order, for an order it finds; Cancel.  For any other it returns false
\* and leaves the book as it was: no step, even if the order is in the book.
Withdraw(i) ==
  LET o  == order_map[i]
      lv == [levels EXCEPT ![o.side][o.price] = Unlink(@, i, o.remaining)]
  IN /\ levels' = lv
     /\ total_qty' = [total_qty EXCEPT ![o.side] = @ - o.remaining]
     /\ order_map' = Erase(order_map, i)
     /\ TableErase(i)
     /\ in_use' = in_use - 1
     /\ \E b \in CallPrices :
          /\ IF o.price = best[o.side]
             THEN Walk(lv, o.side, best[o.side], LastPrice(o.side), b)
             ELSE b = best[o.side]
          /\ best' = [best EXCEPT ![o.side] = b]
     /\ Publish

CancelOrder ==
  /\ pc = "idle"
  /\ \E i \in Findable : Withdraw(i)
  /\ UNCHANGED <<pc, call>>

\* Same price and a smaller quantity: the order keeps its place; Modify.
ModifyInPlace ==
  /\ pc = "idle"
  /\ \E i \in Findable, q \in Quantities :
       LET o     == order_map[i]
           delta == o.remaining - q
       IN /\ q < o.remaining
          /\ levels' = [levels EXCEPT ![o.side][o.price].total_quantity = Wrap(@ - delta)]
          /\ total_qty' = [total_qty EXCEPT ![o.side] = @ - delta]
          /\ order_map' = [order_map EXCEPT ![i].remaining = q]
  /\ Publish
  /\ UNCHANGED <<mapVars, in_use, best, pc, call>>

\* Any other change is a cancel, then an add of the same id on the same side.
ModifyReAdd ==
  /\ pc = "idle"
  /\ \E i \in Findable, p \in CallPrices, q \in Quantities :
       /\ ~ (p = order_map[i].price /\ q < order_map[i].remaining)
       /\ Withdraw(i)
       /\ call' = [id |-> i, price |-> p, qty |-> q, side |-> order_map[i].side]
  /\ pc' = "readd"

ReAdd ==
  /\ pc = "readd"
  /\ Accept(call)

\* add_order returns false to modify_order, and the order is gone.
ReAddRejected ==
  /\ pc = "readd"
  /\ call.price = MaxPriceLevels \/ ~ HasRoom
  /\ pc' = "idle"
  /\ call' = NoCall
  /\ UNCHANGED <<order_map, mapVars, in_use, levels, best, total_qty, queue_len>>

-----------------------------------------------------------------------------

Init ==
  /\ order_map = << >>
  /\ stranded = {}
  /\ leftover = {}
  /\ in_use = 0
  /\ levels = [s \in Sides |-> [p \in Prices |-> EmptyLevel]]
  /\ best = [s \in Sides |-> IF s = "Buy" THEN 0 ELSE MaxPriceLevels - 1]
  /\ total_qty = [s \in Sides |-> 0]
  /\ queue_len = 0
  /\ pc = "idle"
  /\ call = NoCall

\* The rest of an operation, once called.
Proceed ==
  \/ MatchFill
  \/ MatchFilled
  \/ MatchExhausted
  \/ RestRemainder
  \/ ReclaimFilled
  \/ ReAdd
  \/ ReAddRejected

Next ==
  \/ AddOrder
  \/ CancelOrder
  \/ ModifyInPlace
  \/ ModifyReAdd
  \/ Proceed

Spec == Init /\ [][Next]_vars

-----------------------------------------------------------------------------
(* Queries                                                                 *)

\* get_stats and top_of_book.  The code indexes asks_ with best_ask_ unguarded;
\* BestAskIsAPrice below is about the case where that is out of bounds.
HaveBid == ~ EmptyAt(levels, "Buy", best["Buy"])
HaveAsk == best["Sell"] < MaxPriceLevels /\ ~ EmptyAt(levels, "Sell", best["Sell"])

\* The first n prices of S, each the next one in the walk from side s's best.
FirstOf(s, S, n) ==
  [k \in 1 .. MinOf(n, Cardinality(S)) |->
     CHOOSE p \in S : Cardinality({q \in S : Better(s, q, p)}) = k - 1]

\* The prices get_depth lists: (0, best bid] downwards, [best ask, end) upwards.
BidDepth(n) ==
  FirstOf("Buy", {p \in 1 .. best["Buy"] : ~ EmptyAt(levels, "Buy", p)}, n)

AskDepth(n) ==
  FirstOf("Sell", {p \in best["Sell"] .. MaxPriceLevels - 1 : ~ EmptyAt(levels, "Sell", p)}, n)

Depth(s, n) == IF s = "Buy" THEN BidDepth(n) ELSE AskDepth(n)

-----------------------------------------------------------------------------
(* Invariants                                                              *)

\* Every variable has its type.
TypeOK ==
  /\ Live \subseteq Ids
  /\ order_map \in [Live -> Order]
  /\ stranded \subseteq Live
  /\ leftover \subseteq Ids \ Live
  /\ in_use \in Int
  /\ levels \in [Sides -> [Prices -> Level]]
  /\ best \in [Sides -> CallPrices]
  /\ total_qty \in [Sides -> Int]
  /\ queue_len \in 0 .. QueueSize - 1
  /\ pc \in {"idle", "readd", "match", "finish"}
  /\ call \in Call \cup {NoCall}

\* The resting orders that belong to the level of side s and price p.
OrdersAt(s, p) ==
  {i \in Live \ InFlight : order_map[i].side = s /\ order_map[i].price = p}

\* A level links exactly the resting orders of its side and price, each of them
\* once: what remove unlinks is always in the list it is unlinked from, and no
\* list holds an order that has left the book.
QueuedOnce ==
  \A s \in Sides, p \in Prices :
    /\ IsInjective(levels[s][p].queue)
    /\ ToSet(levels[s][p].queue) = OrdersAt(s, p)

\* Every pool slot in use is a live order's, on every path of an operation:
\* nothing leaks and nothing is released twice, also when the erase before a
\* release misses its key.
PoolMatchesMap == in_use = Cardinality(Live)

\* A level's total is the sum of what its orders have left, modulo 2^32, and a
\* side's total the exact sum over the side.
TotalsMatch ==
  LET remaining(i) == order_map[i].remaining IN
  \A s \in Sides :
    /\ total_qty[s] = MapThenSumSet(remaining,
                                    {i \in Live \ InFlight : order_map[i].side = s})
    /\ \A p \in Prices :
         levels[s][p].total_quantity =
           Wrap(MapThenSumSet(remaining, ToSet(levels[s][p].queue)))

\* No level with an order lies on the good side of the cached best price, so a
\* walk that starts at the cached price, stale or not, misses nothing.
BestBounds ==
  \A s \in Sides, p \in Prices :
    ~ EmptyAt(levels, s, p) => ~ Better(s, p, best[s])

\* When get_stats reports both a bid and an ask, the bid is below the ask: its
\* unsigned spread never wraps around.
QuotesNeverCross == HaveBid /\ HaveAsk => best["Buy"] < best["Sell"]

\* get_depth's first n levels leave out only levels worse than all of them
\* (and the bid level at price 0), even when the cached best price is stale.
DepthKeepsBest ==
  \A s \in Sides, n \in 0 .. MaxPriceLevels :
    \A p \in Prices \ ToSet(Depth(s, n)) :
      ~ EmptyAt(levels, s, p) =>
        \/ s = "Buy" /\ p = 0
        \/ /\ Len(Depth(s, n)) = n
           /\ \A k \in 1 .. n : Better(s, Depth(s, n)[k], p)

\* When modify_order has cancelled and calls add_order, there is a pool slot
\* and a map slot for it: only the new price can make the second half fail.
ReAddHasRoom == pc = "readd" => HasRoom

-----------------------------------------------------------------------------
(* Action properties                                                       *)

\* i arrived before j in one price level.
Ahead(queue, i, j) == PositionIn(queue, i) < PositionIn(queue, j)

\* Of all resting orders, i is the one an aggressor must trade with next.
FirstInLine(i, aggressor) ==
  LET o == order_map[i]
      a == order_map[aggressor]
  IN /\ o.side = Opposite(a.side)
     /\ Reaches(a.side, a.price, o.price)
     /\ \A j \in Live \ {i, aggressor} :
          order_map[j].side = o.side =>
            \/ Better(o.side, o.price, order_map[j].price)
            \/ /\ o.price = order_map[j].price
               /\ Ahead(levels[o.side][o.price].queue, i, j)

\* Price-time priority: an order that a match takes quantity from, or removes,
\* crosses the aggressor's limit, and no resting order has a better price, or
\* an earlier place at the same price.
PriceTimePriority ==
  [][pc = "match" =>
       \A i \in Live \ {call.id} :
         i \notin DOMAIN order_map' \/ order_map'[i] # order_map[i]
           => FirstInLine(i, call.id)]_vars

\* Time priority: orders that stay in a level keep their relative order
\* through every operation (an in-place modify included), and one that joins
\* it joins behind all of them.
QueueOrderKept ==
  [][\A s \in Sides, p \in Prices :
       LET old == levels[s][p].queue
           new == levels'[s][p].queue
       IN \A i, j \in ToSet(new) :
            i \in ToSet(old) /\ (j \in ToSet(old) => Ahead(old, i, j)) /\ i # j
              => Ahead(new, i, j)]_vars

\* A bound on the steps that the operation in progress has left to take.
StepsLeft ==
  CASE pc = "idle"   -> 0
    [] pc = "finish" -> 1
    [] pc = "match"  -> Cardinality(Live) + (IF order_map[call.id].remaining > 0 THEN 3 ELSE 2)
    [] pc = "readd"  -> Cardinality(Live) + 5

\* Every step of an operation brings its end closer, so that none goes on for
\* ever: a pass of match always fills the aggressor or removes an order, one
\* of quantity zero (a modify can leave it in a level) included.
OperationEnds == [][pc # "idle" => StepsLeft' < StepsLeft]_vars

-----------------------------------------------------------------------------
(* Claims of the documentation that the code does not meet                 *)

\* "The bid is always lower than the ask" (docs/DAY_1_COMPLETE_GUIDE.md:152):
\* between operations no resting buy reaches a resting sell.
BookNeverCrossed ==
  pc = "idle" =>
    \A i, j \in Live :
      order_map[i].side = "Buy" /\ order_map[j].side = "Sell" =>
        order_map[i].price < order_map[j].price

\* "best_ask_ = 99999 (no asks)" (docs/DAY_1_COMPLETE_GUIDE.md:2020): with no
\* asks the cached price is the last price, which get_stats can index.
BestAskIsAPrice == pc = "idle" => best["Sell"] \in Prices

=============================================================================
