# Verification of the lock-free limit order book

TLA+ models of the matching engine and of the data structures under it, their
TLC runs, and theorems about them that TLAPS checks. Every definition is
translated from the C++ headers; `PROJECT.json` maps each one to its lines.

## 1. The system

The program is a header-only, single-symbol matching engine with a replay tool.
One thread drives the engine; the event queue and the throughput counters are
built to be read by a second one.

| Component | State | Operations | Talks to |
|---|---|---|---|
| `OrderBook` (`order_book.h`) | two arrays of price levels, `best_bid_`, `best_ask_`, side totals | `add_order`, `cancel_order`, `modify_order`, `match`, `top_of_book`, `get_stats`, `get_depth` | owns the four below; calls the event callback |
| `PriceLevel` (`price_level.h`) | intrusive list of orders, `count`, 32-bit `total_quantity` | `push_back`, `remove`, `empty` | orders in the pool |
| `OrderPool` (`memory_pool.h`) | slots, free list, `in_use_` | `acquire`, `release` | the book |
| `OrderMap` (`order_map.h`) | slots of (id, order), `size_` | `insert`, `find`, `erase` | the book |
| `SPSCQueue` (`spsc_queue.h`) | `head_`, `tail_`, ring of items | `push` (producer), `pop`, `empty` (consumer) | the book pushes events |
| `ReplayEngine` (`replay_engine.h`) | order tracker, locate of the symbol, config | one handler per ITCH message | parser calls it, it calls the book and the counters |
| `ItchParser` (`itch_parser.h`) | callbacks, position in a buffer | `parse` | replay engine |
| `StatsCounter` (`stats_counter.h`) | eight relaxed atomic counters | `inc_*`, `snapshot`, `reset` | replay thread writes, another may read |
| `LatencyTracer` (`latency_tracer.h`) | bounded sample buffer per stage | `record`, `report` | the book, when compiled in |
| `MmapReader`, `cpu_affinity`, `timing`, `signpost` | a mapping; nothing | system calls | programs |
| demo, replay program, benchmarks, scripts | none | drive the components | all |

How they interact: an operation of the book takes a slot from the pool, enters
it in the map, matches it against the opposite levels (which returns passive
orders to map and pool), links the rest into a level, and publishes one event
per step to a callback and to the queue. All of it happens on the caller's
thread; the callback runs in the middle of an operation.

What is hard, and what correctness means for each component:

* **Book.** The cached best prices are repaired lazily: some operations walk
  them, some leave them on a level that has just become empty. Correct: levels
  hold exactly the live orders, quantities add up, matching is by price-time
  priority, quotes do not cross, and no operation leaks a pool slot.
* **Map.** Deletion shifts keys back. Correct: no other key is lost,
  duplicated or made unreachable, and the loop ends.
* **Queue.** Two threads with stale views of each other's index. Correct: no
  slot is written while it is read, and items come out once and in order.
* **Replay engine.** Its tracker is a second copy of order state, which the
  book's own matching does not update, and its calls of the book may not find
  their order. Correct: no order outlives its last message and the book shows no
  more of it than the tracker, unless such a call has missed it; shares and
  messages are counted once; and while the feed's orders do not cross the book
  has exactly the orders that are tracked.
* **Parser.** Frames of any length, cut off anywhere. Correct: exactly the whole
  messages are delivered, in order, each with its own bytes.
* **Pool and levels.** One pair of pointers in each order links it into a level
  while it is live and into the free list while it is not. Correct: the lists of
  the levels are the queues the book relies on, the free list holds exactly the
  other slots, and no slot is in two places.
* **Counters.** A snapshot reads counters that move between its loads, and its
  parts may be of different moments. Correct: what `run` returns is exact, and a
  monitor comes to show it.

`PROJECT.json` lists each hazard at its line, with the properties that cover it.

## 2. Modules

| Module | Models | Used by |
|---|---|---|
| `OrderBook` | the engine, with price levels, pool counter and event count | `MCOrderBook`, `OrderBookProofs` |
| `BookArena` | the pointers under the book: pool slots, free list, linked levels (EXTENDS `OrderBook`, each action joined by its pointer writes) | `MCBookArena`, `BookArenaProofs` |
| `OrderMap` | the hash table, slot by slot | `MCOrderMap`, `OrderMapProofs` |
| `SPSCQueue` | the ring, access by access | `MCSPSCQueue`, `SPSCQueueProofs` |
| `BoundedFIFO` | what the ring promises; abstract | `SPSCQueue` (INSTANCE, refinement) |
| `ReplayEngine` | the replay handlers and counters, composed with `OrderBook` (EXTENDS) | `MCReplayEngine`, `ReplayEngineProofs` |
| `ItchParser` | the parser and the message builders of `itch_build` | `MCItchParser`, `ItchParserProofs` |
| `StatsCounter` | the counters, store by store and load by load, between two threads | `MCStatsCounter`, `StatsCounterProofs` |
| `FiniteSums` | lemmas only: induction over sets, and the sums of `MapThenSumSet` | `OrderBookProofs`, `OrderMapProofs`, `ReplayEngineProofs`, `ItchParserProofs` |

A definition whose name ends in `Slip` belongs to no behaviour: it is a
plausible bug used to test that a property can fail.

### OrderBook

`order_map` is the function from live ids, of the orders that are in the book,
to price, remaining quantity and side; `levels[s][p].queue` is the list linked
from `head` to `tail`; `best` holds `best_bid_` and `best_ask_`; `total_qty` the
side totals; `in_use` the pool's counter; `queue_len` the events held by the
queue, which nothing in the repository pops. `pc` and `call` say where an
operation stands.

| Action | Code |
|---|---|
| `AddOrder` (`Accept`) | `add_order` up to the crossing check |
| `MatchFill` | one pass of the inner loop of `match`, with the walk over empty levels before it |
| `MatchFilled`, `MatchExhausted` | the two ways out of `match` |
| `RestRemainder`, `ReclaimFilled` | the end of `add_order` |
| `CancelOrder` (`Withdraw`) | `cancel_order` with the repair of the best price |
| `ModifyInPlace` | the fast path of `modify_order` |
| `ModifyReAdd`, `ReAdd`, `ReAddRejected` | its slow path: cancel, then `add_order`, which may refuse the price |

Calls that return false without changing anything are no steps. A walk of a
cached price is not a loop but its result (`Walk`): the first non-empty level,
or the end the code allows. Level totals are taken modulo `QtyModulus` (2^32 in
the code). Side totals are 64 bits wide, which at most 2^20 orders of 32 bits
cannot overflow, and are plain integers. A fill and the removal of a passive
order that it completes are one step; the callback of the trade runs between
them in the code, when the completed order is still linked with nothing left.
The environment: callers give each new order a non-zero id that is no key of the
table, as every caller of the repository does; callbacks do not call back into
the book (none in the repository does); operations do not overlap
(`memory_pool.h:12`).

*The order map.* The hash table may lose keys (`claim_find_complete`), and the
book does not notice. `OrderBook` therefore keeps two more variables: `stranded`,
the orders of the book that find and erase miss, and `leftover`, the keys of
entries that an erase has missed, whose orders are gone.

| Action | What the table does to its user |
|---|---|
| `TableInsert` | takes a slot; any stranded keys may be found again |
| `TableErase` | for a key it finds: the key goes, and any others may be stranded, as long as one that is found is left where the shift stops |
| `TableMiss` | for a key it misses: returns false, and the entry stays |
| `TableEraseUnchecked` | either, where the code ignores the result (`order_book.h:195`, `313`) |

`cancel_order` and `modify_order` begin with a find: for an order that is
stranded they return false and change nothing. A leftover key still takes up
room in the table (`HasRoom`). That the table does no more than this is
`LosesOnlyPastAStop`, a property of `OrderMap` that is checked and proved there.
One case is left out: an insert may let the search for a leftover key meet its
entry again, and find then returns a pointer to a slot that is free or holds
another order. Calls for leftover ids return false in the model. `MaxLost` caps
the number of keys that are lost at a time; the theorems hold for every value of
it.

### BookArena

The memory under `OrderBook`. A pointer is a slot of the pool by its place, or
`Null`. `next` and `prev` are the links of each slot, `fields` the id, price and
side stored in it, `free_head` is `free_head_`, `list[s][p]` the `head`, `tail`
and `count` of a level, and `slot` the value the order map holds for a live id.

| Action | Pointer writes |
|---|---|
| `ArenaAddOrder`, `ArenaReAdd` (`Acquire`) | `acquire`, the stores of `add_order`, the map entry |
| `ArenaRestRemainder` (`PushBackAt`) | `push_back` |
| `ArenaInsertRefused` | `add_order` that writes to a slot and gives it back, as leftover keys fill the table |
| `ArenaReclaimFilled` (`Release`) | `erase` and `release` of an order that is in no level |
| `ArenaMatchFill` (`RemoveAndRelease`) | `remove`, `erase`, `release` of the head of the best level, if the fill completes it |
| `ArenaWithdraw` (`RemoveAndRelease`) | the same for any order, by the price and side stored in it |
| `ArenaUnchanged` | the steps that write no pointer |

Each action but `ArenaInsertRefused`, which the book does not notice, is the
action of `OrderBook` and what it does to memory; whatever
the code reads through a pointer is read through it here (the head of a level,
the id the map entry of which is erased, the level `cancel_order` unlinks from).
`Acquire` is disabled when the free list is empty although `OrderBook` has room,
and `RemoveAndRelease` corrupts the lists if the order is not where its pointers
say: that neither happens is `FreeListExact` and `ListsMatch`, not an assumption.
Three statements that always follow each other, `remove`, `erase` and
`release`, are one step.

### OrderMap

`slots` holds the keys (an `Order*` moves with its id), `size` is `size_`,
`stored` is the caller's view of the contents and `hole` the `pos` of a
`backward_shift` in progress. `InsertId` and `EraseId` probe by the operators
`Free` and `FoundAt`; each pass of the shifting loop is `ShiftBack` or, when it
ends, `CloseHole`. The multiplication of the hash overflows 64 bits in the
code, which leaves the masked low bits as they are, so the model multiplies by
the multiplier's remainder modulo the capacity. The callers reuse an id only
after an erase that succeeded. `stranded` is history: it becomes true when an
erase empties a slot that lies between a key and the start of its search
(`LeavesBehind`). `Missed` are the keys that find and erase do not meet.

### SPSCQueue

`push` and `pop` are three steps each: check, slot access, index store. The
indices are stored with release and read with acquire; `head_seen` and
`tail_seen` are what the other thread's load returns, and follow the stores in
order with any delay (`HeadVisible`, `TailVisible`). The buffer itself is
sequentially consistent in the model: it shows that the indices keep the two
threads apart, not that weakening an acquire to a relaxed load would do harm. A
refused push or an empty pop changes nothing and is no step.

### ReplayEngine

The variables of `OrderBook` are the engine's `book_`; `locate`,
`order_tracker` and `stats` are its own. A handler is a step that makes its
calls of the book; the steps of a call (`Proceed`) follow as `BookStep`, and no
other handler starts before the book is idle, as the parser calls one at a
time. A handler that has work after `add_order` leaves the order in `handler`:
`AddDone` tracks and counts it, `ReplaceAdd` or `ReplaceRejected` is the second
half of a replace. `announced`, `accepted`, `matched` and `missed` are history
for the environment and the properties: which references the feed has
introduced, how many shares the book took, whether the book has matched
anything, and which of its orders a call did not find.

| Action | Code |
|---|---|
| `StockDirectory` | `on_stock_directory` |
| `AddSkipped`, `AddStart`, `AddRejected`, `AddDone` | `on_add_order` |
| `Executed`, `PartialCancel` | `on_order_executed`, `on_order_cancel` for a tracked order |
| `UnknownOrder` | the same two for an order that is not tracked |
| `Delete` | `on_order_delete` |
| `ReplaceStart`, `ReplaceAdd`, `ReplaceRejected`, `AddDone` | `on_order_replace` |
| `BookStep` | the rest of a call of the book |
| `BookMisses` (in `BookCancel`, `BookModify`) | a call that returns false, because the order is not in the book or its map misses it |

The handlers do not look at what `cancel_order` and `modify_order` return: they
go on after `BookMisses` as after a call that succeeds.

`ToTick` truncates and clamps; `BookModify` chooses between the two paths of
`modify_order` as the code does, by the book's own remaining quantity and not
the tracker's. The counters of a handler go up in one step, which nothing on
the replay thread can tell apart (`StatsCounter` takes them one by one). The
environment is a feed that introduces each reference once. Everything else about
it is free: its messages may name any reference, never announced, rejected,
skipped or long gone (`replay_main.cpp:221` deletes the orders of another
stock), and share counts are not trusted, as the handlers do not trust them. An
order that a replace names and the tracker does not know is taken for a buy, as
in the code.

### ItchParser

The buffer is really a sequence of bytes here, with the offsets and lengths of
the code; a byte carries which field it belongs to instead of a number. `Built`
and `Fields` are the layouts of `itch_build` and of `dispatch`, taken from the
two places separately. Types F and C have no builder in `itch_build`: their two
layouts in `Built` are the model's own, those of `dispatch`. One pass of the
loop of `parse` is `Message`, with `dispatch` and the callback in it;
`Truncated` and `EndOfBuffer` are its ends. A layout is a set of fields, each
with its name, offset and width, and a decoded message a set of names with the
bytes read for them. `frames` is what the buffer was written from: the parser
never looks at it. Every buffer is a sequence of frames cut off somewhere, so
that any file the parser can meet is a case of it, up to the values of fields.
The engine that receives the callbacks is `ReplayEngine`, whose feed stands for
the calls.

### StatsCounter

Two threads. The replay thread calls `run`, which resets the counters, handles
messages and returns a snapshot; each handler is the list of its increments
(`Updates`), made one at a time by `Update`. `writes[c]` are all the values that
counter `c` has had. All accesses are relaxed: a load of the monitor (`Load`)
returns the value it saw of that counter last or any later one, with nothing
said about the other counters, while the replay thread sees its own stores.
`handled` counts the messages by outcome and is what the counters are compared
with. Any message may have any outcome its handler has: which one is the affair
of `ReplayEngine`.

## 3. Runs

| Run | Instance | States | What it shows |
|---|---|---|---|
| `book_safety` | 4 ids, 3 prices, quantities 0-2, totals modulo 3 | 328,876 with symmetry | type and structure invariants, price-time priority, every operation ends (`MaxLost` 0) |
| `arena` | 4 ids, 3 slots, 2 prices, quantities 1-2, one key lost at a time | 504,919 with symmetry | linked levels, free list, pool count, what a slot holds |
| `queue_refinement` | 4 slots, 3 items | 40,093 | FIFO refinement, no data race, delivery |
| `map_collisions` | 4 slots, 9 ids, 4 of which fill the table | 23,002 | keys kept, size exact, erase returns, find exact until a key is left behind, keys hidden only as `OrderBook` assumes |
| `replay_safety` | 4 references, 2 ticks, feeds of 5 messages, pool of 3, one key lost at a time | 901,922 with symmetry | tracker against book, counters, use of the book |
| `counters` | 2 runs, 2 messages | 339,868 | exact reports, a monitor that catches up |
| `parser` | 2 frames of real layout, cut at every byte | 423,486 | callbacks match the whole frames of the buffer |

**Bounds.** Three prices are the fewest with a level between two others, so
that a match walks over empty levels and a cached price can be stale by more
than one; both ends of the price range are among them. Four orders are the
fewest with two orders at one level, one at the next, and an aggressor that
takes from both. Quantities 1 and 2 give partial, exact and multi-order fills,
and 0 is what a modify can leave behind. With totals modulo 3, two orders at a
level already wrap. The pool and the map have as many slots as there are ids in
`book_safety`; `replay_safety` has one fewer, so that `acquire` fails there. In
`arena` the fourth id is for an add that the table refuses when a leftover key
fills it. Three orders at one level have a middle one to unlink, and two levels of
each side show whether a list is taken for another; three slots are also the
shortest free list with an inside. Slots are numbered and not symmetric.
Four ring slots wrap around and keep the two views up to
three stores behind. In `map_collisions`, two or three ids share each slot and
the table fills up, with the multiplier of the code (1 modulo 4). Other bounds:
`QueueSize` 2 caps the event count, which only saturates.

`parser` takes every two frames of any type, one byte too short, right or one
byte too long, with empty messages and an unknown type, and every cut. The
parser carries nothing but its position from one message to the next, so a
second frame shows all that a first one can disturb.

`replay_safety` runs every feed of up to `FeedLength` 5 messages, adds being
dropped after the fourth (`MaxMessages`): enough for two orders that match in
the book, and then an execution, a replace and a delete of them, and for three
orders of which the first strands another (`MaxLost` 1) that a later message
misses. Its feed prices 1 and 5 are truncated to tick 0 and clamped to tick 1, so
that two ticks exercise both; the pool of three makes `add_order` refuse a fourth
order. Its quantities are 1 and 2; orders of zero shares are in `book_safety`
and in the theorems, which put no lower bound on a quantity. The runs of the two
claims about the replay engine use instances that are just large enough for the
counterexample.

`counters` has a second run, which is what tells a reset that misses a counter,
and a limit of one message, which the second one exceeds.

**Fairness.** That operations of the book end is `OperationEnds`, an action
property: a step of an operation that is under way makes `StepsLeft` (the orders
still to match, and what comes after) smaller. It needs no fairness and holds of
every execution; that no operation is stuck half-way is the deadlock check.
`queue_refinement` assumes weak fairness of the consumer's `Pop` (a consumer
that polls) and of `HeadVisible` (a store to an atomic becomes visible in finite
time); the producer may stop anywhere. `counters` assumes weak fairness of the
monitor, which goes on taking snapshots, and strong fairness of a load that
returns the latest value, the same promise of visibility for a thread whose
loads are steps; the replay thread may stop anywhere. `map_collisions` assumes
weak fairness of the shifting loop, and `parser` that of the parsing loop: each
is a loop on its caller's thread.

**Deadlock** is checked in every run but those of `MCReplayEngine`, where the
feed ends, `MCItchParser`, where parse returns, and `MCStatsCounter`, where the
last run returns; elsewhere no state is stuck.

### Statements of the documentation that the code does not meet

Each of these runs looks for a counterexample and finds one.

| Run | Statement | What happens |
|---|---|---|
| `claim_never_crossed` | "The bid is always lower than the ask" (`docs/DAY_1_COMPLETE_GUIDE.md:152`) | An exact fill empties the best level and `best_ask_` stays on it. The next buy sees an empty best level at `order_book.h:168`, does not match, and rests above the next ask. (In the same state `get_stats` reports no ask although one rests.) |
| `claim_best_ask_in_range` | "best_ask_ = 99999 (no asks)" (`docs/DAY_1_COMPLETE_GUIDE.md:2020`) | A buy that takes all asks and has a remainder leaves `best_ask_` at `MAX_PRICE_LEVELS`; the queries index `asks_` with it. |
| `claim_find_complete` | "keeps the probe chain intact without tombstones" (`docs/DAY_1_COMPLETE_GUIDE.md:607`) | `backward_shift` stops at a key that is in its natural slot, and strands keys displaced past it. |
| `claim_replay_keeps_place` | "preserves the order's position" (`docs/DAY_3_COMPLETE_GUIDE.md:1443`, `replay_engine.h:140`) | The book has matched a part of the order on its own; the tracker's quantity is then not less than the book's, and `modify_order` re-adds the order at the end of its queue. |
| `claim_delete_removes` | "the order is gone from the book", "fully removed (via `cancel_order`)" (`docs/DAY_3_COMPLETE_GUIDE.md:1240`, `1252`) | Three orders, A, B and C, where A and C have one hash and B the next one. When A goes, the shift stops at B and strands C; at the last message for C `cancel_order` returns false, the handler forgets C, and C rests in the book for ever. |

Two more divergences were met and need no run. `get_depth` never lists a bid
level at price 0, where its loop stops, although `add_order` accepts the price
(`order_book.h:365`; the model's `BidDepth` stops there too). And `main.cpp`
announces an in-place modify of every eighth order (`main.cpp:212`) and then
passes the price of a newer order, so that every one of these calls takes the
slow path of `modify_order`.

`claim_delete_removes` is checked on `CollidingSpec` of `MCReplayEngine`, the
replays in which the keys are lost that the table loses for these three hashes:
they are replays of `ReplaySpec`, and the loss is the one that
`claim_find_complete` finds in the table itself.

The same models show how far the damage goes. Even with a stale best price the
cached price bounds every resting order (`BestBounds`), a match that starts
still trades in price-time order (`PriceTimePriority`), and a bid and an ask that
are both reported never cross (`QuotesNeverCross`). Even with a table that loses
keys, levels, free list and pool count stay exact (`ListsMatch`,
`FreeListExact`, `PoolMatchesMap`). For the replay engine, `SharesConserved`
holds of every feed, and `TrackerCoversBook` of every order that no call has
missed: a miss is the only way in which an order outlives its last message.
`ReplayExact` and `PlaceKept` say that without a match inside the book nothing
else is lost at all. They compare the book with the tracker: adds that were
rejected or dropped are in neither, and the replacement of an unknown sell is a
buy in both.

## 4. Theorems

All hold for every value of the constants under the modules' assumptions
(`BookAssumption`, `ArenaAssumption`, `MapAssumption`, `QueueAssumption`,
`ReplayAssumption`, `StatsAssumption`, `ParserAssumption`: sizes are
positive, the map is no smaller than the pool, quantities lie below the modulus,
those of a replay are closed under taking less, 0 is no id, and the length of a
frame fits the 16 bits of its prefix). Every invariant and every safety action
property of the passing runs is a theorem.

The models bring assumptions of their own, which the theorems share:

* The order map under the book, the arena and the replay engine is the one of
  section 2, which may lose keys: the theorems hold whatever `MaxLost` is, and
  so also with a perfect table. What they take for granted of it is its
  contract: insert takes any free slot, an entry that is found is the one asked
  for, and keys are hidden as in `TableErase` only. `TableKeepsItsContract` proves
  this of `OrderMap`, for the keys; the entries move with them.
* Ids of new orders are no keys of the table, leftover ones included.
* No search for the id of an order that is gone meets its leftover entry. The
  code has nothing to prevent it once a leftover key is back in reach and a
  message names it; in this case the book reads a slot that is free or holds
  another order, and nothing is claimed.
* The event callback does not call the book, and calls do not overlap.

**FiniteSums.** Sums, flattened buffers and sorted prices are defined by
recursion, by the community modules or here. The library's induction theorems
take a predicate, which the provers cannot instantiate, so `Induction` and
`SubsetInduction` say the same of a *set*: of numbers with 0 and every successor
it is `Nat`, and a set of subsets that has every subset whose parts without one
element it has is all of `SUBSET S`; both follow from the smallest element of a
set of naturals. With them the function that a recursive definition chooses is
shown to exist, and `SharesLeftWithout` that a sum is any one element and the
rest, which the definition says of one chosen element only.

**OrderBookProofs.** The inductive invariant is `TypeOK`, `CallOK` and
`QueuedOnce` together: to know that unlinking an order finds it in its list,
and that the head of a level is a live order of that side and price, one needs
that the lists index the map, and for the order in flight, which is in the map
and in no list, one needs `CallOK` (the order of the call is live while it
matches, on the side and at the price of the call). On it rest

* `TypesHold`, `LevelsIndexLiveOrders` (`QueuedOnce`);
* `BestPricesBound` (`BestBounds`): a walk passes over empty levels only, and
  an order that rests beyond the cached price moves it;
* `MatchKeepsPriority` (`PriceTimePriority`): by `BestBounds` the walk misses no
  better level, and the head of the level is the order first in line;
* `PoolNeverLeaks` (`PoolMatchesMap`) and, from it, `SlowModifyHasRoom`
  (`ReAddHasRoom`). The strengthening `RoomInv` counts orders and keys apart,
  since a missed erase gives back the slot of the pool and not that of the
  table, and counts both that a slow modify has just given back;
* `QuotesStayUncrossed` (`QuotesNeverCross`), whose strengthening says what a
  match in progress has already taken from the opposite side;
* `OperationsEnd` (`OperationEnds`): a fill ends the aggressor or removes an
  order from the map, also when the order at the head has quantity zero and the
  fill is of nothing, and a slow modify has given one order back before it
  matches. It takes the place of a liveness property, which this prover cannot
  prove, and needs no fairness;
* `QueuesKeepOrder` (`QueueOrderKept`): a queue changes by an append or by
  losing one element, and since it holds every order once, the others keep
  their order (`AppendKeeps`, `GapKeeps`);
* `TotalsAreSums` (`TotalsMatch`), with `TotalsInv`: the sums are over the
  orders that are linked, so the order in flight, which a match changes before
  it rests, is in none of them. Each step moves one order in or out of one level
  or changes what it has left (`SharesLeftChange`), and the level's total takes
  the same change modulo its width;
* `DepthListsBest`, that `get_depth` leaves out no better level than it lists
  (`DepthKeepsBest`, which no run checks): the k-th price listed is the one with
  k - 1 better ones (`Rank`), which is another way to say "walk on to the next
  level". A price that is not listed has n ranks below its own, each of them of
  a price that is listed and better (`RanksBelow`, `FirstAreBest`); that the
  walk starts before every level with an order is `BestBounds`.

**BookArenaProofs.** `ArenaInv` adds to the invariants of the book that live
orders have slots of their own (`OneSlotEach`), that a slot holds the terms of
its order (`FieldsMatch`), that every level is linked (`ListsMatch`), and that
some enumeration of the free slots follows the free list (`FreeListInv`). None
of these is inductive alone: `remove` unlinks from the right list because the
price and side read from the slot are the order's; that its two writes to
neighbours hit no other list takes that slots are not shared and that a queue of
the book holds an order once; and a write to a live slot does not cut the free
list because the two are disjoint. `PushBackLists` and `RemoveLists` treat one
level at its positions, the middle and both ends; `AcquireFreeList` and
`ReleaseFreeList` shift the enumeration by one. On it rest

* `ArenaTypesHold`, `LevelsStayLinked` (`ListsMatch`): the linked lists implement
  the sequences on which everything in `OrderBookProofs` is stated;
* `FreeListStaysExact` (`FreeListExact`);
* `FieldsOutliveRelease` (`LiveFieldsKept`), which makes the reads after the
  release in `cancel_order` harmless;
* `ArenaIsABook`, by which the theorems about `OrderBook` hold of the arena.

**OrderMapProofs.** `MapInv` (types, a finite `stored`, `EachKeyOnce`) is
inductive; `MapTypes` also needs a counting argument, that each stored key has
a slot of its own. `FindIsExact` (`ExactUntilStranded`) says that the early stop
of `backward_shift` is the only way the table goes wrong: until an erase leaves
a key behind, find is exact, for any hash and any collisions. The strengthening
is `ChainInv`: every slot between a key and the start of its search is in use.
A key that shifts back has one slot less to cross, and closing the hole breaks
the chain of another key exactly when that key is left behind. If the ids that
are live together hash apart (consecutive ids do, the multiplier being odd), no
key is displaced and none can be left behind.

`TableKeepsItsContract` (`LosesOnlyPastAStop`) says what happens when one is. A
key is found exactly when every slot between it and the start of its search is
in use (`FoundIsClear`; `HoleInv` is what a hole in progress may still hold). A
pass that shifts a key fills one of these slots as it empties another, and
changes nothing for any key (`ShiftMeets`); an insert only fills a gap
(`InsertMeets`). The last pass hides a key only if its search passes the hole
and the slot after it, which is then in use, by the key at which the loop has
stopped: that one is where its search begins, and is found (`CloseMeets`).

`ShiftingEnds` is the part of
`EraseReturns` that this prover can check: each pass of the loop that goes on
lowers by one the total distance of the keys from where their searches begin,
which is never below zero. That the hole goes around at most once would be a
simpler argument and is false: on a full table of displaced keys it comes back
to the slot where it began.

**SPSCQueueProofs.** `RingInv` says that around the ring come `tail_seen`,
`tail_`, `head_seen` and `head_` in this order, and that what a thread has
checked remains true until its own store. `NoRace` follows, and
`RingImplementsFIFO`: with the contents between `tail_` and `head_` as the
queue, `PushStore` is `Enqueue`, `PopStore` is `Dequeue`, and every other step
is a stutter. The arithmetic of the mask is in lemmas of its own.

**ReplayEngineProofs.** `ReplayUsesBook` (`UsesBook`) shows that every handler
is a step of `OrderBook` or leaves the book alone, so that every theorem of
`OrderBookProofs` holds of a replay's book. It needs that every order in the
book was announced (`announced`), which makes a new reference fresh, and so does
`ReplayTypes`. `TrackerCovers` (`TrackerCoversBook`) strengthens the property
by what holds in the middle of a call: the order being added is the one its
handler will track, and the order a slow modify is about to re-add is tracked
with the quantity it comes back with. From the book it takes that no step of a
call changes an order's terms or raises its quantity. Orders in `missed` are
exempt: each call that finds its order does what its handler records, and one
that does not puts the order into `missed`, so that nothing else is exempt.

Three more results concern the counters of a replay and what a feed without
matches does.

* `SharesStayConserved` (`SharesConserved`). `SharesInv` adds to the sum the
  shares of an order that the book has accepted and that is not tracked yet
  (`Awaited`): `accepted` goes up when the book takes the order, the tracker's
  part when its handler goes on. From there an order only loses shares, to the
  count or to nobody.
* `ReplayStaysExact` (`ReplayExact`) and `PartialLossKeepsPlace` (`PlaceKept`).
  Both hold until the book matches, so `ExactInv` is an invariant under `~
  matched`: tracker and book hold the same orders on the same terms, except
  those missed, the one in flight and the one that `modify_order` has taken out
  to add again, of which the call has the terms that the tracker holds.
  `PlaceKept` follows as the book then has more shares than are asked for, at
  the same price; an order that has been missed has more shares in the book, not
  fewer, so it holds of those too.

**StatsCounterProofs.** `ReportsAreExact` (`ReportExact`). The counters are
never consistent while a handler stores them one by one; what is invariant
(`StatsInv`) is that the values the counters will have when the pending updates
are made (`Leads`) account for the messages handled. Nothing is said of them
while `reset` is pending but the zeros it ends with, which is why a second run
does not report the first. That a handler, like `reset`, updates no counter
twice (`UpdatesOnce`) makes each pending value the value it will store.

**ItchParserProofs.** `ParserInv` says that the position is the length of the
frames before it, that the buffer is a prefix of what the frames were written
as, and that the calls made are those of these frames. One pass of the loop is
then a matter of one frame at one place in the buffer: the two length bytes
there are the ones `frame` wrote, a frame fits exactly if it is whole, and every
field that `dispatch` reads from a message that is long enough lies where its
builder put it. That is `ParserTypeSafe` (`ParserTypeOK`), `ParserTellsFrames`
(`CallsMatchFrames`) and `ParserCountsMessages` (`CountsMessages`), for any
number of frames, any lengths and any cut.

**Only model-checked.** `EraseReturns`, `DeliversAll`, `ParseReturns` and
`MonitorCatchesUp` are liveness properties, which TLAPS does not do; of the
first, `ShiftingEnds` is the part that is an invariant. Their fairness is that
of section 3. What is checked on small instances only are, besides, the
disagreements with the documentation above, which are counterexamples.

## 5. Not modelled, and the plan

Not modelled: the platform helpers and the memory-mapped reader (system calls),
the programs, benchmarks and scripts (drivers, read for how they call the
engine), the latency tracer (compiled in only on demand, one thread, read by no
other component: percentiles of bounded sample buffers), timestamps and
prefetching (no state that the engine reads), and the printing options of the
replay engine. A second `run` of one engine, which no program or test makes, is
modelled for the counters only. Callbacks that call back into the book are
excluded: none in the repository does, and the code is not written for them.
Searches that meet a leftover entry of the order map are excluded too (section 2).

Left for later:

1. Searches that meet a leftover entry: find then returns a slot of the pool by
   an old id, which `BookArena` could follow through its `fields`.
2. A bound on the passes of `backward_shift`: `ShiftingEnds` gives the total
   distance of the keys, which is below the square of the capacity.
3. The parser's callbacks and the replay's handlers in one module. They meet in
   the feed only: any sequence of messages is a feed, and `ParserTellsFrames`
   says which sequence the parser makes of a buffer.
4. The safety half of the other liveness properties, as `ShiftingEnds` is for
   the erase: that each pass of `parse` and each store of a handler leaves less
   to do.
