---------------------------- MODULE ReplayEngine ----------------------------
(***************************************************************************)
(* The replay engine of replay_engine.h: it feeds the messages of one      *)
(* stock into the book and keeps order_tracker_, its own view of every     *)
(* order, to turn executions and partial cancels into modify_order calls.  *)
(*                                                                         *)
(* The book is the one of OrderBook, driven here by the handlers: a        *)
(* handler is a step that starts a call of the book, the steps of the book *)
(* (Proceed), and, for an order that is added, a last step after           *)
(* add_order has returned.  The parser calls one handler at a time.        *)
(*                                                                         *)
(* A message of another stock, and any message before the stock is found,  *)
(* returns at once and is no step.  The feed announces every reference     *)
(* once; its other messages may name any reference, announced or not (the  *)
(* stream of replay_main.cpp deletes orders of another stock), and share   *)
(* counts may be larger than what the order has left.                      *)
(***************************************************************************)
EXTENDS OrderBook

CONSTANTS Locates,      \* stock_locate codes
          NoLocate,     \* found_sym_ is false
          ItchPrices,   \* prices of the feed, in units of $0.0001
          TickDivisor,  \* tick_divisor
          MaxMessages,  \* max_messages, 0 for no limit
          FeedLength,   \* how many messages of the stock the buffer holds
          NoHandler     \* no add_order is awaited

ASSUME ReplayAssumption ==
  /\ NoLocate \notin Locates
  /\ ItchPrices \subseteq Nat
  /\ TickDivisor \in Nat \ {0}
  /\ MaxMessages \in Nat
  /\ FeedLength \in Nat
  /\ NoHandler \notin [kind : {"add", "cancelled", "replace"}, order : Call]
  /\ \A q \in Quantities : 1 .. q \subseteq Quantities

VARIABLES locate,         \* locate_, or NoLocate while found_sym_ is false
          order_tracker,  \* order reference -> price, remaining and side
          stats,          \* the counters the handlers increment
          handler,        \* the order a handler has to add or track
          announced,      \* references the feed has used for new orders
          accepted,       \* the shares of those the book has accepted
          missed,         \* orders of the book that a call of it did not find
          matched         \* the book has matched two orders of the feed

replayVars == <<locate, order_tracker, stats, handler, announced, accepted, missed, matched>>

allVars == <<vars, replayVars>>

Counters == {"messages", "added", "cancelled", "replaced", "executed",
             "rejected", "trades", "shares"}

Handler == [kind  : {"add", "cancelled", "replace"},
            order : {o \in Call : o.price \in Prices}]

Tracked == DOMAIN order_tracker

\* to_tick: prices are truncated to ticks and clamped at the last one.
ToTick(itch_price) == MinOf(itch_price \div TickDivisor, MaxPriceLevels - 1)

\* Every counter in names goes up by one.
Count(names) == [c \in Counters |-> IF c \in names THEN stats[c] + 1 ELSE stats[c]]

\* inc_trade, with the other counters of an execution.
CountTrade(names, shares) ==
  [Count(names \cup {"trades"}) EXCEPT !.shares = @ + shares]

Forget(ref) == [i \in Tracked \ {ref} |-> order_tracker[i]]

Remember(o) ==
  [i \in Tracked \cup {o.id} |->
     IF i = o.id THEN [price |-> o.price, remaining |-> o.qty, side |-> o.side]
                 ELSE order_tracker[i]]

\* The feed announces an order (the engine keeps no record of it as such).
Announce(ref) == announced' = announced \cup {ref}

\* add_order returns true, or will once its steps are done.
BookAdd(o) ==
  /\ Accept(o)
  /\ accepted' = accepted + o.qty

\* The ghost variable matched, in every action.
NoteMatch == matched' = (matched \/ pc' = "match")

-----------------------------------------------------------------------------
(* Calls of the book                                                       *)

\* A call that the book refuses: it does not have the order, or its map misses
\* it.  The handlers ignore the result.
BookMisses(i) ==
  /\ i \notin Findable
  /\ missed' = missed \cup ({i} \cap Live)
  /\ UNCHANGED vars

\* cancel_order
BookCancel(i) ==
  \/ /\ i \in Findable
     /\ Withdraw(i)
     /\ UNCHANGED <<pc, call, missed>>
  \/ BookMisses(i)

BookModifySlip(i, p, q) ==
  \/ /\ i \in Findable
     /\ Accept([id |-> i, price |-> p, qty |-> q, side |-> order_map[i].side])
     /\ UNCHANGED missed
  \/ BookMisses(i)

\* modify_order at the order's price, as the execution handlers call it.
BookModify(i, p, q) ==
  \/ /\ i \in Findable
     /\ p = order_map[i].price
     /\ q < order_map[i].remaining
     /\ ModifyInPlace
     /\ order_map' = [order_map EXCEPT ![i].remaining = q]
     /\ UNCHANGED missed
  \/ /\ i \in Findable
     /\ ModifyReAdd
     /\ call' = [id |-> i, price |-> p, qty |-> q, side |-> order_map[i].side]
     /\ UNCHANGED missed
  \/ BookMisses(i)

-----------------------------------------------------------------------------
(* Handlers                                                                *)

\* A Stock Directory message of the target symbol; later ones are ignored.
StockDirectory ==
  /\ locate = NoLocate
  /\ locate' \in Locates
  /\ UNCHANGED <<vars, order_tracker, stats, handler, announced, accepted, missed>>
  /\ NoteMatch

\* A message passes the filter: its handler starts.
Receive ==
  /\ pc = "idle"
  /\ handler = NoHandler
  /\ locate # NoLocate
  /\ stats["messages"] < FeedLength
  /\ UNCHANGED locate

OverLimit == MaxMessages > 0 /\ stats["messages"] + 1 > MaxMessages

\* on_add_order past max_messages: counted and dropped.
AddSkipped ==
  /\ Receive
  /\ OverLimit
  /\ \E ref \in Ids \ announced : Announce(ref)
  /\ stats' = Count({"messages"})
  /\ UNCHANGED <<vars, order_tracker, handler, accepted, missed>>
  /\ NoteMatch

\* on_add_order, up to the return of add_order.
AddStart ==
  /\ Receive
  /\ ~ OverLimit
  /\ \E ref \in Ids \ announced, price \in ItchPrices, qty \in Quantities, side \in Sides :
       LET o == [id |-> ref, price |-> ToTick(price), qty |-> qty, side |-> side]
       IN /\ BookAdd(o)
          /\ handler' = [kind |-> "add", order |-> o]
          /\ Announce(ref)
  /\ stats' = Count({"messages"})
  /\ UNCHANGED <<order_tracker, missed>>
  /\ NoteMatch

\* on_add_order when add_order returns false, which at a clamped price means
\* that the pool or the map is full.
AddRejected ==
  /\ Receive
  /\ ~ OverLimit
  /\ ~ HasRoom
  /\ \E ref \in Ids \ announced : Announce(ref)
  /\ stats' = Count({"messages", "rejected"})
  /\ UNCHANGED <<vars, order_tracker, handler, accepted, missed>>
  /\ NoteMatch

\* add_order has returned true to on_add_order or on_order_replace: the order
\* is tracked with all its shares, whatever the book has matched of it.
AddDone ==
  /\ pc = "idle"
  /\ handler # NoHandler
  /\ handler.kind # "cancelled"
  /\ order_tracker' = Remember(handler.order)
  /\ stats' = Count({IF handler.kind = "add" THEN "added" ELSE "replaced"})
  /\ handler' = NoHandler
  /\ UNCHANGED <<vars, locate, announced, accepted, missed>>
  /\ NoteMatch

TakenSlip(ref, asked) == asked

\* The shares an execution or a partial cancel takes from a tracked order.
Taken(ref, asked) == MinOf(asked, order_tracker[ref].remaining)

TakeSharesUnboundedSlip(ref, asked) ==
  LET left == order_tracker[ref].remaining - asked
  IN \/ /\ left = 0
        /\ BookCancel(ref)
        /\ order_tracker' = Forget(ref)
     \/ /\ left # 0
        /\ BookModify(ref, order_tracker[ref].price, Wrap(left))
        /\ order_tracker' = [order_tracker EXCEPT ![ref].remaining = left]

TakeSharesSlip(ref, asked) ==
  LET left == Wrap(order_tracker[ref].remaining - Taken(ref, asked))
  IN \/ /\ left = 0
        /\ BookCancel(ref)
        /\ order_tracker' = Forget(ref)
     \/ /\ left # 0
        /\ BookModify(ref, order_tracker[ref].price, order_tracker[ref].remaining)
        /\ order_tracker' = [order_tracker EXCEPT ![ref].remaining = left]

\* A tracked order loses shares, in the tracker and then in the book.
TakeShares(ref, asked) ==
  LET left == Wrap(order_tracker[ref].remaining - Taken(ref, asked))
  IN \/ /\ left = 0
        /\ BookCancel(ref)
        /\ order_tracker' = Forget(ref)
     \/ /\ left # 0
        /\ BookModify(ref, order_tracker[ref].price, left)
        /\ order_tracker' = [order_tracker EXCEPT ![ref].remaining = left]

\* on_order_executed: a full fill counts as a cancel.
Executed ==
  /\ Receive
  /\ \E ref \in Tracked, executed_shares \in Quantities :
       LET n == Taken(ref, executed_shares)
       IN /\ TakeShares(ref, executed_shares)
          /\ stats' = CountTrade({"messages",
                                  IF n = order_tracker[ref].remaining
                                  THEN "cancelled" ELSE "executed"}, n)
  /\ UNCHANGED <<handler, announced, accepted>>
  /\ NoteMatch

\* on_order_cancel.
PartialCancel ==
  /\ Receive
  /\ \E ref \in Tracked, cancelled_shares \in Quantities :
       TakeShares(ref, cancelled_shares)
  /\ stats' = Count({"messages", "cancelled"})
  /\ UNCHANGED <<handler, announced, accepted>>
  /\ NoteMatch

\* on_order_executed and on_order_cancel for an order that is not tracked.
UnknownOrder ==
  /\ Receive
  /\ stats' = Count({"messages"})
  /\ UNCHANGED <<vars, order_tracker, handler, announced, accepted, missed>>
  /\ NoteMatch

DeleteSlip ==
  /\ Receive
  /\ \E ref \in Ids :
       /\ UNCHANGED <<vars, missed>>
       /\ order_tracker' = Forget(ref)
  /\ stats' = Count({"messages", "cancelled"})
  /\ UNCHANGED <<handler, announced, accepted>>
  /\ NoteMatch

\* on_order_delete.
Delete ==
  /\ Receive
  /\ \E ref \in Ids :
       /\ BookCancel(ref)
       /\ order_tracker' = Forget(ref)
  /\ stats' = Count({"messages", "cancelled"})
  /\ UNCHANGED <<handler, announced, accepted>>
  /\ NoteMatch

\* on_order_replace up to add_order: the side comes from the tracker, and an
\* order that is not tracked is taken for a buy.
ReplaceStart ==
  /\ Receive
  /\ \E orig \in Ids, ref \in Ids \ announced,
        price \in ItchPrices, qty \in Quantities :
       /\ BookCancel(orig)
       /\ order_tracker' = Forget(orig)
       /\ handler' = [kind  |-> "cancelled",
                      order |-> [id    |-> ref,
                                 price |-> ToTick(price),
                                 qty   |-> qty,
                                 side  |-> IF orig \in Tracked
                                           THEN order_tracker[orig].side
                                           ELSE "Buy"]]
       /\ Announce(ref)
  /\ stats' = Count({"messages"})
  /\ UNCHANGED accepted
  /\ NoteMatch

ReplaceAdd ==
  /\ pc = "idle"
  /\ handler # NoHandler
  /\ handler.kind = "cancelled"
  /\ BookAdd(handler.order)
  /\ handler' = [handler EXCEPT !.kind = "replace"]
  /\ UNCHANGED <<locate, order_tracker, stats, announced, missed>>
  /\ NoteMatch

\* add_order returns false: neither the old order nor the new one is left.
ReplaceRejected ==
  /\ pc = "idle"
  /\ handler # NoHandler
  /\ handler.kind = "cancelled"
  /\ ~ HasRoom
  /\ stats' = Count({"rejected"})
  /\ handler' = NoHandler
  /\ UNCHANGED <<vars, locate, order_tracker, announced, accepted, missed>>
  /\ NoteMatch

\* The book goes on with the call a handler has made.
BookStep ==
  /\ Proceed
  /\ UNCHANGED <<locate, order_tracker, stats, handler, announced, accepted, missed>>
  /\ NoteMatch

-----------------------------------------------------------------------------

ReplayInit ==
  /\ Init
  /\ locate = NoLocate
  /\ order_tracker = << >>
  /\ stats = [c \in Counters |-> 0]
  /\ handler = NoHandler
  /\ announced = {}
  /\ accepted = 0
  /\ missed = {}
  /\ matched = FALSE

ReplayNext ==
  \/ StockDirectory
  \/ AddSkipped
  \/ AddStart
  \/ AddRejected
  \/ AddDone
  \/ Executed
  \/ PartialCancel
  \/ UnknownOrder
  \/ Delete
  \/ ReplaceStart
  \/ ReplaceAdd
  \/ ReplaceRejected
  \/ BookStep

ReplaySpec == ReplayInit /\ [][ReplayNext]_allVars

-----------------------------------------------------------------------------
(* Properties                                                              *)

\* Every variable of the replay engine has its type.
ReplayTypeOK ==
  /\ locate \in Locates \cup {NoLocate}
  /\ Tracked \subseteq Ids
  /\ order_tracker \in [Tracked -> [price     : Prices,
                                    remaining : Quantities,
                                    side      : Sides]]
  /\ stats \in [Counters -> Nat]
  /\ handler \in Handler \cup {NoHandler}
  /\ announced \subseteq Ids
  /\ accepted \in Nat
  /\ missed \subseteq Ids
  /\ matched \in BOOLEAN

\* The engine makes only calls that the book allows: no order is added while
\* one with its reference is live, on any path of a handler, so what holds of
\* OrderBook holds of the book of a replay.
UsesBook == Spec

\* The order an add handler has given to the book and not yet tracked.
Untracked ==
  IF handler # NoHandler /\ handler.kind # "cancelled" THEN {handler.order.id} ELSE {}

\* Every order in the book is tracked (or about to be), at the same price and
\* side and with no more in the book than in the tracker, unless a call for it
\* has missed it in the order map: a miss is the only way in which an order
\* outlives its last message or shows more than the feed has left of it, and
\* the book never holds an order that nothing was ever asked to take out.
TrackerCoversBook ==
  \A i \in Live \ (Untracked \cup missed) :
    /\ i \in Tracked
    /\ order_map[i].price = order_tracker[i].price
    /\ order_map[i].side = order_tracker[i].side
    /\ order_map[i].remaining <= order_tracker[i].remaining

\* As long as the orders of the feed never cross in ticks, the book between two
\* messages has exactly the orders that are tracked and have shares left, with
\* the tracker's terms, but for those that a call has missed in the order map.
ReplayExact ==
  ~ matched /\ pc = "idle" /\ handler = NoHandler =>
    Restrict(order_map, Live \ missed) =
      [i \in {j \in Tracked \ missed : order_tracker[j].remaining > 0} |-> order_tracker[i]]

\* Shares counted as traded, with those still tracked, never exceed the shares
\* of the orders accepted: no execution is counted beyond what its order has
\* left, and no cancel or replace gives shares back.
SharesConserved ==
  LET remaining(i) == order_tracker[i].remaining
  IN stats["shares"] + MapThenSumSet(remaining, Tracked) <= accepted

\* A partial execution or cancel of order i begins.
LosesPart(i) ==
  /\ i \in DOMAIN order_tracker'
  /\ order_tracker'[i].remaining < order_tracker[i].remaining

\* While the orders of the feed never cross in ticks, an order that loses a part
\* of its shares is not taken out of its queue, also after calls that missed it
\* have left it with more shares than the tracker has.
PlaceKept ==
  [][~ matched =>
       \A i \in Live \cap Tracked : LosesPart(i) => i \in DOMAIN order_map']_allVars

\* "The 'D' handler correctly calls `cancel_order` and the order is gone from
\* the book", "the order is fully removed (via `cancel_order`), not just
\* reduced" (docs/DAY_3_COMPLETE_GUIDE.md:1240-1241, 1252-1253): the book has no
\* order that the tracker has forgotten.
DeletedAreGone == Live \subseteq Tracked \cup Untracked

\* "modify_order with the same price reduces quantity in-place and preserves
\* the order's position" (docs/DAY_3_COMPLETE_GUIDE.md:1443-1444): in every
\* replay, an order that loses a part of its shares is not taken out of its
\* queue.
PlaceAlwaysKept ==
  [][\A i \in Live \cap Tracked : LosesPart(i) => i \in DOMAIN order_map']_allVars

=============================================================================
