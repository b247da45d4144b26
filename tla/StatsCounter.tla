---------------------------- MODULE StatsCounter ----------------------------
(***************************************************************************)
(* The throughput counters of stats_counter.h: the replay thread updates   *)
(* them one by one with relaxed stores, in the order of the handlers of    *)
(* replay_engine.h, while a monitoring thread takes snapshots, one relaxed *)
(* load after the other.                                                   *)
(*                                                                         *)
(* Relaxed accesses promise only that each counter by itself is coherent:  *)
(* the monitor's next load of a counter returns the value it saw last, or  *)
(* any later one, whatever it has seen of the other counters.  The replay  *)
(* thread is the only one that stores, and reads its own stores.           *)
(***************************************************************************)
EXTENDS Integers, Functions, SequencesExt

CONSTANTS Runs,         \* how often run is called
          Messages,     \* how many messages of the stock the buffers hold, all together
          MaxMessages,  \* max_messages, 0 for no limit
          Quantities    \* shares of an execution

ASSUME StatsAssumption ==
  /\ Runs \in Nat
  /\ Messages \in Nat
  /\ MaxMessages \in Nat
  /\ Quantities \subseteq Nat

VARIABLES writes,   \* the values each counter has had, in the order of its stores
          todo,     \* the updates the replay thread is about to make
          left,     \* the messages that are not handled yet
          running,  \* run has been called and has not returned
          runs,     \* how often it has been called
          report,   \* the snapshot that run returned last
          seen,     \* per counter, which of writes the monitor's last load returned
          loads,    \* how many counters of its snapshot the monitor has loaded
          handled   \* messages of this run by outcome, and the shares they traded

replayThread == <<writes, todo, left, running, runs, report, handled>>

vars == <<replayThread, seen, loads>>

\* In the order in which snapshot loads and reset clears them.
SnapshotOrderSlip ==
  <<"messages", "added", "cancelled", "replaced", "executed", "rejected", "trades", "trades">>

SnapshotOrder ==
  <<"messages", "added", "cancelled", "replaced", "executed", "rejected", "trades", "shares">>

Counters == {"messages", "added", "cancelled", "replaced", "executed",
             "rejected", "trades", "shares"}

\* What the replay thread reads, which has made all stores itself.
Latest(c) == Last(writes[c])

LatestSnapshot == [c \in Counters |-> Latest(c)]

-----------------------------------------------------------------------------
(* Updates                                                                 *)

Add(c, n) == [counter |-> c, op |-> "fetch_add", arg |-> n]

Inc(c) == Add(c, 1)

Store(c, n) == [counter |-> c, op |-> "store", arg |-> n]

\* inc_trade
IncTrade(shares) == <<Inc("trades"), Add("shares", shares)>>

ResetSlip == [k \in 1 .. 7 |-> Store(SnapshotOrder[k], 0)]

\* reset
Reset == [k \in 1 .. 8 |-> Store(SnapshotOrder[k], 0)]

\* A store of the value that is already there cannot be told from none.
Written(values, v) == IF Last(values) = v THEN values ELSE Append(values, v)

-----------------------------------------------------------------------------
(* The replay thread                                                       *)

\* What a handler does to the counters after inc_message, by its outcome.
Updates(outcome, shares) ==
  CASE outcome = "dropped" -> << >>
    [] outcome = "partial" -> IncTrade(shares) \o <<Inc("executed")>>
    [] outcome = "filled"  -> IncTrade(shares) \o <<Inc("cancelled")>>
    [] OTHER               -> <<Inc(outcome)>>

\* on_add_order reads messages_processed by a snapshot of its own.
OverLimit == MaxMessages > 0 /\ Latest("messages") + 1 > MaxMessages

OnAddOrder == IF OverLimit THEN {"dropped"} ELSE {"added", "rejected"}

OnOrderExecuted == {"dropped", "partial", "filled"}

OnOrderCancel == {"dropped", "cancelled"}

OnOrderDelete == {"cancelled"}

OnOrderReplace == {"replaced", "rejected"}

Outcomes == {"dropped", "added", "rejected", "partial", "filled", "cancelled", "replaced"}

NoneHandled == [o \in Outcomes \cup {"shares"} |-> 0]

\* run, up to the end of reset.
StartRun ==
  /\ ~ running
  /\ runs < Runs
  /\ running' = TRUE
  /\ runs' = runs + 1
  /\ todo' = Reset
  /\ handled' = NoneHandled
  /\ UNCHANGED <<writes, left, report>>

\* The parser calls the handler of the next message.
HandleMessage ==
  /\ running
  /\ todo = << >>
  /\ left > 0
  /\ left' = left - 1
  /\ \E outcome \in OnAddOrder \cup OnOrderExecuted \cup OnOrderCancel
                      \cup OnOrderDelete \cup OnOrderReplace,
        shares \in Quantities :
       /\ todo' = <<Inc("messages")>> \o Updates(outcome, shares)
       /\ handled' = [handled EXCEPT
            ![outcome] = @ + 1,
            !["shares"] = IF outcome \in {"partial", "filled"} THEN @ + shares ELSE @]
  /\ UNCHANGED <<writes, running, runs, report>>

\* The next update of the handler, or of reset.
Update ==
  /\ todo # << >>
  /\ LET u == Head(todo)
         v == IF u.op = "store" THEN u.arg ELSE Latest(u.counter) + u.arg
     IN writes' = [writes EXCEPT ![u.counter] = Written(@, v)]
  /\ todo' = Tail(todo)
  /\ UNCHANGED <<left, running, runs, report, handled>>

\* The buffer of this run is at its end: run returns a snapshot.
FinishRun ==
  /\ running
  /\ todo = << >>
  /\ report' = LatestSnapshot
  /\ running' = FALSE
  /\ UNCHANGED <<writes, todo, left, runs, handled>>

ReplayThread ==
  /\ StartRun \/ HandleMessage \/ Update \/ FinishRun
  /\ UNCHANGED <<seen, loads>>

-----------------------------------------------------------------------------
(* The monitoring thread                                                   *)

\* The next load of a snapshot, from counter c, returns the k-th value of c.
Load(c, k) ==
  LET n == (loads % 8) + 1 IN
  /\ SnapshotOrder[n] = c
  /\ k \in seen[c] .. Len(writes[c])
  /\ seen' = [seen EXCEPT ![c] = k]
  /\ loads' = n
  /\ UNCHANGED replayThread

Monitor == \E c \in Counters : \E k \in DOMAIN writes[c] : Load(c, k)

\* A load that returns the latest value for the first time.
CatchUp == \E c \in Counters : seen[c] # Len(writes[c]) /\ Load(c, Len(writes[c]))

\* The snapshot of the monitor, complete when loads is 8.
Snapshot == [c \in Counters |-> writes[c][seen[c]]]

-----------------------------------------------------------------------------

Init ==
  /\ writes = [c \in Counters |-> <<0>>]
  /\ todo = << >>
  /\ left = Messages
  /\ running = FALSE
  /\ runs = 0
  /\ report = [c \in Counters |-> 0]
  /\ handled = NoneHandled
  /\ seen = [c \in Counters |-> 1]
  /\ loads = 0

Next == ReplayThread \/ Monitor

Spec == Init /\ [][Next]_vars

\* The monitor goes on taking snapshots, and a store becomes visible to it in
\* finite time: loads do not return old values for ever.  The replay thread may
\* stop anywhere.
FairSpec == Spec /\ WF_vars(Monitor) /\ SF_vars(CatchUp)

-----------------------------------------------------------------------------
(* Properties                                                              *)

\* The snapshot s is what the messages handled amount to.
Accounts(s) ==
  /\ s["messages"] = handled["dropped"] + handled["added"] + handled["rejected"]
                       + handled["partial"] + handled["filled"]
                       + handled["cancelled"] + handled["replaced"]
  /\ s["added"] = handled["added"]
  /\ s["rejected"] = handled["rejected"]
  /\ s["replaced"] = handled["replaced"]
  /\ s["executed"] = handled["partial"]
  /\ s["cancelled"] = handled["cancelled"] + handled["filled"]
  /\ s["trades"] = handled["partial"] + handled["filled"]
  /\ s["shares"] = handled["shares"]

\* What run returns accounts for every message of this run, and of no earlier
\* one: each is counted once as a message and once by its outcome, and no more
\* orders are added than there are messages within the limit.
ReportExact ==
  ~ running =>
    /\ Accounts(report)
    /\ MaxMessages > 0 => report["added"] <= MaxMessages

\* After the last run has returned, the monitor's snapshots come to show, and
\* go on showing, exactly what run returned, however late it saw each counter.
MonitorCatchesUp == <>[](~ running => Snapshot = report)

=============================================================================
