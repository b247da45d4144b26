-------------------------- MODULE StatsCounterProofs --------------------------
(* Theorems about StatsCounter, for every number of runs and messages, every *)
(* limit and every set of quantities.                                        *)
EXTENDS StatsCounter, SequenceTheorems, TLAPS

-----------------------------------------------------------------------------
(* The inductive invariant: the updates that are due, whether of a handler   *)
(* or of reset, bring the counters to values that account for the messages.  *)

AnUpdate == [counter : Counters, op : {"fetch_add", "store"}, arg : Nat]

\* The value that update u leaves in its counter.
Result(u) == IF u.op = "store" THEN u.arg ELSE Latest(u.counter) + u.arg

\* The counters have the values in final once the updates due are done.
Leads(final) ==
  /\ \A k \in DOMAIN todo : final[todo[k].counter] = Result(todo[k])
  /\ \A c \in Counters : (\A k \in DOMAIN todo : todo[k].counter # c) => final[c] = Latest(c)

StatsTypes ==
  /\ writes \in [Counters -> Seq(Nat)]
  /\ \A c \in Counters : writes[c] # << >>
  /\ todo \in Seq(AnUpdate)
  /\ handled \in [Outcomes \cup {"shares"} -> Nat]

\* No handler, and no reset, updates a counter twice.
UpdatesOnce == \A j, k \in DOMAIN todo : todo[j].counter = todo[k].counter => j = k

StatsInv ==
  /\ StatsTypes
  /\ UpdatesOnce
  /\ running => \E final \in [Counters -> Nat] : Leads(final) /\ Accounts(final)
  /\ ~ running => todo = << >> /\ Accounts(report)
  /\ MaxMessages > 0 => handled["added"] <= MaxMessages
  /\ ~ running /\ MaxMessages > 0 => report["added"] <= MaxMessages

-----------------------------------------------------------------------------

\* The last value stored is the one read next.
LEMMA LastWritten ==
  ASSUME NEW values \in Seq(Nat), values # << >>, NEW v \in Nat
  PROVE  /\ Last(values) \in Nat
         /\ Written(values, v) \in Seq(Nat)
         /\ Written(values, v) # << >>
         /\ Last(Written(values, v)) = v
<1>1. Len(values) \in Nat \ {0} /\ Last(values) = values[Len(values)]
  BY DEF Last
<1>2. Last(values) \in Nat
  BY <1>1
<1>3. /\ Append(values, v) \in Seq(Nat)
      /\ Append(values, v) # << >>
      /\ Last(Append(values, v)) = v
  BY <1>1, AppendProperties DEF Last
<1> QED BY <1>2, <1>3 DEF Written

LEMMA LatestType ==
  ASSUME StatsTypes, NEW c \in Counters
  PROVE  Latest(c) \in Nat
<1>1. writes[c] \in Seq(Nat) /\ writes[c] # << >> /\ 0 \in Nat
  BY DEF StatsTypes
<1> QED BY <1>1, LastWritten DEF Latest

LEMMA StatsInit == Init => StatsInv
<1> SUFFICES ASSUME Init PROVE StatsInv
  OBVIOUS
<1>1. StatsTypes
  BY DEF Init, StatsTypes, NoneHandled, AnUpdate
<1>2. todo = << >> /\ ~ running
  BY DEF Init
<1>3. Accounts(report)
  BY DEF Init, Accounts, NoneHandled, Counters, Outcomes
<1>4. handled["added"] = 0 /\ report["added"] = 0
  BY DEF Init, NoneHandled, Counters, Outcomes
<1> QED BY <1>1, <1>2, <1>3, <1>4, StatsAssumption DEF StatsInv, UpdatesOnce

\* Nothing is due and the counters account for what was handled.
LEMMA Settled ==
  ASSUME StatsInv, running, todo = << >>
  PROVE  /\ \A c \in Counters : Latest(c) \in Nat
         /\ Accounts(LatestSnapshot)
<1>1. PICK final \in [Counters -> Nat] : Leads(final) /\ Accounts(final)
  BY DEF StatsInv
<1>2. \A c \in Counters : final[c] = Latest(c)
  BY <1>1 DEF Leads
<1>3. final = LatestSnapshot
  BY <1>2 DEF LatestSnapshot
<1> QED BY <1>1, <1>2, <1>3

LEMMA StartRunInv ==
  ASSUME StatsInv, StartRun
  PROVE  StatsInv'
<1> DEFINE final == [c \in Counters |-> 0]
<1>1. /\ running' = TRUE /\ todo' = Reset /\ handled' = NoneHandled /\ writes' = writes
  BY DEF StartRun
<1>2. /\ DOMAIN Reset = 1 .. 8
      /\ \A k \in 1 .. 8 : Reset[k] = Store(SnapshotOrder[k], 0)
      /\ \A k \in 1 .. 8 : SnapshotOrder[k] \in Counters
      /\ \A j, k \in 1 .. 8 : SnapshotOrder[j] = SnapshotOrder[k] => j = k
      /\ \A c \in Counters : \E k \in 1 .. 8 : SnapshotOrder[k] = c
  BY DEF Reset, SnapshotOrder, Counters
<1>3. \A k \in 1 .. 8 : /\ Reset[k] \in AnUpdate
                        /\ Reset[k].counter = SnapshotOrder[k]
                        /\ Reset[k].op = "store"
                        /\ Reset[k].arg = 0
  BY <1>2 DEF Store, AnUpdate
<1>4. Reset \in Seq(AnUpdate)
  BY <1>3 DEF Reset
<1>5. StatsTypes'
  BY <1>1, <1>4 DEF StatsInv, StatsTypes, NoneHandled
<1>6. UpdatesOnce'
  BY <1>1, <1>2, <1>3 DEF UpdatesOnce
<1>7. Leads(final)'
  BY <1>1, <1>2, <1>3 DEF Leads, Result
<1>8. Accounts(final)'
  BY <1>1 DEF Accounts, NoneHandled, Counters, Outcomes
<1>9. handled'["added"] = 0
  BY <1>1 DEF NoneHandled, Outcomes
<1> QED BY <1>1, <1>5, <1>6, <1>7, <1>8, <1>9, StatsAssumption DEF StatsInv

\* One update brings its counter to where the updates due lead it.
LEMMA UpdateInv ==
  ASSUME StatsInv, Update
  PROVE  StatsInv'
<1>1. /\ todo # << >> /\ todo' = Tail(todo)
      /\ UNCHANGED <<running, report, handled>>
  BY DEF Update
<1>2. /\ Len(todo) \in Nat \ {0} /\ DOMAIN todo = 1 .. Len(todo)
      /\ todo \in Seq(AnUpdate)
      /\ \A k \in 1 .. Len(todo) : todo[k] \in AnUpdate
      /\ Head(todo) = todo[1]
      /\ Tail(todo) \in Seq(AnUpdate)
      /\ DOMAIN Tail(todo) = 1 .. Len(todo) - 1
      /\ \A k \in 1 .. Len(todo) - 1 : Tail(todo)[k] = todo[k + 1]
  BY <1>1 DEF StatsInv, StatsTypes
<1>3. PICK u \in AnUpdate : u = todo[1]
  BY <1>2
<1>4. PICK c \in Counters : c = u.counter
  BY DEF AnUpdate
<1>5. PICK final \in [Counters -> Nat] : Leads(final) /\ Accounts(final)
  BY <1>1 DEF StatsInv
<1>6. Result(u) = final[c] /\ final[c] \in Nat
  BY <1>2, <1>3, <1>4, <1>5 DEF Leads
<1>7. /\ writes' \in [Counters -> Seq(Nat)]
      /\ \A d \in Counters : writes'[d] # << >>
      /\ Latest(c)' = final[c]
      /\ \A d \in Counters : d # c => Latest(d)' = Latest(d)
  <2>1. /\ writes[c] \in Seq(Nat) /\ writes[c] # << >>
        /\ writes \in [Counters -> Seq(Nat)]
        /\ \A d \in Counters : writes[d] # << >>
    BY DEF StatsInv, StatsTypes
  <2>2. PICK w \in Seq(Nat) : w = Written(writes[c], final[c]) /\ w # << >> /\ Last(w) = final[c]
    BY <1>6, <2>1, LastWritten
  <2>3. writes' = [writes EXCEPT ![c] = w]
    BY <1>2, <1>3, <1>4, <1>6, <2>2 DEF Update, Result
  <2> QED BY <2>1, <2>2, <2>3 DEF Latest
<1>8. \A k \in 1 .. Len(todo) - 1 : /\ todo'[k] = todo[k + 1]
                                    /\ todo'[k] \in AnUpdate
                                    /\ todo'[k].counter # c
  <2> TAKE k \in 1 .. Len(todo) - 1
  <2>1. k + 1 \in 1 .. Len(todo) /\ 1 \in 1 .. Len(todo) /\ k + 1 # 1
    BY <1>2
  <2>2. todo[k + 1].counter # todo[1].counter
    BY <1>2, <2>1 DEF StatsInv, UpdatesOnce
  <2> QED BY <1>1, <1>2, <1>3, <1>4, <2>1, <2>2
<1>9. StatsTypes'
  BY <1>1, <1>2, <1>7 DEF StatsInv, StatsTypes
<1>10. UpdatesOnce'
  <2> SUFFICES ASSUME NEW j \in 1 .. Len(todo) - 1, NEW k \in 1 .. Len(todo) - 1,
                      todo'[j].counter = todo'[k].counter
               PROVE  j = k
    BY <1>1, <1>2 DEF UpdatesOnce
  <2>1. j + 1 \in DOMAIN todo /\ k + 1 \in DOMAIN todo
    BY <1>2
  <2>2. j + 1 = k + 1
    BY <1>8, <2>1 DEF StatsInv, UpdatesOnce
  <2> QED BY <2>2
<1>11. Leads(final)'
  <2>1. ASSUME NEW k \in DOMAIN todo'
        PROVE  (final[todo[k].counter] = Result(todo[k]))'
    <3>1. k \in 1 .. Len(todo) - 1 /\ k + 1 \in DOMAIN todo
      BY <1>1, <1>2
    <3>2. PICK v \in AnUpdate : v = todo[k + 1] /\ v = todo'[k] /\ v.counter # c
      BY <1>8, <3>1
    <3>3. final[v.counter] = Result(v)
      BY <1>5, <3>1, <3>2 DEF Leads
    <3>4. PICK d \in Counters : d = v.counter
      BY DEF AnUpdate
    <3>5. Latest(v.counter)' = Latest(v.counter)
      BY <1>7, <3>2, <3>4
    <3>6. Result(v)' = Result(v)
      BY <3>5 DEF Result
    <3> QED BY <3>2, <3>3, <3>6 DEF Result
  <2>2. ASSUME NEW d \in Counters, \A k \in DOMAIN todo' : todo'[k].counter # d
        PROVE  final[d] = Latest(d)'
    <3>1. CASE d = c
      BY <1>7, <3>1
    <3>2. CASE d # c
      <4>1. ASSUME NEW k \in DOMAIN todo PROVE todo[k].counter # d
        <5>1. CASE k = 1
          BY <1>3, <1>4, <3>2, <5>1
        <5>2. CASE k # 1
          <6>1. k - 1 \in 1 .. Len(todo) - 1 /\ k - 1 + 1 = k
            BY <1>2, <5>2
          <6> QED BY <1>1, <1>2, <1>8, <2>2, <6>1
        <5> QED BY <5>1, <5>2
      <4>2. final[d] = Latest(d)
        BY <1>5, <4>1 DEF Leads
      <4> QED BY <1>7, <3>2, <4>2
    <3> QED BY <3>1, <3>2
  <2> QED BY <2>1, <2>2 DEF Leads
<1>12. Accounts(final)'
  BY <1>1, <1>5 DEF Accounts
<1> QED BY <1>1, <1>9, <1>10, <1>11, <1>12 DEF StatsInv

\* The concatenations that make a handler's updates.
LEMMA JoinTwo ==
  ASSUME NEW a, NEW b
  PROVE  <<a>> \o <<b>> = <<a, b>>
<1> DEFINE S == {a, b}
<1>1. /\ <<a>> \in Seq(S) /\ Len(<<a>>) = 1
      /\ <<b>> \in Seq(S) /\ Len(<<b>>) = 1
  OBVIOUS
<1>2. PICK p : p = <<a>> \o <<b>>
  OBVIOUS
<1>3. /\ p \in Seq(S) /\ Len(p) = 2
      /\ \A k \in 1 .. 2 : p[k] = IF k = 1 THEN a ELSE <<b>>[k - 1]
  BY <1>1, <1>2
<1>4. p[1] = a /\ p[2] = b
  BY <1>3
<1>5. p = <<a, b>>
  BY <1>3, <1>4
<1> QED BY <1>2, <1>5

LEMMA JoinThree ==
  ASSUME NEW a, NEW b, NEW c
  PROVE  <<a, b>> \o <<c>> = <<a, b, c>>
<1> DEFINE S == {a, b, c}
<1>1. /\ <<a, b>> \in Seq(S) /\ Len(<<a, b>>) = 2
      /\ <<c>> \in Seq(S) /\ Len(<<c>>) = 1
  OBVIOUS
<1>2. PICK p : p = <<a, b>> \o <<c>>
  OBVIOUS
<1>3. /\ p \in Seq(S) /\ Len(p) = 3
      /\ \A k \in 1 .. 3 : p[k] = IF k <= 2 THEN <<a, b>>[k] ELSE <<c>>[k - 2]
  BY <1>1, <1>2
<1>4. p[1] = a /\ p[2] = b /\ p[3] = c
  BY <1>3
<1>5. p = <<a, b, c>>
  BY <1>3, <1>4
<1> QED BY <1>2, <1>5

LEMMA JoinFour ==
  ASSUME NEW a, NEW b, NEW c, NEW d
  PROVE  <<a>> \o <<b, c, d>> = <<a, b, c, d>>
<1> DEFINE S == {a, b, c, d}
<1>1. /\ <<a>> \in Seq(S) /\ Len(<<a>>) = 1
      /\ <<b, c, d>> \in Seq(S) /\ Len(<<b, c, d>>) = 3
  OBVIOUS
<1>2. PICK p : p = <<a>> \o <<b, c, d>>
  OBVIOUS
<1>3. /\ p \in Seq(S) /\ Len(p) = 4
      /\ \A k \in 1 .. 4 : p[k] = IF k = 1 THEN a ELSE <<b, c, d>>[k - 1]
  BY <1>1, <1>2
<1>4. p[1] = a /\ p[2] = b /\ p[3] = c /\ p[4] = d
  BY <1>3
<1>5. p = <<a, b, c, d>>
  BY <1>3, <1>4
<1> QED BY <1>2, <1>5

\* The updates of a handler, by its outcome.
HandlerDoes(outcome, shares) ==
  CASE outcome = "dropped" -> <<Inc("messages")>>
    [] outcome = "partial" ->
         <<Inc("messages"), Inc("trades"), Add("shares", shares), Inc("executed")>>
    [] outcome = "filled"  ->
         <<Inc("messages"), Inc("trades"), Add("shares", shares), Inc("cancelled")>>
    [] OTHER               -> <<Inc("messages"), Inc(outcome)>>

LEMMA HandlerUpdates ==
  ASSUME NEW outcome \in Outcomes, NEW shares \in Nat
  PROVE  <<Inc("messages")>> \o Updates(outcome, shares) = HandlerDoes(outcome, shares)
<1>1. PICK m, t, n, x, y : /\ m = Inc("messages") /\ t = Inc("trades")
                           /\ n = Add("shares", shares)
                           /\ x = Inc("executed") /\ y = Inc("cancelled")
  OBVIOUS
<1>2. /\ <<m>> \o << >> = <<m>>
      /\ \A o : <<m>> \o <<o>> = <<m, o>>
      /\ <<t, n>> \o <<x>> = <<t, n, x>> /\ <<m>> \o <<t, n, x>> = <<m, t, n, x>>
      /\ <<t, n>> \o <<y>> = <<t, n, y>> /\ <<m>> \o <<t, n, y>> = <<m, t, n, y>>
  <2>1. <<m>> \o << >> = <<m>>
    OBVIOUS
  <2>2. \A o : <<m>> \o <<o>> = <<m, o>>
    BY JoinTwo
  <2>3. <<t, n>> \o <<x>> = <<t, n, x>> /\ <<t, n>> \o <<y>> = <<t, n, y>>
    BY JoinThree
  <2>4. <<m>> \o <<t, n, x>> = <<m, t, n, x>> /\ <<m>> \o <<t, n, y>> = <<m, t, n, y>>
    BY JoinFour
  <2> QED BY <2>1, <2>2, <2>3, <2>4
<1>3. CASE outcome = "dropped"
  BY <1>1, <1>2, <1>3 DEF Updates, HandlerDoes
<1>4. CASE outcome = "partial"
  BY <1>1, <1>2, <1>4 DEF Updates, HandlerDoes, IncTrade
<1>5. CASE outcome = "filled"
  BY <1>1, <1>2, <1>5 DEF Updates, HandlerDoes, IncTrade
<1>6. CASE outcome \in {"added", "rejected", "cancelled", "replaced"}
  BY <1>1, <1>2, <1>6 DEF Updates, HandlerDoes
<1> QED BY <1>3, <1>4, <1>5, <1>6 DEF Outcomes

\* Where an update list of distinct additions leads from settled counters.
Gains(outcome, shares) ==
  [c \in Counters |->
     CASE c = "messages"  -> 1
       [] c = "added"     -> IF outcome = "added" THEN 1 ELSE 0
       [] c = "rejected"  -> IF outcome = "rejected" THEN 1 ELSE 0
       [] c = "replaced"  -> IF outcome = "replaced" THEN 1 ELSE 0
       [] c = "cancelled" -> IF outcome \in {"cancelled", "filled"} THEN 1 ELSE 0
       [] c = "executed"  -> IF outcome = "partial" THEN 1 ELSE 0
       [] c = "trades"    -> IF outcome \in {"partial", "filled"} THEN 1 ELSE 0
       [] c = "shares"    -> IF outcome \in {"partial", "filled"} THEN shares ELSE 0]

\* The updates t are additions to distinct counters, of the gains.
GainedBy(t, gains) ==
  /\ t \in Seq(AnUpdate)
  /\ \A j, k \in DOMAIN t : t[j].counter = t[k].counter => j = k
  /\ \A k \in DOMAIN t : t[k].op = "fetch_add" /\ t[k].arg = gains[t[k].counter]
  /\ \A c \in Counters : (\A k \in DOMAIN t : t[k].counter # c) => gains[c] = 0
  /\ gains \in [Counters -> Nat]

\* The updates of a handler are additions, each of what its counter gains, and
\* a counter that they do not name gains nothing.
LEMMA HandlerGains ==
  ASSUME NEW outcome \in Outcomes, NEW shares \in Nat
  PROVE  GainedBy(HandlerDoes(outcome, shares), Gains(outcome, shares))
<1> DEFINE t == HandlerDoes(outcome, shares)
<1> DEFINE gains == Gains(outcome, shares)
<1>1. gains \in [Counters -> Nat]
  BY DEF Gains, Counters
<1>2. CASE outcome = "dropped"
  BY <1>1, <1>2 DEF GainedBy, HandlerDoes, Inc, Add, Gains, Counters, AnUpdate
<1>3. CASE outcome \in {"added", "rejected", "cancelled", "replaced"}
  <2>1. CASE outcome = "added"
    BY <1>1, <2>1 DEF GainedBy, HandlerDoes, Inc, Add, Gains, Counters, AnUpdate
  <2>2. CASE outcome = "rejected"
    BY <1>1, <2>2 DEF GainedBy, HandlerDoes, Inc, Add, Gains, Counters, AnUpdate
  <2>3. CASE outcome = "cancelled"
    BY <1>1, <2>3 DEF GainedBy, HandlerDoes, Inc, Add, Gains, Counters, AnUpdate
  <2>4. CASE outcome = "replaced"
    BY <1>1, <2>4 DEF GainedBy, HandlerDoes, Inc, Add, Gains, Counters, AnUpdate
  <2> QED BY <1>3, <2>1, <2>2, <2>3, <2>4
<1>4. CASE outcome = "partial"
  BY <1>1, <1>4 DEF GainedBy, HandlerDoes, Inc, Add, Gains, Counters, AnUpdate
<1>5. CASE outcome = "filled"
  BY <1>1, <1>5 DEF GainedBy, HandlerDoes, Inc, Add, Gains, Counters, AnUpdate
<1> QED BY <1>2, <1>3, <1>4, <1>5 DEF Outcomes

\* The handler of a message: once its updates are done, the counters account
\* for that message as well.  A message over the limit is dropped, and until
\* then no more orders are added than messages are counted.
LEMMA HandleMessageInv ==
  ASSUME StatsInv, HandleMessage
  PROVE  StatsInv'
<1>1. /\ running /\ todo = << >>
      /\ UNCHANGED <<writes, running, runs, report>>
  BY DEF HandleMessage
<1>2. PICK outcome \in Outcomes, shares \in Quantities :
        /\ outcome = "added" => ~ OverLimit
        /\ todo' = <<Inc("messages")>> \o Updates(outcome, shares)
        /\ handled' = [handled EXCEPT
             ![outcome] = @ + 1,
             !["shares"] = IF outcome \in {"partial", "filled"} THEN @ + shares ELSE @]
  BY DEF HandleMessage, OnAddOrder, OnOrderExecuted, OnOrderCancel, OnOrderDelete,
         OnOrderReplace, Outcomes
<1>3. shares \in Nat
  BY StatsAssumption
<1>4. /\ \A c \in Counters : Latest(c) \in Nat
      /\ Accounts(LatestSnapshot)
  BY <1>1, Settled
<1>5. PICK gains : gains = Gains(outcome, shares)
  OBVIOUS
<1>6. PICK t : t = HandlerDoes(outcome, shares)
  OBVIOUS
<1>7. GainedBy(t, gains)
  BY <1>3, <1>5, <1>6, HandlerGains
<1>8. /\ t \in Seq(AnUpdate) /\ gains \in [Counters -> Nat]
      /\ \A j, k \in DOMAIN t : t[j].counter = t[k].counter => j = k
      /\ \A k \in DOMAIN t : t[k].op = "fetch_add" /\ t[k].arg = gains[t[k].counter]
      /\ \A c \in Counters : (\A k \in DOMAIN t : t[k].counter # c) => gains[c] = 0
  BY <1>7 DEF GainedBy
<1>9. todo' = t
  BY <1>2, <1>3, <1>6, HandlerUpdates
<1>10. PICK snapshot \in [Counters -> Nat] : snapshot = LatestSnapshot
  BY <1>4 DEF LatestSnapshot
<1>11. \A c \in Counters : snapshot[c] = Latest(c) /\ Latest(c)' = Latest(c)
  BY <1>1, <1>10 DEF LatestSnapshot, Latest
<1>12. PICK final \in [Counters -> Nat] : \A c \in Counters : final[c] = snapshot[c] + gains[c]
  <2>1. [c \in Counters |-> snapshot[c] + gains[c]] \in [Counters -> Nat]
    BY <1>8
  <2> QED BY <2>1
<1>13. handled \in [Outcomes \cup {"shares"} -> Nat]
  BY DEF StatsInv, StatsTypes
<1>14. /\ handled' \in [Outcomes \cup {"shares"} -> Nat]
       /\ \A o \in Outcomes : handled'[o] = handled[o] + (IF o = outcome THEN 1 ELSE 0)
       /\ handled'["shares"] =
            handled["shares"] + (IF outcome \in {"partial", "filled"} THEN shares ELSE 0)
  <2>1. "shares" \notin Outcomes
    BY DEF Outcomes
  <2>2. PICK counted : counted = [handled EXCEPT ![outcome] = handled[outcome] + 1]
    OBVIOUS
  <2>3. /\ counted \in [Outcomes \cup {"shares"} -> Nat]
        /\ \A o \in Outcomes : counted[o] = handled[o] + (IF o = outcome THEN 1 ELSE 0)
        /\ counted["shares"] = handled["shares"]
    BY <1>13, <2>1, <2>2
  <2>4. PICK traded \in Nat :
          traded = handled["shares"] + (IF outcome \in {"partial", "filled"} THEN shares ELSE 0)
    BY <1>3, <1>13
  <2>5. handled' = [counted EXCEPT !["shares"] = traded]
    <3>1. CASE outcome \in {"partial", "filled"}
      BY <1>2, <1>13, <2>1, <2>2, <2>3, <2>4, <3>1
    <3>2. CASE outcome \notin {"partial", "filled"}
      <4>1. handled["shares"] \in Nat
        BY <1>13
      <4>2. traded = counted["shares"]
        BY <1>3, <2>3, <2>4, <3>2, <4>1
      <4> QED BY <1>2, <1>13, <2>1, <2>2, <2>3, <3>2, <4>2
    <3> QED BY <3>1, <3>2
  <2> QED BY <2>1, <2>3, <2>4, <2>5
<1>15. StatsTypes'
  BY <1>1, <1>8, <1>9, <1>14 DEF StatsInv, StatsTypes
<1>16. UpdatesOnce'
  BY <1>8, <1>9 DEF UpdatesOnce
<1>17. Leads(final)'
  <2>1. ASSUME NEW k \in DOMAIN t
        PROVE  final[t[k].counter] = Result(t[k])'
    <3>1. PICK u \in AnUpdate : u = t[k]
      BY <1>8
    <3>2. PICK c \in Counters : c = u.counter
      BY DEF AnUpdate
    <3>3. u.op = "fetch_add" /\ u.arg = gains[c]
      BY <1>8, <3>1, <3>2
    <3>4. Result(u)' = Latest(c)' + gains[c]
      BY <3>2, <3>3 DEF Result
    <3> QED BY <1>11, <1>12, <3>1, <3>2, <3>4
  <2>2. ASSUME NEW c \in Counters, \A k \in DOMAIN t : t[k].counter # c
        PROVE  final[c] = Latest(c)'
    <3>1. gains[c] = 0
      BY <1>8, <2>2
    <3> QED BY <1>4, <1>11, <1>12, <3>1
  <2> QED BY <1>9, <2>1, <2>2 DEF Leads
<1>18. Accounts(final)'
  <2>1. Accounts(snapshot)
    BY <1>4, <1>10
  <2>2. \A o \in Outcomes : handled[o] \in Nat
    BY <1>13
  <2>3. /\ gains["messages"] = 1
        /\ gains["added"] = IF outcome = "added" THEN 1 ELSE 0
        /\ gains["rejected"] = IF outcome = "rejected" THEN 1 ELSE 0
        /\ gains["replaced"] = IF outcome = "replaced" THEN 1 ELSE 0
        /\ gains["cancelled"] = IF outcome \in {"cancelled", "filled"} THEN 1 ELSE 0
        /\ gains["executed"] = IF outcome = "partial" THEN 1 ELSE 0
        /\ gains["trades"] = IF outcome \in {"partial", "filled"} THEN 1 ELSE 0
        /\ gains["shares"] = IF outcome \in {"partial", "filled"} THEN shares ELSE 0
    BY <1>5 DEF Gains, Counters
  <2>4. \A c \in Counters : final[c] = snapshot[c] + gains[c]
    BY <1>12
  <2>5. /\ final["messages"] = snapshot["messages"] + gains["messages"]
        /\ final["added"] = snapshot["added"] + gains["added"]
        /\ final["rejected"] = snapshot["rejected"] + gains["rejected"]
        /\ final["replaced"] = snapshot["replaced"] + gains["replaced"]
        /\ final["cancelled"] = snapshot["cancelled"] + gains["cancelled"]
        /\ final["executed"] = snapshot["executed"] + gains["executed"]
        /\ final["trades"] = snapshot["trades"] + gains["trades"]
        /\ final["shares"] = snapshot["shares"] + gains["shares"]
    BY <2>4 DEF Counters
  <2>6. /\ handled'["dropped"] = handled["dropped"] + (IF outcome = "dropped" THEN 1 ELSE 0)
        /\ handled'["added"] = handled["added"] + (IF outcome = "added" THEN 1 ELSE 0)
        /\ handled'["rejected"] = handled["rejected"] + (IF outcome = "rejected" THEN 1 ELSE 0)
        /\ handled'["partial"] = handled["partial"] + (IF outcome = "partial" THEN 1 ELSE 0)
        /\ handled'["filled"] = handled["filled"] + (IF outcome = "filled" THEN 1 ELSE 0)
        /\ handled'["cancelled"] = handled["cancelled"] + (IF outcome = "cancelled" THEN 1 ELSE 0)
        /\ handled'["replaced"] = handled["replaced"] + (IF outcome = "replaced" THEN 1 ELSE 0)
    BY <1>14 DEF Outcomes
  <2>7. \A o \in Outcomes \cup {"shares"} : handled[o] \in Nat
    BY <1>13
  <2>8. /\ handled["dropped"] \in Nat /\ handled["added"] \in Nat /\ handled["rejected"] \in Nat
        /\ handled["partial"] \in Nat /\ handled["filled"] \in Nat
        /\ handled["cancelled"] \in Nat /\ handled["replaced"] \in Nat
        /\ handled["shares"] \in Nat
    BY <2>7 DEF Outcomes
  <2>9. final["messages"] = handled'["dropped"] + handled'["added"] + handled'["rejected"]
                              + handled'["partial"] + handled'["filled"]
                              + handled'["cancelled"] + handled'["replaced"]
    BY <2>1, <2>3, <2>5, <2>6, <2>8 DEF Accounts, Outcomes
  <2>10. final["added"] = handled'["added"] /\ final["rejected"] = handled'["rejected"]
    BY <2>1, <2>3, <2>5, <2>6, <2>8 DEF Accounts
  <2>11. final["replaced"] = handled'["replaced"] /\ final["executed"] = handled'["partial"]
    BY <2>1, <2>3, <2>5, <2>6, <2>8 DEF Accounts
  <2>12. /\ final["cancelled"] = handled'["cancelled"] + handled'["filled"]
         /\ final["trades"] = handled'["partial"] + handled'["filled"]
    BY <2>1, <2>3, <2>5, <2>6, <2>8 DEF Accounts
  <2>13. final["shares"] = handled'["shares"]
    BY <1>14, <2>1, <2>3, <2>5 DEF Accounts
  <2> QED BY <2>9, <2>10, <2>11, <2>12, <2>13 DEF Accounts
<1>19. ASSUME MaxMessages > 0 PROVE handled'["added"] <= MaxMessages
  <2>1. "added" \in Outcomes /\ handled["added"] \in Nat /\ handled["added"] <= MaxMessages
    BY <1>13, <1>19 DEF StatsInv, Outcomes
  <2>2. CASE outcome # "added"
    BY <1>14, <2>1, <2>2
  <2>3. CASE outcome = "added"
    <3>1. "messages" \in Counters /\ "added" \in Counters
      BY DEF Counters
    <3>2. PICK m \in Nat : m = Latest("messages")
      BY <1>4, <3>1
    <3>3. m + 1 <= MaxMessages
      <4>1. ~ (m + 1 > MaxMessages)
        BY <1>2, <1>19, <2>3, <3>2 DEF OverLimit
      <4> QED BY <3>2, <4>1, StatsAssumption
    <3>4. Accounts(snapshot) /\ snapshot["messages"] = m
      BY <1>4, <1>10, <1>11, <3>1, <3>2
    <3>5. \A o \in Outcomes : handled[o] \in Nat
      BY <1>13
    <3>6. handled["added"] <= m
      <4>1. /\ handled["dropped"] \in Nat /\ handled["added"] \in Nat
            /\ handled["rejected"] \in Nat /\ handled["partial"] \in Nat
            /\ handled["filled"] \in Nat /\ handled["cancelled"] \in Nat
            /\ handled["replaced"] \in Nat
        BY <3>5 DEF Outcomes
      <4> QED BY <3>4, <4>1 DEF Accounts
    <3> QED BY <1>14, <2>1, <2>3, <3>3, <3>6, StatsAssumption
  <2> QED BY <2>2, <2>3
<1> QED BY <1>1, <1>15, <1>16, <1>17, <1>18, <1>19 DEF StatsInv

\* run returns what the counters have settled at.
LEMMA FinishRunInv ==
  ASSUME StatsInv, FinishRun
  PROVE  StatsInv'
<1>1. /\ running /\ todo = << >> /\ running' = FALSE /\ report' = LatestSnapshot
      /\ UNCHANGED <<writes, todo, handled>>
  BY DEF FinishRun
<1>2. PICK snapshot : snapshot = LatestSnapshot
  OBVIOUS
<1>3. Accounts(snapshot) /\ report' = snapshot
  BY <1>1, <1>2, Settled
<1>4. Accounts(report)'
  BY <1>1, <1>3 DEF Accounts
<1>5. handled'["added"] = handled["added"] /\ report'["added"] = handled["added"]
  BY <1>1, <1>3 DEF Accounts
<1>6. StatsTypes' /\ UpdatesOnce'
  BY <1>1 DEF StatsInv, StatsTypes, UpdatesOnce
<1> QED BY <1>1, <1>4, <1>5, <1>6 DEF StatsInv

\* The monitor only reads.
LEMMA ReadInv ==
  ASSUME StatsInv, UNCHANGED replayThread
  PROVE  StatsInv'
<1>1. UNCHANGED <<writes, todo, running, report, handled>>
  BY DEF replayThread
<1>2. StatsTypes' /\ UpdatesOnce'
  BY <1>1 DEF StatsInv, StatsTypes, UpdatesOnce
<1>3. ASSUME NEW final \in [Counters -> Nat], Leads(final), Accounts(final)
      PROVE  Leads(final)' /\ Accounts(final)'
  BY <1>1, <1>3 DEF Leads, Accounts, Result, Latest
<1>4. ~ running' => todo' = << >> /\ Accounts(report)'
  BY <1>1 DEF StatsInv, Accounts
<1> QED BY <1>1, <1>2, <1>3, <1>4 DEF StatsInv

LEMMA StatsStep ==
  ASSUME StatsInv, [Next]_vars
  PROVE  StatsInv'
<1>1. CASE StartRun
  BY <1>1, StartRunInv
<1>2. CASE HandleMessage
  BY <1>2, HandleMessageInv
<1>3. CASE Update
  BY <1>3, UpdateInv
<1>4. CASE FinishRun
  BY <1>4, FinishRunInv
<1>5. CASE Monitor
  BY <1>5, ReadInv DEF Monitor, Load
<1>6. CASE UNCHANGED vars
  BY <1>6, ReadInv DEF vars
<1> QED BY <1>1, <1>2, <1>3, <1>4, <1>5, <1>6 DEF Next, ReplayThread

\* Whatever run returns counts every message of its run and no other, once as
\* a message and once by its outcome (stats_counter.h and the handlers of
\* replay_engine.h), and at most max_messages orders are added, for every
\* number of runs and messages, and however the monitor reads meanwhile.
THEOREM ReportsAreExact == Spec => []ReportExact
<1>1. Init => StatsInv
  BY StatsInit
<1>2. StatsInv /\ [Next]_vars => StatsInv'
  BY StatsStep
<1>3. StatsInv => ReportExact
  BY DEF StatsInv, ReportExact
<1> QED BY <1>1, <1>2, <1>3, PTL DEF Spec

=============================================================================
