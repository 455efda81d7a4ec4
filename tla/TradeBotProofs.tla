--------------------------- MODULE TradeBotProofs ---------------------------
(***************************************************************************)
(* Proofs about TradeBot, for every number of managers and tweets, every   *)
(* parser outcome, every setting and every clock.                          *)
(***************************************************************************)
EXTENDS TradeBot, TLAPS, SequenceTheorems, FiniteSetTheorems

\* What a call <<t, k, m>> of the loop is made of: a tweet, one of its signals
\* with a ticker and an action, and a manager.
LEMMA ItemFacts ==
  ASSUME NEW w \in Items
  PROVE  /\ TweetOf(w) \in Tweets /\ w[2] \in DOMAIN SignalsOf[w[1]]
         /\ MgrOf(w) \in Managers
         /\ SignalOf(w).ticker \in Tickers /\ SignalOf(w).action \in Actions
<1>1. PICK t \in Tweets : w \in {t} \X (DOMAIN SignalsOf[t]) \X Managers
  BY DEF Items
<1>2. w[1] = t /\ w[2] \in DOMAIN SignalsOf[t] /\ w[3] \in Managers
  BY <1>1
<1>3. SignalsOf[t] \in Seq(Signal)
  BY ParserAssumption
<1>4. SignalsOf[t][w[2]] \in Signal
  BY <1>2, <1>3
<1>5. QED
  BY <1>2, <1>4 DEF TweetOf, MgrOf, SignalOf, Signal

\* NoItem is none of the calls.
LEMMA NoItemFact == NoItem \notin Items
<1>1. SUFFICES ASSUME NoItem \in Items PROVE FALSE
  OBVIOUS
<1>2. MgrOf(NoItem) \in Managers
  BY <1>1, ItemFacts
<1>3. QED
  BY <1>2, SizesAssumption DEF MgrOf, NoItem, Managers

\* The calls of an iteration are calls.
LEMMA WorkForFact == ASSUME NEW S PROVE WorkFor(S) \subseteq Items
  BY DEF WorkFor

\* The row that evaluate_and_execute or record_watch commits has its type.
LEMMA SignalRowType ==
  ASSUME NEW w \in Items, NEW ok \in BOOLEAN, now \in Time
  PROVE  SignalRow(w, ok) \in SignalRows
  BY ItemFacts DEF SignalRow, SignalRows

\* The row that create_trade_record makes has its type.
LEMMA TradeRowType ==
  ASSUME NEW w \in Items, now \in Time, sigId \in Nat, result \in Results
  PROVE  TradeRow(w) \in TradeRows
  BY ItemFacts, SizesAssumption DEF TradeRow, TradeRows, Results

\* Where the repair sends a row is a manager.
LEMMA RepairedOwnerType ==
  ASSUME NEW tr \in TradeRows, NEW L \in SUBSET Managers
  PROVE  RepairedOwner(tr, L) \in Managers
  BY SizesAssumption DEF RepairedOwner, TradeRows

\* A function on 1..n is a sequence of length n.
LEMMA FunctionIsSeq ==
  ASSUME NEW S, NEW n \in Nat, NEW f \in [1..n -> S]
  PROVE  f \in Seq(S) /\ Len(f) = n
<1>1. f \in Seq(S)
  BY SeqDef
<1>2. Len(f) \in Nat /\ DOMAIN f = 1..Len(f) /\ DOMAIN f = 1..n
  BY <1>1, LenProperties
<1>3. \A k, l \in Nat : 1..k = 1..l => k = l
  <2>1. TAKE k, l \in Nat
  <2>2. HAVE 1..k = 1..l
  <2>3. k <= l
    <3>1. k = 0 \/ k \in 1..k
      OBVIOUS
    <3>2. QED
      BY <2>2, <3>1
  <2>4. l <= k
    <3>1. l = 0 \/ l \in 1..l
      OBVIOUS
    <3>2. QED
      BY <2>2, <3>1
  <2>5. QED
    BY <2>3, <2>4
<1>4. QED
  BY <1>1, <1>2, <1>3

\* The repair keeps both tables, row for row, and changes no field but mgr.
LEMMA RepairTypes ==
  ASSUME TypeOK, NEW L \in SUBSET Managers
  PROVE  /\ RepairedTrades(L) \in Seq(TradeRows) /\ Len(RepairedTrades(L)) = Len(trades)
         /\ RepairedSignals(L) \in Seq(SignalRows) /\ Len(RepairedSignals(L)) = Len(signals)
<1>1. trades \in Seq(TradeRows) /\ signals \in Seq(SignalRows)
  BY DEF TypeOK
<1>2. \A i \in DOMAIN trades : [trades[i] EXCEPT !.mgr = RepairedOwner(trades[i], L)] \in TradeRows
  <2>1. TAKE i \in DOMAIN trades
  <2>2. trades[i] \in TradeRows
    BY <1>1
  <2>3. RepairedOwner(trades[i], L) \in Managers
    BY <2>2, RepairedOwnerType
  <2>4. QED
    BY <2>2, <2>3 DEF TradeRows
<1>3. ASSUME NEW j \in DOMAIN signals
      PROVE  RepairedSignals(L)[j] \in SignalRows
  <2>1. signals[j] \in SignalRows
    BY <1>1
  <2>2. CASE \E i \in DOMAIN trades : trades[i].sig = j
    <3> DEFINE c == CHOOSE i \in DOMAIN trades : trades[i].sig = j
    <3>1. c \in DOMAIN trades
      BY <2>2
    <3>2. RepairedOwner(trades[c], L) \in Managers
      BY <3>1, <1>1, RepairedOwnerType
    <3>3. RepairedSignals(L)[j] = [signals[j] EXCEPT !.mgr = RepairedOwner(trades[c], L)]
      BY <2>2 DEF RepairedSignals
    <3>4. QED
      BY <2>1, <3>2, <3>3 DEF SignalRows
  <2>3. CASE ~ \E i \in DOMAIN trades : trades[i].sig = j
    BY <2>1, <2>3, SizesAssumption DEF RepairedSignals, SignalRows
  <2>4. QED
    BY <2>2, <2>3
<1>4. DOMAIN trades = 1..Len(trades) /\ DOMAIN signals = 1..Len(signals)
      /\ Len(trades) \in Nat /\ Len(signals) \in Nat
  BY <1>1
<1>5. RepairedTrades(L) \in [1..Len(trades) -> TradeRows]
  BY <1>2, <1>4 DEF RepairedTrades
<1>6. RepairedSignals(L) \in [1..Len(signals) -> SignalRows]
  <2>1. DOMAIN RepairedSignals(L) = 1..Len(signals)
        /\ RepairedSignals(L) = [j \in DOMAIN signals |-> RepairedSignals(L)[j]]
    BY <1>4 DEF RepairedSignals
  <2>2. QED
    BY <1>3, <1>4, <2>1
<1>7. RepairedTrades(L) \in Seq(TradeRows) /\ Len(RepairedTrades(L)) = Len(trades)
  BY <1>4, <1>5, FunctionIsSeq, Zenon
<1>8. RepairedSignals(L) \in Seq(SignalRows) /\ Len(RepairedSignals(L)) = Len(signals)
  BY <1>4, <1>6, FunctionIsSeq, Zenon
<1>9. QED
  BY <1>7, <1>8

-----------------------------------------------------------------------------
\* The bot starts well typed.
LEMMA TypeInit == Init => TypeOK
<1> SUFFICES ASSUME Init PROVE TypeOK
  OBVIOUS
<1>1. now \in Time /\ crashes \in 0..MaxCrashes
  BY SizesAssumption, ClockAssumption DEF Init, Time
<1>2. signals \in Seq(SignalRows) /\ trades \in Seq(TradeRows) /\ sent \in Seq(Orders)
  BY DEF Init
<1>3. QED
  BY <1>1, <1>2 DEF Init, TypeOK, Working

\* Every step of the bot, a crash or a restart included, keeps the types.
LEMMA TypeNext == TypeOK /\ [Next]_vars => TypeOK'
<1> SUFFICES ASSUME TypeOK, [Next]_vars PROVE TypeOK'
  OBVIOUS
<1> USE NoItemFact
<1>a. NoResult \notin Results /\ NoResult.status = "none"
  BY DEF NoResult, Results
<1>b. cur \in Items <=> pc \in Working
  BY DEF TypeOK
<1>1. CASE Poll
  BY <1>1, WorkForFact DEF Poll, TypeOK, envVars, callVars, pauseVars, brokerVars, Working
<1>2. CASE Evaluate
  <2>1. cur \in Items
    BY <1>2, <1>b DEF Evaluate, Working
  <2>2. PICK sized \in BOOLEAN : signals' = Append(signals, SignalRow(cur, Allowed(cur, sized)))
    BY <1>2 DEF Evaluate
  <2>3. SignalRow(cur, Allowed(cur, sized)) \in SignalRows
    BY <2>1, SignalRowType DEF TypeOK, Allowed
  <2>4. signals' \in Seq(SignalRows)
    BY <2>2, <2>3 DEF TypeOK
  <2>5. /\ sigId' \in Nat
        /\ pc' \in {"next", "resizing", "ready"}
        /\ pc' = "next" => cur' = NoItem
        /\ pc' # "next" => cur' = cur
    BY <1>2 DEF Evaluate, TypeOK
  <2>6. UNCHANGED <<envVars, seen, trades, todo, result, pauseVars, brokerVars, sincePause>>
        /\ pc = "fetching"
    BY <1>2 DEF Evaluate
  <2>7. QED
    BY <2>1, <2>4, <2>5, <2>6 DEF TypeOK, envVars, pauseVars, brokerVars, Working
<1>3. CASE ResizeSell
  BY <1>3, <1>a, SizesAssumption
  DEF ResizeSell, TypeOK, envVars, dbVars, pauseVars, brokerVars, Working, Results, NoResult
<1>4. CASE NotSent
  BY <1>4, <1>a
  DEF NotSent, TypeOK, envVars, dbVars, pauseVars, brokerVars, Working, Results, NoResult
<1>5. CASE Submit
  <2>1. cur \in Items
    BY <1>5, <1>b DEF Submit, Working
  <2>2. [item |-> cur, at |-> now] \in Orders
    BY <2>1 DEF Orders, TypeOK
  <2>3. sent' \in Seq(Orders) /\ DOMAIN sent' = DOMAIN sent \cup {Len(sent) + 1}
    BY <1>5, <2>2 DEF Submit, TypeOK
  <2>4. QED
    BY <1>5, <2>1, <2>3
    DEF Submit, TypeOK, envVars, dbVars, callVars, pauseVars, Working
<1>6. CASE Simulate
  <2>1. cur \in Items
    BY <1>6, <1>b DEF Simulate, Working
  <2>2. result' \in Results
    BY <1>6, <2>1, ItemFacts DEF Simulate, Results
  <2>3. QED
    BY <1>6, <1>a, <2>1, <2>2
    DEF Simulate, TypeOK, envVars, dbVars, pauseVars, brokerVars, Working
<1>7. CASE Answered
  <2>1. cur \in Items
    BY <1>7, <1>b DEF Answered, Working
  <2>2. result' \in Results
    BY <1>7, <2>1, ItemFacts DEF Answered, Results
  <2>3. QED
    BY <1>7, <1>a, <2>1, <2>2
    DEF Answered, TypeOK, envVars, dbVars, pauseVars, brokerVars, Working
<1>8. CASE Raised
  BY <1>8, <1>a
  DEF Raised, TypeOK, envVars, dbVars, pauseVars, brokerVars, Working, Results, NoResult
<1>9. CASE Record
  <2>1. cur \in Items /\ result \in Results
    BY <1>9, <1>b DEF Record, Working, TypeOK
  <2>2. TradeRow(cur) \in TradeRows
    BY <2>1, TradeRowType DEF TypeOK
  <2>3. trades' \in Seq(TradeRows)
    BY <1>9, <2>2 DEF Record, TypeOK
  <2>4. QED
    BY <1>9, <2>3 DEF Record, TypeOK, envVars, pauseVars, brokerVars, Working
<1>10. CASE EndIteration
  BY <1>10 DEF EndIteration, TypeOK, envVars, dbVars, callVars, pauseVars, brokerVars, Working
<1>11. CASE IterationFails
  BY <1>11 DEF IterationFails, TypeOK, envVars, dbVars, pauseVars, brokerVars, Working
<1>12. ASSUME NEW w \in todo, SkipPaused(w)
       PROVE  TypeOK'
  BY <1>12 DEF SkipPaused, TypeOK, envVars, dbVars, callVars, pauseVars, brokerVars
<1>13. ASSUME NEW w \in todo, RecordWatch(w)
       PROVE  TypeOK'
  <2>1. SignalRow(w, TRUE) \in SignalRows
    BY SignalRowType DEF TypeOK
  <2>2. PICK row \in SignalRows : signals' = Append(signals, row)
    BY <1>13, <2>1, Zenon DEF RecordWatch
  <2>3. signals' \in Seq(SignalRows)
    BY <2>2 DEF TypeOK
  <2>4. QED
    BY <1>13, <2>3 DEF RecordWatch, TypeOK, envVars, callVars, pauseVars, brokerVars
<1>14. ASSUME NEW w \in todo, StartCall(w)
       PROVE  TypeOK'
  BY <1>14 DEF StartCall, TypeOK, envVars, dbVars, pauseVars, brokerVars, Working
<1>15. ASSUME NEW all \in BOOLEAN, NEW each \in [Managers -> BOOLEAN], SetPauses(all, each)
       PROVE  TypeOK'
  BY <1>15 DEF SetPauses, TypeOK, envVars, dbVars, callVars, brokerVars
<1>16. CASE Operator
  BY <1>16, <1>15
  DEF Operator, PauseAll, ResumeAll, PauseManager, ResumeManager, TypeOK
<1>17. CASE Broker
  BY <1>17 DEF Broker, BrokerAccepts, BrokerRefuses, TypeOK, envVars, dbVars, callVars, pauseVars
<1>18. CASE Crash
  <2>1. crashes' \in 0..MaxCrashes
    BY <1>18, SizesAssumption DEF Crash, TypeOK
  <2>2. mpaused' \in [Managers -> BOOLEAN] /\ paused' \in BOOLEAN
    BY <1>18 DEF Crash
  <2>3. UNCHANGED <<now, seen, signals, trades, sent, wire, accepted>>
        /\ pc' = "down" /\ todo' = {} /\ cur' = NoItem /\ sigId' = 0
        /\ result' = NoResult /\ sincePause' = 0 /\ held' = FALSE
    BY <1>18 DEF Crash, dbVars, brokerVars
  <2>4. QED
    BY <2>1, <2>2, <2>3 DEF TypeOK, Working
<1>19. CASE Restart
  <2>1. signals' \in Seq(SignalRows) /\ trades' \in Seq(TradeRows)
    BY <1>19, RepairTypes DEF Restart, TypeOK
  <2>2. QED
    BY <1>19, <2>1 DEF Restart, TypeOK, envVars, callVars, pauseVars, brokerVars, Working
<1>20. CASE Tick
  BY <1>20, ClockAssumption
  DEF Tick, TypeOK, dbVars, callVars, pauseVars, brokerVars, Time
<1>21. CASE Login \/ UNCHANGED vars
  BY <1>21 DEF Login, LoginBlocks, LoginReturns, vars, TypeOK, envVars, dbVars, callVars, pauseVars, brokerVars
<1>22. QED
  BY <1>1, <1>2, <1>3, <1>4, <1>5, <1>6, <1>7, <1>8, <1>9, <1>10, <1>11, <1>12, <1>13,
     <1>14, <1>16, <1>17, <1>18, <1>19, <1>20, <1>21 DEF Next, Worker

\* Every state the bot reaches is well typed, and the call under way fits the
\* program point of the worker task.
THEOREM TypeCorrect == Spec => []TypeOK
<1>1. QED
  BY TypeInit, TypeNext, PTL DEF Spec

-----------------------------------------------------------------------------
(***************************************************************************)
(* At most once.  OnceInv is the strengthening of OneOrderPerSignal that   *)
(* is inductive: the worker only has calls of tweets it has committed as   *)
(* seen, none that it has ordered, and an idle worker has none, so that a  *)
(* poll takes up calls never ordered before.                               *)
(***************************************************************************)
WorkSeen     == \A w \in todo \cup ({cur} \ {NoItem}) : TweetOf(w) \in seen
OrdersSeen   == \A i \in DOMAIN sent : TweetOf(sent[i].item) \in seen
IdleHasNone  == pc \in {"idle", "down"} => todo = {}
CurIsOut     == cur \notin todo
NotYetSent   == \A i \in DOMAIN sent :
                  /\ sent[i].item \notin todo
                  /\ pc \in {"fetching", "resizing", "ready"} => sent[i].item # cur
SentOnce     == \A i, j \in DOMAIN sent : sent[i].item = sent[j].item => i = j

OnceInv == /\ WorkSeen /\ OrdersSeen /\ IdleHasNone
           /\ CurIsOut /\ NotYetSent /\ SentOnce

\* The bot starts with nothing seen, taken up or sent.
LEMMA OnceInit == Init => OnceInv
  BY DEF Init, OnceInv, WorkSeen, OrdersSeen, IdleHasNone, CurIsOut, NotYetSent, SentOnce

\* A step that sends nothing, forgets no tweet and takes up no call keeps OnceInv.
LEMMA OnceKept ==
  ASSUME TypeOK, OnceInv,
         sent' = sent, seen' = seen,
         todo' \subseteq todo, cur' \in {cur, NoItem},
         pc' \in {"idle", "down"} => todo' = {},
         cur' = cur \/ pc' \notin {"fetching", "resizing", "ready"},
         pc' \in {"fetching", "resizing", "ready"} => pc \in {"fetching", "resizing", "ready"}
  PROVE  OnceInv'
<1>1. NoItem \notin todo
  BY NoItemFact DEF TypeOK
<1>2. WorkSeen' /\ OrdersSeen' /\ IdleHasNone' /\ SentOnce'
  BY DEF OnceInv, WorkSeen, OrdersSeen, IdleHasNone, SentOnce
<1>3. CurIsOut'
  BY <1>1 DEF OnceInv, CurIsOut
<1>4. NotYetSent'
  BY DEF OnceInv, NotYetSent
<1>5. QED
  BY <1>2, <1>3, <1>4 DEF OnceInv

\* Every step keeps OnceInv: only a poll takes up calls, only a submit sends,
\* and everything else lets calls go.
LEMMA OnceNext == TypeOK /\ OnceInv /\ [Next]_vars => OnceInv'
<1> SUFFICES ASSUME TypeOK, OnceInv, [Next]_vars PROVE OnceInv'
  OBVIOUS
<1> USE NoItemFact
<1>1. CASE Poll
  <2>1. PICK S \in SUBSET (Tweets \ seen) : seen' = seen \cup S /\ todo' = WorkFor(S)
                                            /\ pc' = IF S = {} THEN "idle" ELSE "next"
    BY <1>1 DEF Poll
  <2>2. sent' = sent /\ cur' = cur /\ cur = NoItem /\ pc = "idle"
    BY <1>1 DEF Poll, callVars, brokerVars, TypeOK, Working
  <2>3. \A w \in todo' : w \in Items /\ TweetOf(w) \in S
    BY <2>1 DEF WorkFor
  <2>4. WorkSeen' /\ OrdersSeen' /\ SentOnce'
    BY <2>1, <2>2, <2>3 DEF OnceInv, WorkSeen, OrdersSeen, SentOnce
  <2>5. IdleHasNone'
    BY <2>1, <2>3 DEF IdleHasNone
  <2>6. CurIsOut'
    BY <2>2, <2>3 DEF CurIsOut
  <2>7. NotYetSent'
    BY <2>1, <2>2, <2>3 DEF OnceInv, OrdersSeen, NotYetSent
  <2>8. QED
    BY <2>4, <2>5, <2>6, <2>7 DEF OnceInv
<1>2. CASE Submit
  <2>1. /\ sent' = Append(sent, [item |-> cur, at |-> now]) /\ seen' = seen
        /\ todo' = todo /\ cur' = cur /\ pc = "ready" /\ pc' = "waiting"
    BY <1>2 DEF Submit, dbVars, callVars
  <2>2. cur \in Items
    BY <2>1 DEF TypeOK, Working
  <2>3. /\ DOMAIN sent' = 1..(Len(sent) + 1) /\ DOMAIN sent = 1..Len(sent) /\ Len(sent) \in Nat
        /\ \A i \in DOMAIN sent : sent'[i] = sent[i]
        /\ sent'[Len(sent) + 1].item = cur
    BY <2>1 DEF TypeOK
  <2>4. WorkSeen' /\ CurIsOut' /\ IdleHasNone'
    BY <2>1 DEF OnceInv, WorkSeen, CurIsOut, IdleHasNone
  <2>5. OrdersSeen'
    BY <2>1, <2>2, <2>3 DEF OnceInv, OrdersSeen, WorkSeen
  <2>6. NotYetSent'
    BY <2>1, <2>3 DEF OnceInv, NotYetSent, CurIsOut
  <2>7. SentOnce'
    BY <2>1, <2>3 DEF OnceInv, SentOnce, NotYetSent
  <2>8. QED
    BY <2>4, <2>5, <2>6, <2>7 DEF OnceInv
<1>3. ASSUME NEW w \in todo, StartCall(w)
      PROVE  OnceInv'
  <2>1. /\ todo' = todo \ {w} /\ cur' = w /\ pc' = "fetching" /\ sent' = sent /\ seen' = seen
    BY <1>3 DEF StartCall, dbVars, brokerVars
  <2>2. QED
    BY <2>1 DEF OnceInv, WorkSeen, OrdersSeen, IdleHasNone, CurIsOut, NotYetSent, SentOnce, TypeOK
<1>4. ASSUME NEW w \in todo, SkipPaused(w) \/ RecordWatch(w)
      PROVE  OnceInv'
  BY <1>4, OnceKept DEF SkipPaused, RecordWatch, dbVars, callVars, brokerVars
<1>5. CASE Evaluate
  BY <1>5, OnceKept DEF Evaluate, brokerVars
<1>6. CASE ResizeSell \/ NotSent \/ Simulate \/ Answered \/ Raised
  BY <1>6, OnceKept DEF ResizeSell, NotSent, Simulate, Answered, Raised, dbVars, brokerVars
<1>7. CASE Record \/ EndIteration \/ IterationFails
  BY <1>7, OnceKept DEF Record, EndIteration, IterationFails, dbVars, callVars, brokerVars
<1>8. CASE Operator
  BY <1>8, OnceKept
  DEF Operator, PauseAll, ResumeAll, PauseManager, ResumeManager, SetPauses,
      dbVars, callVars, brokerVars, OnceInv, IdleHasNone
<1>9. CASE Broker
  BY <1>9, OnceKept
  DEF Broker, BrokerAccepts, BrokerRefuses, dbVars, callVars, OnceInv, IdleHasNone
<1>10. CASE Crash \/ Restart
  BY <1>10, OnceKept DEF Crash, Restart, dbVars, callVars, brokerVars, OnceInv, IdleHasNone
<1>11. CASE Tick \/ Login \/ UNCHANGED vars
  BY <1>11, OnceKept DEF Tick, Login, LoginBlocks, LoginReturns, vars, dbVars, callVars, brokerVars, OnceInv, IdleHasNone
<1>12. QED
  BY <1>1, <1>2, <1>3, <1>4, <1>5, <1>6, <1>7, <1>8, <1>9, <1>10, <1>11 DEF Next, Worker

\* OnceInv holds in every reachable state.
LEMMA OnceCorrect == Spec => [](TypeOK /\ OnceInv)
<1>1. QED
  BY TypeInit, TypeNext, OnceInit, OnceNext, PTL DEF Spec

\* The parser keeps one signal per ticker, so calls that agree on manager,
\* tweet and ticker are the same call.
LEMMA CallsDiffer ==
  ASSUME NEW v \in Items, NEW w \in Items, MgrOf(v) = MgrOf(w), TweetOf(v) = TweetOf(w),
         SignalOf(v).ticker = SignalOf(w).ticker
  PROVE  v = w
<1>1. PICK t \in Tweets : v \in {t} \X (DOMAIN SignalsOf[t]) \X Managers
  BY DEF Items
<1>2. PICK u \in Tweets : w \in {u} \X (DOMAIN SignalsOf[u]) \X Managers
  BY DEF Items
<1>3. /\ v = <<v[1], v[2], v[3]>> /\ v[1] = t /\ v[2] \in DOMAIN SignalsOf[t]
      /\ w = <<w[1], w[2], w[3]>> /\ w[1] = u /\ w[2] \in DOMAIN SignalsOf[u]
  BY <1>1, <1>2
<1>4. t = u /\ v[3] = w[3] /\ SignalsOf[t][v[2]].ticker = SignalsOf[t][w[2]].ticker
  BY <1>3 DEF TweetOf, MgrOf, SignalOf
<1>5. v[2] = w[2]
  BY <1>3, <1>4, ParserAssumption
<1>6. QED
  BY <1>3, <1>4, <1>5

\* However the process crashes, restarts, times out or fails, a manager sends
\* at most one order for one ticker of one tweet.
THEOREM OnceProved == Spec => []OneOrderPerSignal
<1>1. TypeOK /\ OnceInv => OneOrderPerSignal
  <2> SUFFICES ASSUME TypeOK, OnceInv,
                      NEW i \in DOMAIN sent, NEW j \in DOMAIN sent,
                      MgrOf(sent[i].item) = MgrOf(sent[j].item),
                      TweetOf(sent[i].item) = TweetOf(sent[j].item),
                      SignalOf(sent[i].item).ticker = SignalOf(sent[j].item).ticker
               PROVE  i = j
    BY DEF OneOrderPerSignal
  <2>0. \A k \in DOMAIN sent : sent[k] \in Orders
    BY DEF TypeOK
  <2>1. sent[i].item \in Items /\ sent[j].item \in Items
    BY <2>0 DEF Orders
  <2>2. sent[i].item = sent[j].item
    BY <2>1, CallsDiffer, Zenon
  <2>3. QED
    BY <2>2 DEF OnceInv, SentOnce
<1>2. QED
  BY <1>1, OnceCorrect, PTL

-----------------------------------------------------------------------------
(***************************************************************************)
(* The refinement: what a step does to every call is a step of SignalFate. *)
(***************************************************************************)
\* At the start no call has been seen, as SignalFate says.
LEMMA FateInit == Init => F!Init
  BY NoItemFact DEF Init, F!Init, Fate, Ordered

\* A step that neither polls nor submits moves some pending calls (perhaps
\* none) to "closed", and leaves the fate of every other call alone.
LEMMA FateCloses ==
  ASSUME TypeOK, OnceInv,
         seen' = seen, sent' = sent,
         todo' \subseteq todo, cur' \in todo \cup {cur, NoItem}
  PROVE  F!Next
<1> DEFINE W == {w \in Items : Fate[w] = "pending" /\ Fate'[w] # "pending"}
<1>1. Ordered' = Ordered
  BY DEF Ordered
<1>2. Fate' = [w \in Items |-> IF w \in W THEN "closed" ELSE Fate[w]]
  <2>1. SUFFICES ASSUME NEW w \in Items
                 PROVE  Fate'[w] = IF w \in W THEN "closed" ELSE Fate[w]
    BY DEF Fate
  <2>2. w # NoItem
    BY NoItemFact
  <2>3. w \in todo' \/ w = cur' => w \in todo \/ w = cur
    BY <2>2
  <2>4. w \in todo \/ w = cur => TweetOf(w) \in seen
    BY <2>2 DEF OnceInv, WorkSeen
  <2>5. QED
    BY <1>1, <2>3, <2>4 DEF Fate
<1>3. F!Close(W)
  BY <1>2 DEF F!Close
<1>4. W \in SUBSET Items
  OBVIOUS
<1>5. QED
  BY <1>3, <1>4 DEF F!Next

\* Every step of the bot is a step of SignalFate, or changes no fate.
LEMMA FateNext == TypeOK /\ OnceInv /\ [Next]_vars => [F!Next]_Fate
<1> SUFFICES ASSUME TypeOK, OnceInv, [Next]_vars PROVE F!Next
  OBVIOUS
<1> USE NoItemFact
<1>1. CASE Poll
  <2>1. PICK S \in SUBSET (Tweets \ seen) : seen' = seen \cup S /\ todo' = WorkFor(S)
    BY <1>1 DEF Poll
  <2>2. sent' = sent /\ cur' = NoItem /\ cur = NoItem /\ todo = {}
    BY <1>1 DEF Poll, callVars, brokerVars, TypeOK, Working, OnceInv, IdleHasNone
  <2> DEFINE V == {w \in Items : TweetOf(w) \in S} \ WorkFor(S)
  <2>3. Ordered' = Ordered
    BY <2>2 DEF Ordered
  <2>4. \A w \in Ordered : TweetOf(w) \in seen
    BY DEF Ordered, OnceInv, OrdersSeen
  <2>5. \A w \in WorkFor(S) : TweetOf(w) \in S /\ w \in Items
    BY DEF WorkFor
  <2>6. \A w \in WorkFor(S) \cup V : Fate[w] = "unseen"
    BY <2>2, <2>4, <2>5 DEF Fate
  <2>7. Fate' = [w \in Items |-> IF w \in WorkFor(S) THEN "pending"
                                 ELSE IF w \in V THEN "closed" ELSE Fate[w]]
    <3>1. SUFFICES ASSUME NEW w \in Items
                   PROVE  Fate'[w] = IF w \in WorkFor(S) THEN "pending"
                                     ELSE IF w \in V THEN "closed" ELSE Fate[w]
      BY DEF Fate
    <3>2. QED
      BY <2>1, <2>2, <2>3, <2>4, <2>5 DEF Fate
  <2>8. F!TakeUp(WorkFor(S), V)
    BY <2>6, <2>7 DEF F!TakeUp
  <2>9. WorkFor(S) \in SUBSET Items /\ V \in SUBSET Items
    BY <2>5
  <2>10. QED
    BY <2>8, <2>9 DEF F!Next
<1>2. CASE Submit
  <2>1. /\ sent' = Append(sent, [item |-> cur, at |-> now]) /\ seen' = seen
        /\ todo' = todo /\ cur' = cur /\ pc = "ready"
    BY <1>2 DEF Submit, dbVars, callVars
  <2>2. cur \in Items
    BY <2>1 DEF TypeOK, Working
  <2>3. Ordered' = Ordered \cup {cur}
    <3>1. /\ DOMAIN sent' = DOMAIN sent \cup {Len(sent) + 1}
          /\ \A i \in DOMAIN sent : sent'[i] = sent[i]
          /\ sent'[Len(sent) + 1].item = cur
      BY <2>1 DEF TypeOK
    <3>2. QED
      BY <3>1, Zenon DEF Ordered
  <2>4. cur \notin Ordered
    BY <2>1, Zenon DEF Ordered, OnceInv, NotYetSent
  <2>5. Fate[cur] = "pending"
    BY <2>2, <2>4 DEF Fate
  <2>6. Fate' = [Fate EXCEPT ![cur] = "ordered"]
    BY <2>1, <2>2, <2>3 DEF Fate
  <2>7. QED
    BY <2>2, <2>5, <2>6 DEF F!Next, F!Order
<1>3. CASE \E w \in todo : SkipPaused(w) \/ RecordWatch(w) \/ StartCall(w)
  BY <1>3, FateCloses DEF SkipPaused, RecordWatch, StartCall, dbVars, callVars, brokerVars
<1>4. CASE Evaluate
  BY <1>4, FateCloses DEF Evaluate, brokerVars
<1>5. CASE ResizeSell \/ NotSent \/ Simulate \/ Answered \/ Raised
  BY <1>5, FateCloses DEF ResizeSell, NotSent, Simulate, Answered, Raised, dbVars, brokerVars
<1>6. CASE Record \/ EndIteration \/ IterationFails
  BY <1>6, FateCloses DEF Record, EndIteration, IterationFails, dbVars, callVars, brokerVars
<1>7. CASE Operator
  BY <1>7, FateCloses
  DEF Operator, PauseAll, ResumeAll, PauseManager, ResumeManager, SetPauses,
      dbVars, callVars, brokerVars
<1>8. CASE Broker
  BY <1>8, FateCloses DEF Broker, BrokerAccepts, BrokerRefuses, dbVars, callVars
<1>9. CASE Crash \/ Restart
  BY <1>9, FateCloses DEF Crash, Restart, dbVars, callVars, brokerVars
<1>10. CASE Tick \/ Login \/ UNCHANGED vars
  BY <1>10, FateCloses DEF Tick, Login, LoginBlocks, LoginReturns, vars, dbVars, callVars, brokerVars
<1>11. QED
  BY <1>1, <1>2, <1>3, <1>4, <1>5, <1>6, <1>7, <1>8, <1>9, <1>10 DEF Next, Worker

\* The trading path implements SignalFate: a call is tried once, ordered at
\* most once and never taken up again.
THEOREM Refinement == Spec => AtMostOnce
<1>1. QED
  BY FateInit, FateNext, OnceCorrect, PTL DEF Spec, AtMostOnce, F!Spec

-----------------------------------------------------------------------------
(***************************************************************************)
(* Pauses.  The one order that may still go out is that of the call past   *)
(* its pause check: once it has, the current call is of a manager that is  *)
(* not paused.                                                             *)
(***************************************************************************)
Unsent == {"fetching", "resizing", "ready"}

PauseInv == /\ sincePause \in {0, 1}
            /\ sincePause = 1 /\ pc \in Unsent => ~mpaused[MgrOf(cur)]

\* PauseInv holds at the start, and every step keeps it: a command of the
\* operator starts the count again, and a call begins past its pause check.
LEMMA PauseNext == TypeOK /\ PauseInv /\ [Next]_vars => PauseInv'
<1> SUFFICES ASSUME TypeOK, PauseInv, [Next]_vars PROVE PauseInv'
  OBVIOUS
<1>1. CASE Submit
  BY <1>1 DEF Submit, PauseInv, Unsent, pauseVars, callVars
<1>2. ASSUME NEW w \in todo, StartCall(w)
      PROVE  PauseInv'
  BY <1>2 DEF StartCall, PauseInv, Unsent, pauseVars
<1>3. ASSUME NEW all, NEW each, SetPauses(all, each)
      PROVE  PauseInv'
  BY <1>3 DEF SetPauses, PauseInv, pauseVars, callVars
<1>4. CASE Operator
  BY <1>3, <1>4 DEF Operator, PauseAll, ResumeAll, PauseManager, ResumeManager
<1>5. ASSUME sincePause' = sincePause, mpaused' = mpaused,
             pc' \in Unsent => pc \in Unsent /\ cur' = cur
      PROVE  PauseInv'
  BY <1>5 DEF PauseInv
<1>6. CASE Poll
  BY <1>5, <1>6 DEF Poll, pauseVars, Unsent
<1>7. CASE Evaluate
  BY <1>5, <1>7 DEF Evaluate, pauseVars, Unsent
<1>8. CASE ResizeSell \/ NotSent \/ Simulate \/ Answered \/ Raised
  BY <1>5, <1>8 DEF ResizeSell, NotSent, Simulate, Answered, Raised, pauseVars, Unsent
<1>9. CASE Record \/ EndIteration \/ IterationFails
  BY <1>5, <1>9 DEF Record, EndIteration, IterationFails, pauseVars, Unsent
<1>10. ASSUME NEW w \in todo, SkipPaused(w) \/ RecordWatch(w)
       PROVE  PauseInv'
  BY <1>5, <1>10 DEF SkipPaused, RecordWatch, pauseVars, callVars, Unsent
<1>11. CASE Broker
  BY <1>5, <1>11 DEF Broker, BrokerAccepts, BrokerRefuses, pauseVars, callVars
<1>12. CASE Crash
  BY <1>12 DEF Crash, PauseInv, Unsent
<1>13. CASE Restart
  BY <1>5, <1>13 DEF Restart, pauseVars, Unsent
<1>14. CASE Tick \/ Login \/ UNCHANGED vars
  BY <1>5, <1>14 DEF Tick, Login, LoginBlocks, LoginReturns, vars, pauseVars, callVars
<1>15. QED
  BY <1>1, <1>2, <1>4, <1>6, <1>7, <1>8, <1>9, <1>10, <1>11, <1>12, <1>13, <1>14
  DEF Next, Worker

\* Whatever the operator pauses, and however often, at most one more order of
\* a paused manager goes out after a command.
THEOREM PauseProved == Spec => []PauseStopsAllButOne
<1>1. Init => PauseInv
  BY DEF Init, PauseInv, Unsent
<1>2. PauseInv => PauseStopsAllButOne
  BY DEF PauseInv, PauseStopsAllButOne
<1>3. QED
  BY <1>1, <1>2, TypeInit, TypeNext, PauseNext, PTL DEF Spec

-----------------------------------------------------------------------------
(***************************************************************************)
(* The steps that touch the tables, the orders or the clock; every other   *)
(* step is Quiet.  Past: the call under way has passed the gate.           *)
(***************************************************************************)
Past == {"resizing", "ready", "waiting", "recording"}

Quiet == /\ UNCHANGED <<now, signals, trades, sent>>
         /\ pc' \in Past => pc \in Past /\ cur' = cur /\ sigId' = sigId
         /\ \/ crashes' = crashes /\ (pc' = "down" => pc = "down")
            \/ crashes' = crashes + 1

\* A result that names an account names the one of the manager of the call.
ResultOwn == result.account # NoAccount => result.account = MgrOf(cur)

\* Every step writes a row, sends an order, moves the clock, or is Quiet.
LEMMA StepKinds ==
  ASSUME TypeOK, [Next]_vars
  PROVE  \/ Evaluate \/ Submit \/ Record \/ Restart \/ Tick
         \/ \E w \in todo : RecordWatch(w)
         \/ Quiet
<1>1. CASE Poll
  BY <1>1 DEF Poll, envVars, brokerVars, Quiet, Past
<1>2. ASSUME NEW w \in todo, SkipPaused(w) \/ StartCall(w)
      PROVE  Quiet
  BY <1>2 DEF SkipPaused, StartCall, envVars, dbVars, brokerVars, callVars, Quiet, Past
<1>3. CASE ResizeSell \/ NotSent \/ Simulate \/ Answered \/ Raised
  BY <1>3 DEF ResizeSell, NotSent, Simulate, Answered, Raised,
              envVars, dbVars, brokerVars, Quiet, Past
<1>4. CASE EndIteration \/ IterationFails
  BY <1>4 DEF EndIteration, IterationFails, envVars, dbVars, brokerVars, Quiet, Past
<1>5. CASE Operator
  BY <1>5 DEF Operator, PauseAll, ResumeAll, PauseManager, ResumeManager, SetPauses,
              envVars, dbVars, brokerVars, callVars, Quiet
<1>6. CASE Broker
  BY <1>6 DEF Broker, BrokerAccepts, BrokerRefuses, envVars, dbVars, callVars, Quiet
<1>7. CASE Crash
  BY <1>7 DEF Crash, dbVars, brokerVars, Quiet, Past
<1>8. CASE Login \/ UNCHANGED vars
  BY <1>8 DEF Login, LoginBlocks, LoginReturns, vars, envVars, dbVars, brokerVars, callVars, Quiet
<1>9. QED
  BY <1>1, <1>2, <1>3, <1>4, <1>5, <1>6, <1>7, <1>8 DEF Next, Worker

\* The broker's answers and the simulation name no other manager's account,
\* and a result is dropped with its call.
LEMMA ResultOwnNext == TypeOK /\ ResultOwn /\ [Next]_vars => ResultOwn'
<1> SUFFICES ASSUME TypeOK, ResultOwn, [Next]_vars PROVE ResultOwn'
  OBVIOUS
<1>1. CASE Simulate \/ Answered
  BY <1>1 DEF Simulate, Answered, ResultOwn
<1>2. CASE ResizeSell \/ NotSent \/ Raised
  BY <1>2 DEF ResizeSell, NotSent, Raised, ResultOwn
<1>3. CASE Record \/ IterationFails \/ Crash
  BY <1>3 DEF Record, IterationFails, Crash, ResultOwn, NoResult
<1>4. ASSUME result' = result, cur' = cur \/ pc # "recording"
      PROVE  ResultOwn'
  BY <1>4 DEF ResultOwn, TypeOK, NoResult
<1>5. CASE Poll \/ EndIteration \/ Submit \/ Restart
  BY <1>4, <1>5 DEF Poll, EndIteration, Submit, Restart, callVars
<1>6. CASE Evaluate
  BY <1>4, <1>6 DEF Evaluate
<1>7. ASSUME NEW w \in todo, SkipPaused(w) \/ StartCall(w) \/ RecordWatch(w)
      PROVE  ResultOwn'
  BY <1>4, <1>7 DEF SkipPaused, StartCall, RecordWatch, callVars
<1>8. CASE Operator
  BY <1>4, <1>8
  DEF Operator, PauseAll, ResumeAll, PauseManager, ResumeManager, SetPauses, callVars
<1>9. CASE Broker \/ Tick \/ Login \/ UNCHANGED vars
  BY <1>4, <1>9 DEF Broker, BrokerAccepts, BrokerRefuses, Tick, Login, LoginBlocks, LoginReturns, vars, callVars
<1>10. QED
  BY <1>1, <1>2, <1>3, <1>5, <1>6, <1>7, <1>8, <1>9 DEF Next, Worker

-----------------------------------------------------------------------------
(***************************************************************************)
(* The tables.  LinkInv adds to the two properties about rows that the     *)
(* call past the gate has a row of its own that no trade claims yet.       *)
(***************************************************************************)
CallLinked ==
  pc \in Past =>
    /\ sigId \in DOMAIN signals
    /\ signals[sigId].ok /\ signals[sigId].tweet = TweetOf(cur)
    /\ signals[sigId].ticker = SignalOf(cur).ticker
    /\ signals[sigId].action = SignalOf(cur).action
    /\ signals[sigId].mgr = MgrOf(cur)
    /\ \A i \in DOMAIN trades : trades[i].sig # sigId

LinkInv == CallLinked /\ TradeHasAllowedSignal /\ OrderLeavesTrace

\* The gate commits the row before the order, and the record claims it; the
\* repair moves a signal and its trade to the same manager.
LEMMA LinkNext == TypeOK /\ LinkInv /\ [Next]_vars => LinkInv'
<1> SUFFICES ASSUME TypeOK, LinkInv, [Next]_vars PROVE LinkInv'
  OBVIOUS
<1> USE DEF LinkInv
<1>a. /\ signals \in Seq(SignalRows) /\ trades \in Seq(TradeRows) /\ sent \in Seq(Orders)
      /\ Len(signals) \in Nat /\ DOMAIN signals = 1..Len(signals)
      /\ Len(trades) \in Nat /\ DOMAIN trades = 1..Len(trades)
      /\ Len(sent) \in Nat /\ DOMAIN sent = 1..Len(sent)
  BY DEF TypeOK
<1>b. ASSUME NEW row \in SignalRows, signals' = Append(signals, row),
             UNCHANGED <<trades, sent>>
      PROVE  TradeHasAllowedSignal' /\ OrderLeavesTrace'
  <2>1. /\ DOMAIN signals \subseteq DOMAIN signals'
        /\ \A j \in DOMAIN signals : signals'[j] = signals[j]
    BY <1>a, <1>b
  <2>2. QED
    BY <1>b, <2>1 DEF TradeHasAllowedSignal, OrderLeavesTrace
<1>1. CASE Evaluate
  <2>1. PICK sized \in BOOLEAN :
          /\ signals' = Append(signals, SignalRow(cur, Allowed(cur, sized)))
          /\ pc' \in Past => Allowed(cur, sized) /\ sigId' = Len(signals) + 1 /\ cur' = cur
    BY <1>1 DEF Evaluate, Past
  <2>2. pc = "fetching" /\ UNCHANGED <<trades, sent>> /\ cur \in Items
    BY <1>1 DEF Evaluate, brokerVars, TypeOK, Working
  <2>3. SignalRow(cur, Allowed(cur, sized)) \in SignalRows
    BY <2>2, SignalRowType DEF TypeOK, Allowed
  <2>4. signals'[Len(signals) + 1] = SignalRow(cur, Allowed(cur, sized))
        /\ Len(signals) + 1 \in DOMAIN signals'
    BY <1>a, <2>1, <2>3
  <2>5. \A i \in DOMAIN trades : trades[i].sig # Len(signals) + 1
    BY <1>a DEF TradeHasAllowedSignal
  <2>6. CallLinked'
    BY <2>1, <2>2, <2>4, <2>5 DEF CallLinked, SignalRow
  <2>7. QED
    BY <1>b, <2>1, <2>2, <2>3, <2>6
<1>2. ASSUME NEW w \in todo, RecordWatch(w)
      PROVE  LinkInv'
  <2>1. SignalRow(w, TRUE) \in SignalRows
    BY SignalRowType DEF TypeOK
  <2>2. pc' \notin Past
    BY <1>2 DEF RecordWatch, Past
  <2>3. signals' = Append(signals, SignalRow(w, TRUE)) /\ UNCHANGED <<trades, sent>>
    BY <1>2 DEF RecordWatch, brokerVars
  <2>4. TradeHasAllowedSignal' /\ OrderLeavesTrace'
    BY <1>b, <2>1, <2>3, Zenon
  <2>5. QED
    BY <2>2, <2>4 DEF CallLinked
<1>3. CASE Submit
  <2>1. /\ sent' = Append(sent, [item |-> cur, at |-> now]) /\ UNCHANGED <<signals, trades>>
        /\ cur' = cur /\ sigId' = sigId /\ pc \in Past
    BY <1>3 DEF Submit, dbVars, callVars, Past
  <2>2. /\ DOMAIN sent' = DOMAIN sent \cup {Len(sent) + 1}
        /\ \A i \in DOMAIN sent : sent'[i] = sent[i]
        /\ sent'[Len(sent) + 1].item = cur
    BY <1>a, <2>1
  <2>3. CallLinked' /\ TradeHasAllowedSignal'
    BY <2>1 DEF CallLinked, TradeHasAllowedSignal
  <2>4. OrderLeavesTrace'
    BY <2>1, <2>2 DEF OrderLeavesTrace, CallLinked
  <2>5. QED
    BY <2>3, <2>4
<1>4. CASE Record
  <2>1. /\ trades' = Append(trades, TradeRow(cur)) /\ UNCHANGED <<signals, sent>>
        /\ pc = "recording" /\ pc' = "next"
    BY <1>4 DEF Record, brokerVars
  <2>2. cur \in Items /\ result \in Results
    BY <2>1 DEF TypeOK, Working
  <2>3. TradeRow(cur) \in TradeRows
    BY <2>2, TradeRowType DEF TypeOK
  <2>4. /\ DOMAIN trades' = DOMAIN trades \cup {Len(trades) + 1}
        /\ \A i \in DOMAIN trades : trades'[i] = trades[i]
        /\ trades'[Len(trades) + 1] = TradeRow(cur)
    BY <1>a, <2>1, <2>3
  <2>5. TradeHasAllowedSignal'
    BY <2>1, <2>4 DEF TradeHasAllowedSignal, CallLinked, TradeRow, Past
  <2>6. QED
    BY <2>1, <2>5 DEF CallLinked, OrderLeavesTrace, Past
<1>5. CASE Restart
  <2>1. sent' = sent /\ pc' = "idle"
    BY <1>5 DEF Restart, brokerVars
  <2>2. CASE UNCHANGED <<signals, trades>>
    BY <2>1, <2>2 DEF CallLinked, TradeHasAllowedSignal, OrderLeavesTrace, Past
  <2>3. CASE \E L \in SUBSET Managers : signals' = RepairedSignals(L) /\ trades' = RepairedTrades(L)
    <3>1. PICK L \in SUBSET Managers : signals' = RepairedSignals(L) /\ trades' = RepairedTrades(L)
      BY <2>3
    <3>2. DOMAIN trades' = DOMAIN trades /\ DOMAIN signals' = DOMAIN signals
      BY <3>1 DEF RepairedTrades, RepairedSignals
    <3>3. ASSUME NEW i \in DOMAIN trades
          PROVE  /\ trades'[i].sig = trades[i].sig /\ trades'[i].ticker = trades[i].ticker
                 /\ trades'[i].action = trades[i].action
                 /\ trades'[i].mgr = RepairedOwner(trades[i], L)
      <4>1. trades[i] \in TradeRows
        BY <1>a
      <4>2. trades'[i] = [trades[i] EXCEPT !.mgr = RepairedOwner(trades[i], L)]
        BY <3>1 DEF RepairedTrades
      <4>3. QED
        BY <4>1, <4>2 DEF TradeRows
    <3>4. ASSUME NEW j \in DOMAIN signals
          PROVE  /\ signals'[j].ok = signals[j].ok /\ signals'[j].tweet = signals[j].tweet
                 /\ signals'[j].ticker = signals[j].ticker
                 /\ signals'[j].action = signals[j].action
      <4>1. signals[j] \in SignalRows
        BY <1>a
      <4>2. \E o : signals'[j] = [signals[j] EXCEPT !.mgr = o]
        BY <3>1 DEF RepairedSignals
      <4>3. QED
        BY <4>1, <4>2 DEF SignalRows
    <3>5. ASSUME NEW i \in DOMAIN trades
          PROVE  signals'[trades[i].sig].mgr = RepairedOwner(trades[i], L)
      <4> DEFINE j == trades[i].sig
      <4>1. j \in DOMAIN signals /\ signals[j] \in SignalRows
        BY <1>a DEF TradeHasAllowedSignal
      <4>2. (CHOOSE k \in DOMAIN trades : trades[k].sig = j) = i
        BY DEF TradeHasAllowedSignal
      <4>3. signals'[j] = [signals[j] EXCEPT !.mgr = RepairedOwner(trades[i], L)]
        BY <3>1, <4>1, <4>2 DEF RepairedSignals
      <4>4. QED
        BY <4>1, <4>3 DEF SignalRows
    <3>6. TradeHasAllowedSignal'
      BY <3>2, <3>3, <3>4, <3>5 DEF TradeHasAllowedSignal
    <3>7. OrderLeavesTrace'
      BY <2>1, <3>2, <3>4 DEF OrderLeavesTrace
    <3>8. QED
      BY <2>1, <3>6, <3>7 DEF CallLinked, Past
  <2>4. QED
    BY <1>5, <2>2, <2>3 DEF Restart
<1>6. CASE Quiet
  BY <1>6 DEF Quiet, CallLinked, TradeHasAllowedSignal, OrderLeavesTrace
<1>7. CASE Tick
  BY <1>7 DEF Tick, dbVars, callVars, brokerVars, CallLinked, TradeHasAllowedSignal,
              OrderLeavesTrace
<1>8. QED
  BY <1>1, <1>2, <1>3, <1>4, <1>5, <1>6, <1>7, StepKinds

\* Types and links hold in every reachable state.
LEMMA LinkCorrect == Spec => [](TypeOK /\ LinkInv)
<1>1. Init => LinkInv
  BY DEF Init, LinkInv, CallLinked, TradeHasAllowedSignal, OrderLeavesTrace, Past
<1>2. QED
  BY <1>1, TypeInit, TypeNext, LinkNext, PTL DEF Spec

\* No order reaches the broker without a committed signal row that passed.
THEOREM TraceProved == Spec => []OrderLeavesTrace
<1>1. LinkInv => OrderLeavesTrace
  BY DEF LinkInv
<1>2. QED
  BY <1>1, LinkCorrect, PTL

\* Every trade row stays joined to one signal row of its own that passed the
\* gate for the same manager, through every repair.
THEOREM JoinProved == Spec => []TradeHasAllowedSignal
<1>1. LinkInv => TradeHasAllowedSignal
  BY DEF LinkInv
<1>2. QED
  BY <1>1, LinkCorrect, PTL

-----------------------------------------------------------------------------
(***************************************************************************)
(* The gate.  Its limits are read from rows by manager, and the properties *)
(* count rows by account: OwnAccount says that these agree, whatever       *)
(* restarts have moved.  What the gate established for the call under way  *)
(* stays true until the row it allowed is recorded.                        *)
(***************************************************************************)
OwnAccount == \A i \in DOMAIN trades :
                trades[i].account # NoAccount => trades[i].mgr = trades[i].account

\* A restart moves no trade that an account answered for.
LEMMA RestartKeepsTrades ==
  ASSUME TypeOK, OwnAccount, Restart
  PROVE  /\ DOMAIN trades' = DOMAIN trades
         /\ \A i \in DOMAIN trades :
              /\ trades'[i].account = trades[i].account /\ trades'[i].ticker = trades[i].ticker
              /\ trades'[i].at = trades[i].at /\ trades'[i].sim = trades[i].sim
         /\ OwnAccount'
<1>1. CASE trades' = trades
  BY <1>1 DEF OwnAccount
<1>2. CASE \E L \in SUBSET Managers : trades' = RepairedTrades(L)
  <2>1. PICK L \in SUBSET Managers : trades' = RepairedTrades(L)
    BY <1>2
  <2>2. DOMAIN trades' = DOMAIN trades
    BY <2>1 DEF RepairedTrades
  <2>3. ASSUME NEW i \in DOMAIN trades
        PROVE  /\ trades'[i].account = trades[i].account /\ trades'[i].ticker = trades[i].ticker
               /\ trades'[i].at = trades[i].at /\ trades'[i].sim = trades[i].sim
               /\ trades'[i].mgr = RepairedOwner(trades[i], L)
    <3>1. trades[i] \in TradeRows
      BY DEF TypeOK
    <3>2. trades'[i] = [trades[i] EXCEPT !.mgr = RepairedOwner(trades[i], L)]
      BY <2>1 DEF RepairedTrades
    <3>3. QED
      BY <3>1, <3>2 DEF TradeRows
  <2>4. OwnAccount'
    BY <2>2, <2>3 DEF OwnAccount, RepairedOwner
  <2>5. QED
    BY <2>2, <2>3, <2>4
<1>3. QED
  BY <1>1, <1>2 DEF Restart

\* A trade is recorded under the manager whose account answered.
LEMMA RecordedRow ==
  ASSUME TypeOK, ResultOwn, Record
  PROVE  /\ DOMAIN trades' = DOMAIN trades \cup {Len(trades) + 1}
         /\ Len(trades) + 1 \notin DOMAIN trades
         /\ \A i \in DOMAIN trades : trades'[i] = trades[i] /\ i < Len(trades) + 1
         /\ trades'[Len(trades) + 1] = TradeRow(cur)
         /\ TradeRow(cur).account # NoAccount => TradeRow(cur).account = MgrOf(cur)
         /\ TradeRow(cur).at = now /\ TradeRow(cur).ticker = SignalOf(cur).ticker
         /\ TradeRow(cur).mgr = MgrOf(cur)
         /\ pc = "recording" /\ pc' = "next" /\ now' = now
<1>1. trades' = Append(trades, TradeRow(cur)) /\ pc = "recording" /\ pc' = "next" /\ now' = now
  BY DEF Record, envVars
<1>2. cur \in Items /\ result \in Results
  BY <1>1 DEF TypeOK, Working
<1>3. TradeRow(cur) \in TradeRows
  BY <1>2, TradeRowType DEF TypeOK
<1>4. trades \in Seq(TradeRows) /\ Len(trades) \in Nat /\ DOMAIN trades = 1..Len(trades)
  BY DEF TypeOK
<1>5. QED
  BY <1>1, <1>3, <1>4 DEF TradeRow, ResultOwn

\* Rows and the manager they are counted for agree.
LEMMA OwnNext == TypeOK /\ ResultOwn /\ OwnAccount /\ [Next]_vars => OwnAccount'
<1> SUFFICES ASSUME TypeOK, ResultOwn, OwnAccount, [Next]_vars PROVE OwnAccount'
  OBVIOUS
<1>1. CASE Record
  BY <1>1, RecordedRow DEF OwnAccount
<1>2. CASE Restart
  BY <1>2, RestartKeepsTrades
<1>3. ASSUME trades' = trades PROVE OwnAccount'
  BY <1>3 DEF OwnAccount
<1>4. CASE Evaluate \/ Submit \/ Tick \/ Quiet
  BY <1>3, <1>4 DEF Evaluate, Submit, Tick, Quiet, dbVars
<1>5. ASSUME NEW w \in todo, RecordWatch(w) PROVE OwnAccount'
  BY <1>3, <1>5 DEF RecordWatch
<1>6. QED
  BY <1>1, <1>2, <1>4, <1>5, StepKinds

\* The gate lets a call past only if no cooldown, limit or duplicate stops it.
LEMMA PastGate ==
  ASSUME TypeOK, Evaluate, pc' \in Past
  PROVE  /\ cur' = cur /\ trades' = trades /\ now' = now
         /\ ~CoolingDown(MgrOf(cur), SignalOf(cur).ticker)
         /\ ~DailyLimitReached(MgrOf(cur), SignalOf(cur).ticker)
  BY DEF Evaluate, Allowed, Past, envVars

\* Clock values and windows are numbers.
LEMMA TimeFacts ==
  ASSUME TypeOK
  PROVE  /\ \A i \in DOMAIN trades : trades[i].at \in Int /\ trades[i].at \in Time
         /\ \A i \in DOMAIN signals : signals[i].at \in Int
         /\ now \in Int /\ now \in Time /\ Cooldown \in Int /\ DupWindow \in Int
<1>1. Time \subseteq Int /\ Cooldown \in Int /\ DupWindow \in Int
  BY ClockAssumption DEF Time
<1>2. now \in Time
  BY DEF TypeOK
<1>3. ASSUME NEW i \in DOMAIN trades PROVE trades[i].at \in Time
  <2>1. trades[i] \in TradeRows
    BY DEF TypeOK
  <2>2. QED
    BY <2>1 DEF TradeRows
<1>4. ASSUME NEW i \in DOMAIN signals PROVE signals[i].at \in Time
  <2>1. signals[i] \in SignalRows
    BY DEF TypeOK
  <2>2. QED
    BY <2>1 DEF SignalRows
<1>5. QED
  BY <1>1, <1>2, <1>3, <1>4

-----------------------------------------------------------------------------
CallCool ==
  pc \in Past =>
    \A i \in DOMAIN trades :
      trades[i].account = MgrOf(cur) /\ trades[i].ticker = SignalOf(cur).ticker
        => trades[i].at + Cooldown < now

CoolInv == CallCool /\ CooldownByAccount

\* While a call is under way the clock only moves on and no other row comes.
LEMMA CoolNext == TypeOK /\ ResultOwn /\ OwnAccount /\ CoolInv /\ [Next]_vars => CoolInv'
<1> SUFFICES ASSUME TypeOK, ResultOwn, OwnAccount, CoolInv, [Next]_vars PROVE CoolInv'
  OBVIOUS
<1> USE DEF CoolInv
<1>a. now \in Int /\ Cooldown \in Int /\ \A i \in DOMAIN trades : trades[i].at \in Int
  BY TimeFacts
<1>c. ASSUME trades' = trades PROVE CooldownByAccount'
  BY <1>c DEF CooldownByAccount
<1>1. CASE Evaluate
  <2>1. trades' = trades
    BY <1>1 DEF Evaluate
  <2>2. CASE pc' \in Past
    <3>1. MgrOf(cur) \in Managers
      BY <1>1, ItemFacts DEF Evaluate, TypeOK, Working
    <3>2. MgrOf(cur) # NoAccount
      BY <3>1, SizesAssumption DEF Managers, NoAccount
    <3>3. \A i \in DOMAIN trades :
            trades[i].account = MgrOf(cur) /\ trades[i].ticker = SignalOf(cur).ticker
              => ~(trades[i].at >= now - Cooldown)
      BY <1>1, <2>2, <3>2, PastGate DEF CoolingDown, OwnAccount
    <3>4. \A i \in DOMAIN trades :
            trades[i].account = MgrOf(cur) /\ trades[i].ticker = SignalOf(cur).ticker
              => trades[i].at + Cooldown < now
      BY <1>a, <3>3
    <3>5. CallCool'
      BY <1>1, <2>2, <3>4, PastGate DEF CallCool
    <3>6. QED
      BY <1>c, <2>1, <3>5
  <2>3. QED
    BY <1>c, <2>1, <2>2 DEF CallCool
<1>2. CASE Record
  <2>1. CallCool'
    BY <1>2, RecordedRow DEF CallCool, Past
  <2>2. ASSUME NEW i \in DOMAIN trades, trades[i].account # NoAccount,
               trades[i].account = TradeRow(cur).account, trades[i].ticker = TradeRow(cur).ticker
        PROVE  TradeRow(cur).at > trades[i].at + Cooldown
    <3>1. trades[i].account = MgrOf(cur) /\ trades[i].ticker = SignalOf(cur).ticker
          /\ TradeRow(cur).at = now /\ pc \in Past
      BY <1>2, <2>2, RecordedRow DEF Past
    <3>2. trades[i].at + Cooldown < now
      BY <3>1 DEF CallCool
    <3>3. QED
      BY <1>a, <3>1, <3>2
  <2>3. DOMAIN trades = 1..Len(trades) /\ Len(trades) \in Nat
    BY DEF TypeOK
  <2>4. ASSUME NEW i \in DOMAIN trades', NEW j \in DOMAIN trades', i < j,
               trades'[i].account # NoAccount,
               trades'[i].account = trades'[j].account, trades'[i].ticker = trades'[j].ticker
        PROVE  trades'[j].at > trades'[i].at + Cooldown
    <3>1. i \in DOMAIN trades /\ trades'[i] = trades[i]
      BY <1>2, <2>3, <2>4, RecordedRow
    <3>2. CASE j \in DOMAIN trades
      BY <1>2, <2>4, <3>1, <3>2, RecordedRow DEF CooldownByAccount
    <3>3. CASE j = Len(trades) + 1
      BY <1>2, <2>2, <2>4, <3>1, <3>3, RecordedRow
    <3>4. QED
      BY <1>2, <3>2, <3>3, RecordedRow
  <2>5. QED
    BY <2>1, <2>4 DEF CooldownByAccount
<1>3. CASE Restart
  <2>1. CallCool'
    BY <1>3 DEF Restart, CallCool, Past
  <2>2. CooldownByAccount'
    BY <1>3, RestartKeepsTrades DEF CooldownByAccount
  <2>3. QED
    BY <2>1, <2>2
<1>4. CASE Tick
  <2>1. now' = now + 1 /\ trades' = trades /\ pc' = pc /\ cur' = cur
    BY <1>4 DEF Tick, dbVars, callVars
  <2>2. \A i \in DOMAIN trades : trades[i].at + Cooldown < now => trades[i].at + Cooldown < now + 1
    BY <1>a
  <2>3. CallCool'
    BY <2>1, <2>2 DEF CallCool
  <2>4. QED
    BY <1>c, <2>1, <2>3
<1>5. CASE Submit
  BY <1>5, <1>c DEF Submit, dbVars, envVars, callVars, CallCool, Past
<1>6. ASSUME NEW w \in todo, RecordWatch(w) PROVE CoolInv'
  BY <1>6, <1>c DEF RecordWatch, CallCool, Past
<1>7. CASE Quiet
  BY <1>7, <1>c DEF Quiet, CallCool
<1>8. QED
  BY <1>1, <1>2, <1>3, <1>4, <1>5, <1>6, <1>7, StepKinds

\* Results and rows name accounts of their own managers in every reachable state.
LEMMA OwnCorrect == Spec => [](TypeOK /\ ResultOwn /\ OwnAccount)
<1>1. Init => ResultOwn /\ OwnAccount
  BY DEF Init, ResultOwn, OwnAccount, NoResult
<1>2. QED
  BY <1>1, TypeInit, TypeNext, ResultOwnNext, OwnNext, PTL DEF Spec

\* Two trades of an account in a ticker lie more than the cooldown apart, from
\* the time the first was recorded, through every crash and repair.
THEOREM CooldownProved == Spec => []CooldownByAccount
<1>1. Init => CoolInv
  BY DEF Init, CoolInv, CallCool, CooldownByAccount, Past
<1>2. CoolInv => CooldownByAccount
  BY DEF CoolInv
<1>3. QED
  BY <1>1, <1>2, OwnCorrect, CoolNext, PTL DEF Spec

-----------------------------------------------------------------------------
DupInv == DuplicateWindow /\ (pc = "down" => crashes > 0)

\* A row that passed the gate is the newest one when the window is read.
LEMMA DupNext == TypeOK /\ DupInv /\ [Next]_vars => DupInv'
<1> SUFFICES ASSUME TypeOK, DupInv, [Next]_vars PROVE DupInv'
  OBVIOUS
<1> USE DEF DupInv
<1>a. /\ signals \in Seq(SignalRows)
      /\ Len(signals) \in Nat /\ DOMAIN signals = 1..Len(signals)
      /\ crashes \in Nat
  BY SizesAssumption DEF TypeOK
<1>b. now \in Int /\ DupWindow \in Int /\ \A i \in DOMAIN signals : signals[i].at \in Int
  BY TimeFacts
<1>d. ASSUME signals' = signals, crashes' = crashes PROVE DuplicateWindow'
  BY <1>d DEF DuplicateWindow
<1>1. CASE Evaluate
  <2>1. PICK sized \in BOOLEAN : signals' = Append(signals, SignalRow(cur, Allowed(cur, sized)))
    BY <1>1 DEF Evaluate
  <2>2. cur \in Items /\ crashes' = crashes /\ pc' # "down"
    BY <1>1 DEF Evaluate, TypeOK, Working, envVars
  <2>3. SignalRow(cur, Allowed(cur, sized)) \in SignalRows
    BY <2>2, SignalRowType DEF TypeOK, Allowed
  <2>4. /\ DOMAIN signals' = DOMAIN signals \cup {Len(signals) + 1}
        /\ \A i \in DOMAIN signals : signals'[i] = signals[i] /\ i < Len(signals) + 1
        /\ signals'[Len(signals) + 1] = SignalRow(cur, Allowed(cur, sized))
    BY <1>a, <2>1, <2>3
  <2>5. ASSUME NEW i \in DOMAIN signals, Allowed(cur, sized),
               signals[i].mgr = MgrOf(cur), signals[i].ticker = SignalOf(cur).ticker,
               signals[i].action = SignalOf(cur).action
        PROVE  signals[i].at < now - DupWindow
    <3>1. ~DuplicateSignal(MgrOf(cur), SignalOf(cur).ticker, SignalOf(cur).action)
      BY <2>5 DEF Allowed
    <3>2. ~(signals[i].at >= now - DupWindow)
      BY <2>5, <3>1 DEF DuplicateSignal
    <3>3. QED
      BY <1>b, <3>2
  <2>6. ASSUME crashes = 0, NEW i \in DOMAIN signals', NEW j \in DOMAIN signals', i < j,
               signals'[j].ok, signals'[j].action # "WATCH",
               signals'[i].mgr = signals'[j].mgr, signals'[i].ticker = signals'[j].ticker,
               signals'[i].action = signals'[j].action
        PROVE  signals'[i].at < signals'[j].at - DupWindow
    <3>1. i \in DOMAIN signals /\ signals'[i] = signals[i]
      BY <1>a, <2>4, <2>6
    <3>2. CASE j \in DOMAIN signals
      BY <2>4, <2>6, <3>1, <3>2 DEF DuplicateWindow
    <3>3. CASE j = Len(signals) + 1
      BY <2>4, <2>5, <2>6, <3>1, <3>3 DEF SignalRow
    <3>4. QED
      BY <2>4, <3>2, <3>3
  <2>7. QED
    BY <2>2, <2>6 DEF DuplicateWindow
<1>2. ASSUME NEW w \in todo, RecordWatch(w) PROVE DupInv'
  <2>1. /\ signals' = Append(signals, SignalRow(w, TRUE)) /\ SignalOf(w).action = "WATCH"
        /\ crashes' = crashes /\ pc' # "down"
    BY <1>2 DEF RecordWatch, envVars
  <2>2. SignalRow(w, TRUE) \in SignalRows
    BY SignalRowType DEF TypeOK
  <2>3. /\ DOMAIN signals' = DOMAIN signals \cup {Len(signals) + 1}
        /\ \A i \in DOMAIN signals : signals'[i] = signals[i]
        /\ signals'[Len(signals) + 1].action = "WATCH"
        /\ \A i \in DOMAIN signals' : i < Len(signals) + 1 => i \in DOMAIN signals
    BY <1>a, <2>1, <2>2 DEF SignalRow
  <2>4. ASSUME crashes = 0, NEW i \in DOMAIN signals', NEW j \in DOMAIN signals', i < j,
               signals'[j].ok, signals'[j].action # "WATCH",
               signals'[i].mgr = signals'[j].mgr, signals'[i].ticker = signals'[j].ticker,
               signals'[i].action = signals'[j].action
        PROVE  signals'[i].at < signals'[j].at - DupWindow
    <3>1. j \in DOMAIN signals
      BY <2>3, <2>4
    <3>2. i \in DOMAIN signals
      BY <1>a, <2>3, <2>4, <3>1
    <3>3. QED
      BY <2>3, <2>4, <3>1, <3>2 DEF DuplicateWindow
  <2>5. DuplicateWindow'
    BY <2>1, <2>4 DEF DuplicateWindow
  <2>6. QED
    BY <2>1, <2>5
<1>3. CASE Restart
  BY <1>3 DEF Restart, DuplicateWindow, envVars
<1>4. CASE Submit \/ Record
  BY <1>4, <1>d DEF Submit, Record, dbVars, envVars
<1>5. CASE Tick
  BY <1>5, <1>d DEF Tick, dbVars
<1>6. CASE Quiet
  BY <1>6, <1>a, <1>d DEF Quiet, DuplicateWindow
<1>7. QED
  BY <1>1, <1>2, <1>3, <1>4, <1>5, <1>6, StepKinds

\* Until a restart reassigns rows, no signal passes the gate within the window
\* of another of its manager, ticker and action, rejected ones included.
THEOREM DuplicateProved == Spec => []DuplicateWindow
<1>1. Init => DupInv
  BY DEF Init, DupInv, DuplicateWindow
<1>2. DupInv => DuplicateWindow
  BY DEF DupInv
<1>3. QED
  BY <1>1, <1>2, TypeInit, TypeNext, DupNext, PTL DEF Spec

-----------------------------------------------------------------------------
(***************************************************************************)
(* The daily limit.  Rows are never of the future, so a new trading day    *)
(* starts with none; a call past the gate has room for the row it will     *)
(* record, on whatever day that is.                                        *)
(***************************************************************************)
Counted(m, tk, d) ==
  {i \in DOMAIN trades : /\ trades[i].account = m /\ trades[i].ticker = tk
                         /\ DayOf[trades[i].at] = d
                         /\ CountSim \/ ~trades[i].sim}

RowsPast == \A i \in DOMAIN trades : trades[i].at <= now

CallRoom ==
  pc \in Past /\ MaxPerDay > 0 =>
    Cardinality(Counted(MgrOf(cur), SignalOf(cur).ticker, DayOf[now])) < MaxPerDay

DayInv == RowsPast /\ CallRoom /\ DailyLimitByAccount

\* The rows counted are finitely many.
LEMMA CountedFinite ==
  ASSUME TypeOK, NEW m, NEW tk, NEW d
  PROVE  /\ IsFiniteSet(Counted(m, tk, d)) /\ Cardinality(Counted(m, tk, d)) \in Nat
         /\ IsFiniteSet(DOMAIN trades)
<1>1. DOMAIN trades = 1..Len(trades) /\ Len(trades) \in Nat
  BY DEF TypeOK
<1>2. IsFiniteSet(DOMAIN trades)
  BY <1>1, FS_Interval
<1>3. Counted(m, tk, d) \subseteq DOMAIN trades
  BY DEF Counted
<1>4. QED
  BY <1>2, <1>3, FS_Subset, FS_CardinalityType

\* What keeps the counted fields of all rows keeps the limit.
LEMMA LimitKept ==
  ASSUME DailyLimitByAccount, DOMAIN trades' = DOMAIN trades,
         \A i \in DOMAIN trades :
           /\ trades'[i].account = trades[i].account /\ trades'[i].ticker = trades[i].ticker
           /\ trades'[i].at = trades[i].at /\ trades'[i].sim = trades[i].sim
  PROVE  DailyLimitByAccount'
<1>1. \A m \in Managers, tk \in Tickers, t \in Time :
        {i \in DOMAIN trades' : /\ trades'[i].account = m /\ trades'[i].ticker = tk
                                /\ DayOf[trades'[i].at] = DayOf[t]
                                /\ CountSim \/ ~trades'[i].sim}
          = {i \in DOMAIN trades : /\ trades[i].account = m /\ trades[i].ticker = tk
                                   /\ DayOf[trades[i].at] = DayOf[t]
                                   /\ CountSim \/ ~trades[i].sim}
  OBVIOUS
<1>2. QED
  BY <1>1 DEF DailyLimitByAccount

\* The gate counts rows by manager and from today on, the limit by account and
\* day: what the gate lets past has room.
LEMMA GateLeavesRoom ==
  ASSUME TypeOK, OwnAccount, Evaluate, pc' \in Past, MaxPerDay > 0
  PROVE  Cardinality(Counted(MgrOf(cur), SignalOf(cur).ticker, DayOf[now])) < MaxPerDay
<1> DEFINE m == MgrOf(cur)  tk == SignalOf(cur).ticker
<1>1. m \in Managers
  BY ItemFacts DEF Evaluate, TypeOK, Working
<1>2. m # NoAccount
  BY <1>1, SizesAssumption DEF Managers, NoAccount
<1>3. DayOf[now] \in Int
  BY TimeFacts, ClockAssumption
<1>4. Counted(m, tk, DayOf[now]) \subseteq TradesToday(m, tk)
  BY <1>2, <1>3 DEF Counted, TradesToday, OwnAccount
<1>5. TradesToday(m, tk) \subseteq DOMAIN trades
  BY DEF TradesToday
<1>6. IsFiniteSet(TradesToday(m, tk)) /\ Cardinality(TradesToday(m, tk)) \in Nat
  BY <1>5, CountedFinite, FS_Subset, FS_CardinalityType
<1>7. Cardinality(Counted(m, tk, DayOf[now])) <= Cardinality(TradesToday(m, tk))
  BY <1>4, <1>6, FS_Subset
<1>8. ~(Cardinality(TradesToday(m, tk)) >= MaxPerDay)
  BY PastGate DEF DailyLimitReached
<1>9. MaxPerDay \in Int /\ Cardinality(Counted(m, tk, DayOf[now])) \in Nat
  BY SizesAssumption, CountedFinite
<1>10. QED
  BY <1>6, <1>7, <1>8, <1>9

\* Room found on one day is room on the next, which starts without rows.
LEMMA RoomAfterTick ==
  ASSUME TypeOK, RowsPast, Tick, MaxPerDay > 0, NEW m, NEW tk,
         Cardinality(Counted(m, tk, DayOf[now])) < MaxPerDay
  PROVE  Cardinality(Counted(m, tk, DayOf[now + 1])) < MaxPerDay
<1>1. now \in Time /\ now + 1 \in Time /\ now <= now + 1 /\ now \in Int
  BY TimeFacts, ClockAssumption DEF Tick, Time
<1>2. DayOf[now] <= DayOf[now + 1] /\ DayOf[now] \in Int /\ DayOf[now + 1] \in Int
  BY <1>1, ClockAssumption
<1>3. \A s \in Time : s <= now => DayOf[s] <= DayOf[now] /\ DayOf[s] \in Int
  BY <1>1, ClockAssumption
<1>4. CASE DayOf[now + 1] = DayOf[now]
  BY <1>4
<1>5. CASE DayOf[now + 1] # DayOf[now]
  <2>1. ASSUME NEW i \in DOMAIN trades PROVE DayOf[trades[i].at] # DayOf[now + 1]
    <3>1. trades[i].at \in Time /\ trades[i].at <= now
      BY TimeFacts DEF RowsPast
    <3>2. DayOf[trades[i].at] <= DayOf[now] /\ DayOf[trades[i].at] \in Int
      BY <1>3, <3>1
    <3>3. QED
      BY <1>2, <1>5, <3>2
  <2>2. Counted(m, tk, DayOf[now + 1]) = {}
    BY <2>1 DEF Counted
  <2>3. QED
    BY <2>2, FS_EmptySet
<1>6. QED
  BY <1>4, <1>5

\* The row a call records takes up the room the call had.
LEMMA RecordWithinLimit ==
  ASSUME TypeOK, ResultOwn, CallRoom, DailyLimitByAccount, Record
  PROVE  DailyLimitByAccount'
<1> DEFINE n == Len(trades) + 1  row == TradeRow(cur)
<1>1. SUFFICES ASSUME MaxPerDay > 0, NEW m \in Managers, NEW tk \in Tickers, NEW t \in Time
               PROVE  Cardinality(Counted(m, tk, DayOf[t])') <= MaxPerDay
  BY DEF DailyLimitByAccount, Counted
<1>2. m # NoAccount
  BY SizesAssumption DEF Managers, NoAccount
<1>3. Cardinality(Counted(m, tk, DayOf[t])) <= MaxPerDay
  BY <1>1 DEF DailyLimitByAccount, Counted
<1>4. /\ MaxPerDay \in Int /\ IsFiniteSet(Counted(m, tk, DayOf[t]))
      /\ Cardinality(Counted(m, tk, DayOf[t])) \in Nat
  BY SizesAssumption, CountedFinite
<1>5. /\ DOMAIN trades' = DOMAIN trades \cup {n} /\ n \notin DOMAIN trades
      /\ \A i \in DOMAIN trades : trades'[i] = trades[i]
      /\ trades'[n] = row
  BY RecordedRow
<1>6. CASE /\ row.account = m /\ row.ticker = tk /\ DayOf[row.at] = DayOf[t]
           /\ CountSim \/ ~row.sim
  <2>1. Counted(m, tk, DayOf[t])' = Counted(m, tk, DayOf[t]) \cup {n}
    BY <1>5, <1>6 DEF Counted
  <2>2. n \notin Counted(m, tk, DayOf[t])
    BY <1>5 DEF Counted
  <2>3. m = MgrOf(cur) /\ tk = SignalOf(cur).ticker /\ DayOf[t] = DayOf[now] /\ pc \in Past
    BY <1>2, <1>6, RecordedRow DEF Past
  <2>4. Cardinality(Counted(m, tk, DayOf[t])) < MaxPerDay
    BY <1>1, <2>3 DEF CallRoom
  <2>5. Cardinality(Counted(m, tk, DayOf[t]) \cup {n}) = Cardinality(Counted(m, tk, DayOf[t])) + 1
    BY <1>4, <2>2, FS_AddElement
  <2>6. QED
    BY <1>4, <2>1, <2>4, <2>5
<1>7. CASE ~(/\ row.account = m /\ row.ticker = tk /\ DayOf[row.at] = DayOf[t]
             /\ CountSim \/ ~row.sim)
  <2>1. Counted(m, tk, DayOf[t])' = Counted(m, tk, DayOf[t])
    BY <1>5, <1>7 DEF Counted
  <2>2. QED
    BY <1>3, <2>1
<1>8. QED
  BY <1>6, <1>7

\* Every step keeps the room and the limit.
LEMMA DayNext == TypeOK /\ ResultOwn /\ OwnAccount /\ DayInv /\ [Next]_vars => DayInv'
<1> SUFFICES ASSUME TypeOK, ResultOwn, OwnAccount, DayInv, [Next]_vars PROVE DayInv'
  OBVIOUS
<1> USE DEF DayInv
<1>a. now \in Int /\ \A i \in DOMAIN trades : trades[i].at \in Int
  BY TimeFacts
<1>b. ASSUME trades' = trades PROVE DailyLimitByAccount'
  BY <1>b, LimitKept
<1>c. ASSUME trades' = trades, now' = now PROVE RowsPast' /\ DailyLimitByAccount'
  BY <1>b, <1>c DEF RowsPast
<1>1. CASE Evaluate
  <2>1. trades' = trades /\ now' = now
    BY <1>1 DEF Evaluate, envVars
  <2>2. CASE pc' \in Past
    BY <1>c, <1>1, <2>1, <2>2, PastGate, GateLeavesRoom DEF CallRoom, Counted
  <2>3. CASE pc' \notin Past
    BY <1>c, <2>1, <2>3 DEF CallRoom
  <2>4. QED
    BY <2>2, <2>3
<1>2. CASE Record
  <2>1. CallRoom'
    BY <1>2, RecordedRow DEF CallRoom, Past
  <2>2. RowsPast'
    BY <1>2, <1>a, RecordedRow DEF RowsPast
  <2>3. QED
    BY <1>2, <2>1, <2>2, RecordWithinLimit
<1>3. CASE Restart
  <2>1. now' = now /\ pc' \notin Past
    BY <1>3 DEF Restart, envVars, Past
  <2>2. RowsPast' /\ DailyLimitByAccount'
    BY <1>3, <2>1, RestartKeepsTrades, LimitKept DEF RowsPast
  <2>3. QED
    BY <2>1, <2>2 DEF CallRoom
<1>4. CASE Tick
  <2>1. now' = now + 1 /\ trades' = trades /\ pc' = pc /\ cur' = cur
    BY <1>4 DEF Tick, dbVars, callVars
  <2>2. RowsPast'
    BY <1>a, <2>1 DEF RowsPast
  <2>3. CallRoom'
    <3>1. SUFFICES ASSUME pc \in Past, MaxPerDay > 0
                   PROVE  Cardinality(Counted(MgrOf(cur), SignalOf(cur).ticker, DayOf[now])') < MaxPerDay
      BY <2>1 DEF CallRoom, Counted
    <3>2. Cardinality(Counted(MgrOf(cur), SignalOf(cur).ticker, DayOf[now])) < MaxPerDay
      BY <3>1 DEF CallRoom
    <3>3. Cardinality(Counted(MgrOf(cur), SignalOf(cur).ticker, DayOf[now + 1])) < MaxPerDay
      BY <1>4, <3>1, <3>2, RoomAfterTick
    <3>4. Counted(MgrOf(cur), SignalOf(cur).ticker, DayOf[now])'
            = Counted(MgrOf(cur), SignalOf(cur).ticker, DayOf[now + 1])
      BY <2>1 DEF Counted
    <3>5. QED
      BY <3>3, <3>4
  <2>4. QED
    BY <1>b, <2>1, <2>2, <2>3
<1>5. CASE Submit
  BY <1>5, <1>c DEF Submit, dbVars, envVars, callVars, CallRoom, Counted, Past
<1>6. ASSUME NEW w \in todo, RecordWatch(w) PROVE DayInv'
  BY <1>6, <1>c DEF RecordWatch, envVars, CallRoom, Past
<1>7. CASE Quiet
  BY <1>7, <1>c DEF Quiet, CallRoom, Counted
<1>8. QED
  BY <1>1, <1>2, <1>3, <1>4, <1>5, <1>6, <1>7, StepKinds

\* The trades an account answered for never exceed the daily limit of a ticker,
\* for any limit, any number of managers, crashes and repairs.
THEOREM DailyLimitProved == Spec => []DailyLimitByAccount
<1>1. Init => DayInv
  <2>1. SUFFICES ASSUME Init PROVE DayInv
    OBVIOUS
  <2>2. DOMAIN trades = {}
    BY <2>1 DEF Init
  <2>3. DailyLimitByAccount
    <3>1. SUFFICES ASSUME MaxPerDay > 0, NEW m \in Managers, NEW tk \in Tickers, NEW t \in Time
                   PROVE  Cardinality(Counted(m, tk, DayOf[t])) <= MaxPerDay
      BY DEF DailyLimitByAccount, Counted
    <3>2. Counted(m, tk, DayOf[t]) = {}
      BY <2>2 DEF Counted
    <3>3. QED
      BY <3>1, <3>2, FS_EmptySet, SizesAssumption
  <2>4. QED
    BY <2>1, <2>3 DEF Init, DayInv, RowsPast, CallRoom, Past
<1>2. DayInv => DailyLimitByAccount
  BY DEF DayInv
<1>3. QED
  BY <1>1, <1>2, OwnCorrect, DayNext, PTL DEF Spec
=============================================================================
