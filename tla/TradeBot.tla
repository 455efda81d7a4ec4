------------------------------ MODULE TradeBot ------------------------------
(***************************************************************************)
(* The live trading path: the orchestrator's worker loop polls tweets,     *)
(* turns them into signals and hands every signal to every enabled account *)
(* manager in turn; a manager asks the broker, runs the risk gate over the *)
(* rows of the database, places an order and records a trade.  The         *)
(* operator pauses and resumes, the process crashes and restarts (which    *)
(* runs the repair of manager ids), and the broker answers late, with an   *)
(* error, or never.                                                        *)
(*                                                                         *)
(* The event loop runs one task for the worker, so a step of this module   *)
(* is what happens between two awaits; other callers interleave there.     *)
(***************************************************************************)
EXTENDS Integers, Sequences, FiniteSets

CONSTANTS
  NManagers,   \* account managers, numbered in configured order
  Enabled,     \* those whose config says enabled
  Legacy,      \* default_manager_id: the manager that inherits unowned rows
  NTweets,     \* tweets the account ever posts, numbered by posted_at
  Tickers,
  USTickers,   \* the tickers without a "." in them
  SignalsOf,   \* what the parser makes of each tweet
  Live,        \* settings.live_trading_enabled
  CountSim,    \* daily_limit_counts_simulation
  Cooldown,    \* cooldown_seconds, in clock units
  DupWindow,   \* duplicate_window_seconds, in clock units
  MaxPerDay,   \* max_trades_per_ticker_per_day (0 disables the limit)
  MaxTime,     \* bound on the clock
  DayOf,       \* the US trading day each clock value falls in
  OpenTimes,   \* the clock values inside regular market hours
  MaxCrashes,  \* bound on the crashes
  Pausing      \* whether the operator pauses and resumes at all

Managers == 1..NManagers
Tweets   == 1..NTweets
Time     == 0..MaxTime
Actions  == {"BUY", "SELL", "WATCH", "IGNORE"}
Signal   == [ticker : Tickers, action : Actions]

ASSUME SizesAssumption ==
  /\ NManagers \in Nat \ {0}  /\ NTweets \in Nat
  /\ Enabled \subseteq Managers /\ Legacy \in Managers
  /\ Live \in BOOLEAN /\ CountSim \in BOOLEAN
  /\ MaxPerDay \in Int /\ MaxCrashes \in Nat /\ Pausing \in BOOLEAN

ASSUME ClockAssumption ==
  /\ MaxTime \in Nat /\ Cooldown \in Nat /\ DupWindow \in Nat
  /\ DayOf \in [Time -> Nat]
  /\ \A s, t \in Time : s <= t => DayOf[s] <= DayOf[t]
  /\ OpenTimes \subseteq Time

\* _dedupe_signals keeps one signal per ticker of a tweet.
ASSUME ParserAssumption ==
  /\ USTickers \subseteq Tickers
  /\ SignalsOf \in [Tweets -> Seq(Signal)]
  /\ \A t \in Tweets : \A i, j \in DOMAIN SignalsOf[t] :
       SignalsOf[t][i].ticker = SignalsOf[t][j].ticker => i = j

-----------------------------------------------------------------------------
(***************************************************************************)
(* A work item <<t, k, m>> is the k-th signal of tweet t for manager m.    *)
(***************************************************************************)
Items       == UNION {{t} \X (DOMAIN SignalsOf[t]) \X Managers : t \in Tweets}
NoItem      == <<0, 0, 0>>
TweetOf(w)  == w[1]
MgrOf(w)    == w[3]
SignalOf(w) == SignalsOf[w[1]][w[2]]

\* The calls that an iteration over the new tweets S makes.
WorkFor(S) == {w \in Items : /\ TweetOf(w) \in S
                             /\ SignalOf(w).action # "IGNORE"
                             /\ MgrOf(w) \in Enabled}

\* Tweets by posted_at, then the signals of one, then the managers.
Before(v, w) == \/ v[1] < w[1]
                \/ v[1] = w[1] /\ v[2] < w[2]
                \/ v[1] = w[1] /\ v[2] = w[2] /\ v[3] < w[3]

NoAccount == 0
NoResult  == [status |-> "none", account |-> NoAccount]
Results   == [status : {"submitted", "failed", "simulated"},
              account : Managers \cup {NoAccount}]

VARIABLES
  now,         \* the clock
  crashes,
  held,        \* the call the worker awaits is in a login that nobody approves
  seen,        \* tweets table
  signals,     \* parsed_signals table, by id
  trades,      \* trades table, by id
  pc,          \* where the worker task is
  todo,        \* calls the current iteration still has to make
  cur,         \* the call it is making
  sigId,       \* its parsed_signal_id
  result,      \* its BrokerOrderResult
  paused,      \* BotOrchestrator._paused
  mpaused,     \* AccountManager._paused
  sent,        \* orders sent to the broker, ever
  wire,        \* those the broker has not decided yet
  accepted,    \* those the broker accepted
  sincePause   \* history: orders of paused managers since the last command

dbVars      == <<seen, signals, trades>>
callVars    == <<cur, sigId, result>>
pauseVars   == <<paused, mpaused>>
brokerVars  == <<sent, wire, accepted>>
envVars     == <<now, crashes, held>>
vars == <<envVars, dbVars, pc, todo, callVars, pauseVars, brokerVars, sincePause>>

Init ==
  /\ now = 0 /\ crashes = 0 /\ held = FALSE
  /\ seen = {} /\ signals = <<>> /\ trades = <<>>
  /\ pc = "idle" /\ todo = {}
  /\ cur = NoItem /\ sigId = 0 /\ result = NoResult
  /\ paused = FALSE /\ mpaused = [m \in Managers |-> FALSE]
  /\ sent = <<>> /\ wire = {} /\ accepted = {}
  /\ sincePause = 0

-----------------------------------------------------------------------------
(***************************************************************************)
(* The risk gate.  Quantities are abstracted: "sized" stands for the       *)
(* outcome of sizing the order from what the broker answered (holdings for *)
(* a SELL, cash for a BUY, either of which may be missing).                *)
(***************************************************************************)
TweetAlreadyTraded(m, t, tk) ==
  \E i \in DOMAIN trades :
    /\ trades[i].mgr = m /\ trades[i].ticker = tk
    /\ signals[trades[i].sig].tweet = t

TradesToday(m, tk) ==
  {i \in DOMAIN trades : /\ trades[i].mgr = m /\ trades[i].ticker = tk
                         /\ DayOf[trades[i].at] >= DayOf[now]
                         /\ CountSim \/ ~trades[i].sim}

\* Mutant: one too many.
DailyLimitPassed(m, tk) ==
  MaxPerDay > 0 /\ Cardinality(TradesToday(m, tk)) > MaxPerDay

DailyLimitReached(m, tk) ==
  MaxPerDay > 0 /\ Cardinality(TradesToday(m, tk)) >= MaxPerDay

\* Mutant: the boundary of the window is outside.
CoolingDownStrictly(m, tk) ==
  \E i \in DOMAIN trades : /\ trades[i].mgr = m /\ trades[i].ticker = tk
                           /\ trades[i].at > now - Cooldown

CoolingDown(m, tk) ==
  \E i \in DOMAIN trades : /\ trades[i].mgr = m /\ trades[i].ticker = tk
                           /\ trades[i].at >= now - Cooldown

\* Mutant: rejected signals do not count.
DuplicateAllowedSignal(m, tk, act) ==
  \E i \in DOMAIN signals : /\ signals[i].mgr = m /\ signals[i].ticker = tk
                            /\ signals[i].action = act /\ signals[i].ok
                            /\ signals[i].at >= now - DupWindow

DuplicateSignal(m, tk, act) ==
  \E i \in DOMAIN signals : /\ signals[i].mgr = m /\ signals[i].ticker = tk
                            /\ signals[i].action = act
                            /\ signals[i].at >= now - DupWindow

Allowed(w, sized) ==
  LET m == MgrOf(w)  tk == SignalOf(w).ticker  act == SignalOf(w).action
  IN  /\ tk \in USTickers
      /\ now \in OpenTimes
      /\ sized
      /\ ~TweetAlreadyTraded(m, TweetOf(w), tk)
      /\ ~DailyLimitReached(m, tk)
      /\ ~CoolingDown(m, tk)
      /\ ~DuplicateSignal(m, tk, act)

SignalRow(w, ok) ==
  [tweet |-> TweetOf(w), ticker |-> SignalOf(w).ticker, action |-> SignalOf(w).action,
   mgr |-> MgrOf(w), at |-> now, ok |-> ok]

TradeRow(w) ==
  [sig |-> sigId, ticker |-> SignalOf(w).ticker, action |-> SignalOf(w).action,
   mgr |-> MgrOf(w), at |-> now, status |-> result.status,
   sim |-> ~Live, account |-> result.account]

-----------------------------------------------------------------------------
(***************************************************************************)
(* The worker task.                                                        *)
(***************************************************************************)

\* Mutant: the tweets are not committed before they are acted on.
PollUncommitted ==
  /\ pc = "idle" /\ ~paused
  /\ \E S \in SUBSET (Tweets \ seen) :
       /\ todo' = WorkFor(S)
       /\ pc' = IF S = {} THEN "idle" ELSE "next"
  /\ UNCHANGED <<envVars, dbVars, callVars, pauseVars, brokerVars, sincePause>>

\* One poll: the unseen tweets are committed before any of them is acted on.
\* A failed fetch, or nothing new, ends the iteration.
Poll ==
  /\ pc = "idle" /\ ~paused
  /\ \E S \in SUBSET (Tweets \ seen) :
       /\ seen' = seen \cup S
       /\ todo' = WorkFor(S)
       /\ pc' = IF S = {} THEN "idle" ELSE "next"
  /\ UNCHANGED <<envVars, signals, trades, callVars, pauseVars, brokerVars, sincePause>>

IsNext(w) == w \in todo /\ \A v \in todo \ {w} : Before(w, v)

\* Mutant: a paused manager is waited for.
SkipPausedWaits(w) ==
  /\ pc = "next" /\ IsNext(w) /\ mpaused[MgrOf(w)]
  /\ UNCHANGED vars

\* A paused manager returns at once and leaves no row.
SkipPaused(w) ==
  /\ pc = "next" /\ IsNext(w) /\ mpaused[MgrOf(w)]
  /\ todo' = todo \ {w}
  /\ UNCHANGED <<envVars, dbVars, pc, callVars, pauseVars, brokerVars, sincePause>>

\* record_watch has no await in it.
RecordWatch(w) ==
  /\ pc = "next" /\ IsNext(w) /\ ~mpaused[MgrOf(w)]
  /\ SignalOf(w).action = "WATCH"
  /\ todo' = todo \ {w}
  /\ signals' = Append(signals, SignalRow(w, TRUE))
  /\ UNCHANGED <<envVars, seen, trades, pc, callVars, pauseVars, brokerVars, sincePause>>

\* Mutant: the pause is not checked.
StartCallUnchecked(w) ==
  /\ pc = "next" /\ IsNext(w)
  /\ SignalOf(w).action \in {"BUY", "SELL"}
  /\ todo' = todo \ {w} /\ cur' = w
  /\ pc' = "fetching"
  /\ UNCHANGED <<envVars, dbVars, sigId, result, pauseVars, brokerVars, sincePause>>

\* Past the pause check; the manager awaits cash or the holding.
StartCall(w) ==
  /\ pc = "next" /\ IsNext(w) /\ ~mpaused[MgrOf(w)]
  /\ SignalOf(w).action \in {"BUY", "SELL"}
  /\ todo' = todo \ {w} /\ cur' = w
  /\ pc' = "fetching"
  /\ UNCHANGED <<envVars, dbVars, sigId, result, pauseVars, brokerVars, sincePause>>

\* Mutant: only rejected signals are committed before the order.
EvaluateUncommitted ==
  /\ pc = "fetching"
  /\ \E sized \in BOOLEAN :
       IF Allowed(cur, sized)
       THEN /\ sigId' = Len(signals) + 1 /\ pc' = "ready"
            /\ UNCHANGED <<signals, cur>>
       ELSE /\ signals' = Append(signals, SignalRow(cur, FALSE))
            /\ pc' = "next" /\ cur' = NoItem /\ UNCHANGED sigId
  /\ UNCHANGED <<envVars, seen, trades, todo, result, pauseVars, brokerVars, sincePause>>

\* The gate and the commit of the signal's row are one step.
Evaluate ==
  /\ pc = "fetching"
  /\ \E sized \in BOOLEAN :
       LET ok == Allowed(cur, sized)
       IN  /\ signals' = Append(signals, SignalRow(cur, ok))
           /\ IF ok
              THEN /\ sigId' = Len(signals) + 1
                   /\ pc' = IF SignalOf(cur).action = "SELL" THEN "resizing" ELSE "ready"
                   /\ UNCHANGED cur
              ELSE /\ pc' = "next" /\ cur' = NoItem
                   /\ UNCHANGED sigId
  /\ UNCHANGED <<envVars, seen, trades, todo, result, pauseVars, brokerVars, sincePause>>

\* A sell is sized again from the live position.
ResizeSell ==
  /\ pc = "resizing"
  /\ \/ pc' = "ready" /\ UNCHANGED result
     \/ /\ pc' = "recording"
        /\ result' = [status |-> "failed", account |-> NoAccount]
  /\ UNCHANGED <<envVars, dbVars, todo, cur, sigId, pauseVars, brokerVars, sincePause>>

\* No session, no quote or no amount: the order never leaves the process.
NotSent ==
  /\ pc = "ready" /\ Live
  /\ result' = [status |-> "failed", account |-> NoAccount]
  /\ pc' = "recording"
  /\ UNCHANGED <<envVars, dbVars, todo, cur, sigId, pauseVars, brokerVars, sincePause>>

Submit ==
  /\ pc = "ready" /\ Live
  /\ sent' = Append(sent, [item |-> cur, at |-> now])
  /\ wire' = wire \cup {Len(sent) + 1}
  /\ sincePause' = IF mpaused[MgrOf(cur)] THEN sincePause + 1 ELSE sincePause
  /\ pc' = "waiting"
  /\ UNCHANGED <<envVars, dbVars, todo, callVars, pauseVars, accepted>>

\* A limit buy carries the account number once a session has resolved it.
Simulate ==
  /\ pc = "ready" /\ ~Live
  /\ \E a \in {NoAccount} \cup (IF SignalOf(cur).action = "BUY" THEN {MgrOf(cur)} ELSE {}) :
       result' = [status |-> "simulated", account |-> a]
  /\ pc' = "recording"
  /\ UNCHANGED <<envVars, dbVars, todo, cur, sigId, pauseVars, brokerVars, sincePause>>

\* The broker's answer: an accepted order, or an error body for a refused one.
Answered ==
  /\ pc = "waiting" /\ Len(sent) \notin wire
  /\ result' = [status  |-> IF Len(sent) \in accepted THEN "submitted" ELSE "failed",
                account |-> MgrOf(cur)]
  /\ pc' = "recording"
  /\ UNCHANGED <<envVars, dbVars, todo, cur, sigId, pauseVars, brokerVars, sincePause>>

\* The call raises (a timeout, a broken connection) whatever the broker did.
Raised ==
  /\ pc = "waiting"
  /\ result' = [status |-> "failed", account |-> NoAccount]
  /\ pc' = "recording"
  /\ UNCHANGED <<envVars, dbVars, todo, cur, sigId, pauseVars, brokerVars, sincePause>>

Record ==
  /\ pc = "recording"
  /\ trades' = Append(trades, TradeRow(cur))
  /\ pc' = "next" /\ cur' = NoItem /\ sigId' = 0 /\ result' = NoResult
  /\ UNCHANGED <<envVars, seen, signals, todo, pauseVars, brokerVars, sincePause>>

EndIteration ==
  /\ pc = "next" /\ todo = {}
  /\ pc' = "idle"
  /\ UNCHANGED <<envVars, dbVars, todo, callVars, pauseVars, brokerVars, sincePause>>

\* Any await or commit may raise: the loop logs it and drops the iteration.
IterationFails ==
  /\ ~held /\ pc \notin {"idle", "down"}
  /\ pc' = "idle" /\ todo' = {}
  /\ cur' = NoItem /\ sigId' = 0 /\ result' = NoResult
  /\ UNCHANGED <<envVars, dbVars, pauseVars, brokerVars, sincePause>>

\* Whatever the worker awaits at the broker goes through ensure_session, and
\* rh.login waits for an approval on the phone without a time limit.  The worker
\* makes no step until it comes, if it ever does.
LoginBlocks ==
  /\ pc # "down" /\ ~held /\ held' = TRUE
  /\ UNCHANGED <<now, crashes, dbVars, pc, todo, callVars, pauseVars, brokerVars, sincePause>>

LoginReturns ==
  /\ held /\ held' = FALSE
  /\ UNCHANGED <<now, crashes, dbVars, pc, todo, callVars, pauseVars, brokerVars, sincePause>>

-----------------------------------------------------------------------------
(***************************************************************************)
(* The operator.  Pauses are held in memory only.                          *)
(***************************************************************************)
SetPauses(all, each) ==
  /\ Pausing /\ pc # "down"
  /\ paused' = all /\ mpaused' = each
  /\ sincePause' = IF pauseVars' = pauseVars THEN sincePause ELSE 0
  /\ UNCHANGED <<envVars, dbVars, pc, todo, callVars, brokerVars>>

PauseAll         == SetPauses(TRUE, [m \in Managers |-> TRUE])
ResumeAll        == SetPauses(FALSE, [m \in Managers |-> FALSE])
PauseManager(m)  == SetPauses(paused, [mpaused EXCEPT ![m] = TRUE])
ResumeManager(m) == SetPauses(paused, [mpaused EXCEPT ![m] = FALSE])

-----------------------------------------------------------------------------
(***************************************************************************)
(* The broker decides orders in its own time, also for a process that has  *)
(* given up on the answer or died.                                         *)
(***************************************************************************)
BrokerAccepts(i) ==
  /\ i \in wire
  /\ wire' = wire \ {i} /\ accepted' = accepted \cup {i}
  /\ UNCHANGED <<envVars, dbVars, pc, todo, callVars, pauseVars, sent, sincePause>>

BrokerRefuses(i) ==
  /\ i \in wire
  /\ wire' = wire \ {i}
  /\ UNCHANGED <<envVars, dbVars, pc, todo, callVars, pauseVars, sent, accepted, sincePause>>

-----------------------------------------------------------------------------
(***************************************************************************)
(* Crash and restart.  Start-up logs the managers in and, if one of them   *)
(* (the set L) succeeds, reassigns rows: trades by their account, trades   *)
(* without one to Legacy, the signal of a trade to the manager of the      *)
(* trade, and every other signal to Legacy.                                *)
(***************************************************************************)
Crash ==
  /\ pc # "down" /\ crashes < MaxCrashes
  /\ crashes' = crashes + 1 /\ held' = FALSE
  /\ pc' = "down" /\ todo' = {}
  /\ cur' = NoItem /\ sigId' = 0 /\ result' = NoResult
  /\ paused' = FALSE /\ mpaused' = [m \in Managers |-> FALSE] /\ sincePause' = 0
  /\ UNCHANGED <<now, dbVars, brokerVars>>

RepairedOwner(tr, L) ==
  IF tr.account = NoAccount THEN Legacy
  ELSE IF tr.account \in L THEN tr.account ELSE tr.mgr

RepairedTrades(L) ==
  [i \in DOMAIN trades |-> [trades[i] EXCEPT !.mgr = RepairedOwner(trades[i], L)]]

\* Mutant: linked signals are not kept out of the reassignment to Legacy.
RepairedSignalsAll(L) ==
  [j \in DOMAIN signals |-> [signals[j] EXCEPT !.mgr = Legacy]]

RepairedSignals(L) ==
  [j \in DOMAIN signals |->
     IF \E i \in DOMAIN trades : trades[i].sig = j
     THEN [signals[j] EXCEPT !.mgr =
             RepairedOwner(trades[CHOOSE i \in DOMAIN trades : trades[i].sig = j], L)]
     ELSE [signals[j] EXCEPT !.mgr = Legacy]]

Restart ==
  /\ pc = "down"
  /\ \E L \in SUBSET Managers :
       IF L = {} THEN UNCHANGED <<signals, trades>>
       ELSE signals' = RepairedSignals(L) /\ trades' = RepairedTrades(L)
  /\ pc' = "idle"
  /\ UNCHANGED <<envVars, seen, todo, callVars, pauseVars, brokerVars, sincePause>>

Tick ==
  /\ now < MaxTime /\ now' = now + 1
  /\ UNCHANGED <<crashes, held, dbVars, pc, todo, callVars, pauseVars, brokerVars, sincePause>>

-----------------------------------------------------------------------------
Worker ==
  /\ ~held
  /\ \/ Poll \/ Evaluate \/ ResizeSell \/ NotSent \/ Submit \/ Simulate
     \/ Answered \/ Raised \/ Record \/ EndIteration
     \/ \E w \in todo : SkipPaused(w) \/ RecordWatch(w) \/ StartCall(w)

Operator ==
  \/ PauseAll \/ ResumeAll
  \/ \E m \in Managers : PauseManager(m) \/ ResumeManager(m)

Broker == \E i \in wire : BrokerAccepts(i) \/ BrokerRefuses(i)

Login == LoginBlocks \/ LoginReturns

Next == Worker \/ IterationFails \/ Login \/ Operator \/ Broker \/ Crash \/ Restart \/ Tick

Spec == Init /\ [][Next]_vars

\* The event loop keeps running the worker task while no login holds it.  Logins,
\* failures, operator, broker, crashes and the clock owe nothing.
FairSpec == Spec /\ WF_vars(Worker)

-----------------------------------------------------------------------------
(***************************************************************************)
(* Properties.                                                             *)
(***************************************************************************)
SignalRows == [tweet : Tweets, ticker : Tickers, action : Actions,
               mgr : Managers, at : Time, ok : BOOLEAN]
TradeRows  == [sig : Nat, ticker : Tickers, action : Actions, mgr : Managers,
               at : Time, status : {"submitted", "failed", "simulated"},
               sim : BOOLEAN, account : Managers \cup {NoAccount}]
Orders     == [item : Items, at : Time]

Working == {"fetching", "resizing", "ready", "waiting", "recording"}

\* Every variable has its type, and the call under way matches the program
\* point the worker task is at.
TypeOK ==
  /\ now \in Time /\ crashes \in 0..MaxCrashes /\ held \in BOOLEAN
  /\ seen \subseteq Tweets
  /\ signals \in Seq(SignalRows) /\ trades \in Seq(TradeRows)
  /\ pc \in {"idle", "down", "next"} \cup Working
  /\ todo \subseteq Items
  /\ cur \in Items \cup {NoItem} /\ (cur = NoItem <=> pc \notin Working)
  /\ sigId \in Nat
  /\ result \in Results \cup {NoResult} /\ (result # NoResult <=> pc = "recording")
  /\ paused \in BOOLEAN /\ mpaused \in [Managers -> BOOLEAN]
  /\ sent \in Seq(Orders)
  /\ wire \subseteq DOMAIN sent /\ accepted \subseteq DOMAIN sent
  /\ sincePause \in Nat

\* However the process crashes, restarts, times out or fails half-way, a
\* manager sends at most one order for one ticker of one tweet: the tweet is
\* committed as seen before anything acts on it, and nothing retries.
OneOrderPerSignal ==
  \A i, j \in DOMAIN sent :
    LET v == sent[i].item  w == sent[j].item
    IN  (/\ MgrOf(v) = MgrOf(w) /\ TweetOf(v) = TweetOf(w)
         /\ SignalOf(v).ticker = SignalOf(w).ticker) => i = j

\* No order reaches the broker without a trace: whatever is lost afterwards,
\* a committed signal row that passed the gate came before it.
OrderLeavesTrace ==
  \A i \in DOMAIN sent : \E j \in DOMAIN signals :
    /\ signals[j].ok /\ signals[j].tweet = TweetOf(sent[i].item)
    /\ signals[j].ticker = SignalOf(sent[i].item).ticker
    /\ signals[j].action = SignalOf(sent[i].item).action

\* A trade row stays joined, through every repair of manager ids, to one
\* signal row of its own that passed the gate for the same manager.
TradeHasAllowedSignal ==
  /\ \A i \in DOMAIN trades :
       /\ trades[i].sig \in DOMAIN signals
       /\ LET s == signals[trades[i].sig]
          IN  s.ok /\ s.ticker = trades[i].ticker /\ s.action = trades[i].action
                   /\ s.mgr = trades[i].mgr
  /\ \A i, j \in DOMAIN trades : trades[i].sig = trades[j].sig => i = j

\* The trades an account answered for never exceed the daily limit of a
\* ticker, although the gate decides before the row it will count exists, the
\* day may turn in between, and restarts move rows between managers.
DailyLimitByAccount ==
  MaxPerDay > 0 =>
    \A m \in Managers, tk \in Tickers, t \in Time :
      Cardinality({i \in DOMAIN trades :
                     /\ trades[i].account = m /\ trades[i].ticker = tk
                     /\ DayOf[trades[i].at] = DayOf[t]
                     /\ CountSim \/ ~trades[i].sim}) <= MaxPerDay

\* Two trades of an account in a ticker lie more than the cooldown apart,
\* counted from the time the first was recorded, not decided.
CooldownByAccount ==
  \A i, j \in DOMAIN trades :
    (/\ i < j /\ trades[i].account # NoAccount
     /\ trades[i].account = trades[j].account /\ trades[i].ticker = trades[j].ticker)
      => trades[j].at > trades[i].at + Cooldown

\* While no restart reassigns rows, a signal passes the gate only if its
\* manager evaluated no signal of the same ticker and action in the window,
\* rejected ones included.
DuplicateWindow ==
  crashes = 0 =>
    \A i, j \in DOMAIN signals :
      (/\ i < j /\ signals[j].ok /\ signals[j].action # "WATCH"
       /\ signals[i].mgr = signals[j].mgr /\ signals[i].ticker = signals[j].ticker
       /\ signals[i].action = signals[j].action)
        => signals[i].at < signals[j].at - DupWindow

\* Whatever the operator pauses, of all managers together at most one more
\* order of a paused one goes out: that of the call past its pause check.
PauseStopsAllButOne == sincePause <= 1

-----------------------------------------------------------------------------
(***************************************************************************)
(* What the whole path promises about one signal for one manager is        *)
(* SignalFate; this is the state of it that the system is in.              *)
(***************************************************************************)
Ordered == {sent[i].item : i \in DOMAIN sent}

Fate == [w \in Items |->
  IF w \in Ordered THEN "ordered"
  ELSE IF w \in todo \/ w = cur THEN "pending"
  ELSE IF TweetOf(w) \in seen THEN "closed" ELSE "unseen"]

F == INSTANCE SignalFate WITH Calls <- Items, fate <- Fate

\* Execution is at most once: a call is tried once, ordered at most once, and
\* never taken up again, whatever happens to the process.
AtMostOnce == F!Spec

\* Every call the loop took up is settled, ordered or given up, and nothing but a
\* login that waits for its approval can keep it from that: no pause, lost answer
\* or failure of a call before it.
CallsSettle == \A w \in Items : Fate[w] = "pending" ~> (Fate[w] # "pending" \/ held)
=============================================================================
