------------------------------ MODULE Watchlist ------------------------------
(***************************************************************************)
(* What the bot remembers of a ticker beside its trades: the watch         *)
(* interest that weights buys, pruned when it is stale, and the tickers it *)
(* has traded, which a tweet may name without a cashtag.                   *)
(*                                                                         *)
(* One call at a time, as in the trading loop: a watch signal is recorded  *)
(* with its entry in one commit, a live buy is sized, ordered, recorded,   *)
(* and its ticker registered in a commit of its own.                       *)
(***************************************************************************)
EXTENDS BuySizing, FiniteSets

CONSTANTS Managers, Tickers,
          MaxScore,         \* quarters
          StaleDays,
          Buys,             \* what buy signals say: [explicit, pct, conviction, confidence]
          Cash,             \* the cash an account may have
          Asks,             \* the prices asked for a share, and the tick of their limit
          Watched,          \* the tiers of watch signals
          MaxDay, MaxBatches, MaxWatches, MaxCrashes, MaxFailures      \* bounds

ASSUME WatchlistAssumption ==
  /\ {MaxScore, StaleDays, MaxDay, MaxBatches, MaxWatches, MaxCrashes, MaxFailures} \subseteq Nat
  /\ MaxScore > 0
  /\ Buys \subseteq [explicit : BOOLEAN, pct : Nat, conviction : Convictions, confidence : 0..99]
  /\ Asks \subseteq [price : Nat \ {0}, tick : Nat \ {0}]
  /\ Cash \subseteq Nat /\ Watched \subseteq DOMAIN TierMultiplier

\* Quarters of a point.
ScoreDelta == [soft |-> 2, start |-> 3, standard |-> 4, heavy |-> 8]
Tiers == DOMAIN ScoreDelta
Keys == Managers \X Tickers
NoEntry == [score |-> 0, seen |-> 0, tier |-> "none"]
NoOrder == [key |-> <<>>, buy |-> <<>>, cash |-> 0, boost |-> 0, seen |-> 0, cents |-> 0,
            ask |-> <<>>, quantity |-> 0, limit |-> 0]

VARIABLES day,         \* the date
          entries,     \* the watchlist table
          recognized,  \* the recognized_tickers table
          traded,      \* what the trades table has orders of that did not fail
          began,       \* the day the current batch of tweets began, for the properties
          order,       \* the buy being placed
          pc,          \* "idle", "batch" (between calls), "ordered", "recorded" or "down"
          batches, watches, crashes, failures

vars == <<day, entries, recognized, traded, began, order, pc, batches, watches, crashes, failures>>
tables == <<entries, recognized, traded>>
call == <<began, order, pc>>
bounds == <<batches, watches, crashes, failures>>

Init ==
  /\ day = 0 /\ began = 0
  /\ entries = [k \in Keys |-> NoEntry]
  /\ recognized = {} /\ traded = {}
  /\ order = NoOrder /\ pc = "idle"
  /\ batches = 0 /\ watches = 0 /\ crashes = 0 /\ failures = 0

Stale(entry) == entry.seen < day - StaleDays

\* Mutant: an entry is stale one day late.
BeginBatchLate ==
  /\ pc = "idle" /\ batches < MaxBatches
  /\ batches' = batches + 1 /\ pc' = "batch" /\ began' = day
  /\ entries' = IF StaleDays = 0 THEN entries
                ELSE [k \in Keys |-> IF entries[k].seen + 1 < day - StaleDays THEN NoEntry
                                     ELSE entries[k]]
  /\ UNCHANGED <<day, recognized, traded, order, watches, crashes, failures>>

\* A poll that found tweets; the watchlist is pruned before they are parsed.
BeginBatch ==
  /\ pc = "idle" /\ batches < MaxBatches
  /\ batches' = batches + 1 /\ pc' = "batch" /\ began' = day
  /\ entries' = IF StaleDays = 0 THEN entries
                ELSE [k \in Keys |-> IF Stale(entries[k]) THEN NoEntry ELSE entries[k]]
  /\ UNCHANGED <<day, recognized, traded, order, watches, crashes, failures>>

\* Mutant: a new watch signal starts the score again.
UpsertAnew(entry, tier) ==
  [score |-> LesserOf(MaxScore, ScoreDelta[tier]), seen |-> day, tier |-> tier]

\* The score adds up to its cap, the last tier counts.
Upsert(entry, tier) ==
  [score |-> LesserOf(MaxScore, entry.score + ScoreDelta[tier]), seen |-> day, tier |-> tier]

RecordWatch(k, tier) ==
  /\ pc = "batch" /\ watches < MaxWatches
  /\ watches' = watches + 1
  /\ entries' = [entries EXCEPT ![k] = Upsert(entries[k], tier)]
  /\ UNCHANGED <<day, recognized, traded, call, batches, crashes, failures>>

Multiplier(k, buy) ==
  IF entries[k] = NoEntry \/ buy.explicit THEN PlainMultiplier
  ELSE WatchMultiplier(entries[k].tier, entries[k].score)

\* A buy past the gate, sized from the cash fetched for it, and the order that is sent for it.
SizeBuy(k, buy, cash, ask) ==
  LET multiplier == Multiplier(k, buy)
      allocation == Allocation(buy.explicit, buy.pct, buy.conviction, buy.confidence)
      amount == BuyAmount(buy.explicit, Target(allocation, multiplier), cash)
  IN  /\ pc = "batch" /\ amount > 0
      /\ \E cents \in Nearest(amount, Cent) :
           \E sent \in LimitBuys(cents, ask) :
             order' = [key |-> k, buy |-> buy, cash |-> cash, boost |-> multiplier,
                       seen |-> IF multiplier = PlainMultiplier THEN began ELSE entries[k].seen,
                       cents |-> cents, ask |-> ask, quantity |-> sent.quantity,
                       limit |-> sent.limit]
      /\ pc' = "ordered"
      /\ UNCHANGED <<day, tables, began, bounds>>

\* The row of the trade; one whose order failed, as one of no shares does, is not registered.
RecordTrade ==
  /\ pc = "ordered"
  /\ \/ /\ order.quantity > 0
        /\ traded' = traded \cup {order.key} /\ pc' = "recorded" /\ UNCHANGED order
     \/ UNCHANGED traded /\ pc' = "batch" /\ order' = NoOrder
  /\ UNCHANGED <<day, entries, recognized, began, bounds>>

\* Mutant: the manager is left out of the look-up.
RegisterByTicker ==
  /\ pc = "recorded"
  /\ recognized' = IF \E k \in recognized : k[2] = order.key[2] THEN recognized
                   ELSE recognized \cup {order.key}
  /\ pc' = "batch" /\ order' = NoOrder
  /\ UNCHANGED <<day, entries, traded, began, bounds>>

Register ==
  /\ pc = "recorded"
  /\ recognized' = recognized \cup {order.key}
  /\ pc' = "batch" /\ order' = NoOrder
  /\ UNCHANGED <<day, entries, traded, began, bounds>>

EndBatch ==
  /\ pc = "batch" /\ pc' = "idle"
  /\ UNCHANGED <<day, tables, began, order, bounds>>

\* The commit of the row raises, or, once the row is there, the refresh of its status, the alert or
\* the commit of the registry does: the loop drops the call with the rest of its batch.
CallFails ==
  /\ pc \in {"ordered", "recorded"} /\ failures < MaxFailures
  /\ failures' = failures + 1 /\ pc' = "idle" /\ order' = NoOrder
  /\ UNCHANGED <<day, tables, began, batches, watches, crashes>>

\* The process dies with the rest of its batch.
Crash ==
  /\ pc # "down" /\ crashes < MaxCrashes
  /\ crashes' = crashes + 1 /\ pc' = "down" /\ order' = NoOrder
  /\ UNCHANGED <<day, tables, began, batches, watches, failures>>

Restart ==
  /\ pc = "down" /\ pc' = "idle"
  /\ UNCHANGED <<day, tables, began, order, bounds>>

NextDay ==
  /\ day < MaxDay /\ day' = day + 1
  /\ UNCHANGED <<tables, call, bounds>>

Next ==
  \/ BeginBatch \/ EndBatch \/ RecordTrade \/ Register \/ CallFails \/ Crash \/ Restart \/ NextDay
  \/ \E k \in Keys :
       \/ \E tier \in Watched : RecordWatch(k, tier)
       \/ \E buy \in Buys, cash \in Cash, ask \in Asks : SizeBuy(k, buy, cash, ask)

Spec == Init /\ [][Next]_vars

-----------------------------------------------------------------------------
(* Properties *)

Orders ==
  [key : Keys, buy : Buys, cash : Cash, boost : Nat, seen : 0..MaxDay, cents : Nat, ask : Asks,
   quantity : Nat, limit : Nat]

TypeOK ==
  /\ day \in 0..MaxDay /\ began \in 0..day
  /\ batches \in 0..MaxBatches /\ watches \in 0..MaxWatches
  /\ crashes \in 0..MaxCrashes /\ failures \in 0..MaxFailures
  /\ entries \in [Keys -> [score : 1..MaxScore, seen : 0..day, tier : Tiers] \cup {NoEntry}]
  /\ recognized \subseteq Keys /\ traded \subseteq Keys
  /\ pc \in {"idle", "batch", "ordered", "recorded", "down"}
  /\ IF pc \in {"ordered", "recorded"} THEN order \in Orders ELSE order = NoOrder

\* A buy is of at most the cash there was and leaves the buffer in it, unless the tweet stated the
\* percentage, but for the half cent it is rounded by: watch interest, confidence and conviction
\* never lift it higher.  The order sent may be worth more than that by half the smallest part of
\* a share and, for every share, half a tick, and by no more.
WithinCash ==
  order # NoOrder =>
    LET kept == IF order.buy.explicit THEN 0 ELSE BufferPct * Percent
    IN  /\ order.cents * Cent + kept <= order.cash + Cent \div 2
        /\ 2 * (order.quantity * order.limit - order.cents * Points * Parts)
             <= order.ask.price + order.quantity * order.ask.tick

\* What interest may do to a buy, however often and in whichever tiers a ticker was watched:
\* nothing to an allocation the tweet stated, which is exact to the cent (README.md:358) or all
\* the cash, and at most 43 percent to any other.
InterestBounded ==
  order # NoOrder =>
    IF order.buy.explicit
    THEN order.cents \in Nearest(order.buy.pct * Percent, Cent) \cup Nearest(order.cash, Cent)
    ELSE 100 * order.boost <= 143 * PlainMultiplier

\* Interest that weighted an order was fresh when the batch of its tweet began.
FreshInterest ==
  order # NoOrder /\ StaleDays > 0 => order.seen >= began - StaleDays

\* A ticker whose trade is on record is recognized, but for the call that is registering it and at
\* most one for each crash and each exception, which fall between the two commits.
TradedIsRecognized ==
  Cardinality(traded \ (recognized \cup (IF pc = "recorded" THEN {order.key} ELSE {}))) <= crashes + failures

\* Interest in a ticker falls only by being forgotten, and is forgotten only when it is stale.
InterestKept ==
  [][\A k \in Keys : entries'[k].score < entries[k].score =>
       entries'[k] = NoEntry /\ Stale(entries[k])]_vars
=============================================================================
