-------------------------- MODULE WatchlistProofs --------------------------
(***************************************************************************)
(* The invariants of the watchlist and of buy sizing, for every sleeve,    *)
(* every cash, any number of managers and tickers and every history.       *)
(***************************************************************************)
EXTENDS Watchlist, TLAPS, FiniteSetTheorems

\* The constants are numbers.
LEMMA Numbers ==
  /\ Sleeve \in Nat /\ DefaultPct \in Nat /\ StandardMax \in Nat /\ ReloadMax \in Nat
  /\ ThesisMin \in Nat /\ ThesisMax \in Nat /\ BufferPct \in Nat /\ MinDollars \in Nat
  /\ MinPct \in Nat /\ MaxScore \in Nat /\ MaxScore > 0 /\ StaleDays \in Nat
  /\ MaxDay \in Nat /\ MaxBatches \in Nat /\ MaxWatches \in Nat /\ MaxCrashes \in Nat
  /\ MaxFailures \in Nat /\ Parts \in Nat \ {0} /\ Points \in Nat \ {0}
BY SleeveAssumption, WatchlistAssumption

\* Products of naturals are naturals.
LEMMA Products ==
  ASSUME NEW a \in Nat, NEW b \in Nat
  PROVE  a * b \in Nat
OBVIOUS

\* What is rounded to the nearest unit is natural, and off by half a unit at most.
LEMMA NearestOff ==
  ASSUME NEW x \in Nat, NEW unit \in Nat \ {0}, NEW n \in Nearest(x, unit)
  PROVE  n \in Nat /\ 2 * (n * unit - x) <= unit
<1>1. x \div unit \in Nat
  OBVIOUS
<1> DEFINE d == x \div unit
<1> HIDE DEF d
<1>2. n \in {d, d + 1} /\ 2 * (n * unit - x) \in (-unit)..unit
  BY DEF Nearest, d
<1>3. d \in Nat
  BY <1>1 DEF d
<1>4. n \in Nat
  BY <1>2, <1>3
<1>5. n * unit \in Int
  BY <1>4
<1>6. QED
  BY <1>2, <1>4, <1>5

\* A limit order is worth more than its amount by half a part of a share and half a tick a share,
\* at most.
LEMMA LimitBuyOff ==
  ASSUME NEW cents \in Nat, NEW ask \in Asks, NEW sent \in LimitBuys(cents, ask)
  PROVE  /\ sent.quantity \in Nat /\ sent.limit \in Nat
         /\ 2 * (sent.quantity * sent.limit - cents * Points * Parts)
              <= ask.price + sent.quantity * ask.tick
<1> DEFINE worth == cents * Points * Parts
<1>1. ask.price \in Nat \ {0} /\ ask.tick \in Nat \ {0}
  BY WatchlistAssumption
<1>2. worth \in Nat
  BY Numbers, Products
<1> HIDE DEF worth
<1>3. PICK q \in Nearest(worth, ask.price), ticks \in Nearest(ask.price, ask.tick) :
        sent = [quantity |-> q, limit |-> ticks * ask.tick]
  BY DEF LimitBuys, worth
<1> DEFINE price == ask.price
           tick == ask.tick
           limit == ticks * tick
<1>4. q \in Nat /\ 2 * (q * price - worth) <= price
  BY <1>1, <1>2, NearestOff
<1>5. ticks \in Nat /\ 2 * (limit - price) <= tick
  BY <1>1, NearestOff
<1>6. price \in Nat /\ tick \in Nat /\ limit \in Nat
  BY <1>1, <1>5, Products
<1> HIDE DEF price, tick, limit
<1>7. q * (2 * (limit - price)) <= q * tick
  BY <1>4, <1>5, <1>6
<1>8. 2 * (q * limit - worth) = q * (2 * (limit - price)) + 2 * (q * price - worth)
  BY <1>2, <1>4, <1>6
<1>9. q * limit \in Nat /\ q * price \in Nat /\ q * tick \in Nat /\ q * (2 * (limit - price)) \in Int
  BY <1>4, <1>6, Products
<1>10. 2 * (q * limit - worth) <= price + q * tick
  BY <1>2, <1>4, <1>6, <1>7, <1>8, <1>9
<1>11. sent.quantity = q /\ sent.limit = limit
  BY <1>3 DEF limit, tick
<1>12. QED
  BY <1>4, <1>6, <1>10, <1>11 DEF worth, price, tick

\* Percentages of the sleeve are amounts.
LEMMA PercentIsNat == Percent \in Nat /\ BufferPct * Percent \in Nat
<1>1. Percent \in Nat
  BY Numbers DEF Percent
<1>2. QED
  BY <1>1, Numbers, Products

\* An allocation is a natural number of 49ths.
LEMMA AllocationIsNat ==
  ASSUME NEW explicit \in BOOLEAN, NEW pct \in Nat, NEW conviction \in Convictions,
         NEW confidence \in 0..99
  PROVE  Allocation(explicit, pct, conviction, confidence) \in Nat
<1> DEFINE low == Bounds(conviction)[1]
           high == Bounds(conviction)[2]
<1>1. low \in Nat /\ high \in Nat
  BY Numbers DEF Bounds, Convictions
<1>2. Interpolated(confidence) \in Nat
  BY DEF Interpolated, GreaterOf, LesserOf
<1>3. high > low => high - low \in Nat
  BY <1>1
<1> HIDE DEF low, high
<1>4. high > low => Interpolated(confidence) * (high - low) \in Nat
  BY <1>2, <1>3, Products
<1>5. Allocation(explicit, pct, conviction, confidence)
        = IF explicit THEN 49 * pct ELSE IF high <= low THEN 49 * low
          ELSE 49 * low + Interpolated(confidence) * (high - low)
  BY DEF Allocation, low, high
<1>6. QED
  BY <1>1, <1>4, <1>5

\* A multiplier is at least the plain one and at most 1.43 of it.
LEMMA MultiplierBounds ==
  ASSUME TypeOK, NEW k \in Keys, NEW buy \in Buys
  PROVE  /\ Multiplier(k, buy) \in Nat
         /\ 100 * Multiplier(k, buy) <= 143 * PlainMultiplier
         /\ buy.explicit => Multiplier(k, buy) = PlainMultiplier
<1>1. CASE entries[k] = NoEntry \/ buy.explicit
  BY <1>1 DEF Multiplier, PlainMultiplier
<1>2. CASE entries[k] # NoEntry /\ ~buy.explicit
  <2>1. entries[k].score \in Nat /\ entries[k].tier \in {"soft", "start", "standard", "heavy"}
    BY <1>2, Numbers DEF TypeOK, Tiers, ScoreDelta
  <2> DEFINE history == 200 + LesserOf(entries[k].score, 20)
             tier == TierMultiplier[entries[k].tier]
  <2>2. history \in 200..220
    BY <2>1 DEF LesserOf
  <2>3. tier \in {21, 22, 23, 26}
    BY <2>1 DEF TierMultiplier
  <2>4. Multiplier(k, buy) = tier * history
    BY <1>2 DEF Multiplier, WatchMultiplier
  <2> HIDE DEF history, tier
  <2>5. QED
    BY <1>2, <2>2, <2>3, <2>4 DEF PlainMultiplier
<1>3. QED
  BY <1>1, <1>2

\* An order is never above what may be spent, and is one only when that is more than nothing.
LEMMA AmountBounds ==
  ASSUME NEW explicit \in BOOLEAN, NEW target \in Nat, NEW cash \in Nat,
         BuyAmount(explicit, target, cash) > 0
  PROVE  LET amount == BuyAmount(explicit, target, cash)
             kept == IF explicit THEN 0 ELSE BufferPct * Percent
         IN  /\ amount \in Nat \ {0} /\ amount + kept <= cash
             /\ amount = target \/ amount = cash - kept
<1> DEFINE kept == IF explicit THEN 0 ELSE BufferPct * Percent
           lesser == LesserOf(target, Spendable(explicit, cash))
           amount == BuyAmount(explicit, target, cash)
<1>1. kept \in Nat
  BY PercentIsNat
<1>2. Spendable(explicit, cash) = IF 0 >= cash - kept THEN 0 ELSE cash - kept
  BY DEF Spendable, GreaterOf
<1>3. amount = IF lesser >= FloorAmount THEN lesser ELSE 0
  BY DEF BuyAmount
<1> HIDE DEF kept
<1>4. lesser = IF target <= Spendable(explicit, cash) THEN target ELSE Spendable(explicit, cash)
  BY DEF LesserOf
<1> HIDE DEF lesser, amount
<1>5. amount > 0
  BY DEF amount
<1>6. amount = lesser
  BY <1>3, <1>5
<1>7. /\ amount \in Nat \ {0} /\ amount + kept <= cash
      /\ amount = target \/ amount = cash - kept
  BY <1>1, <1>2, <1>4, <1>5, <1>6
<1>8. QED
  BY <1>7 DEF amount, kept

\* What SizeBuy puts into the order.
LEMMA OrderFacts ==
  ASSUME TypeOK, NEW k \in Keys, NEW buy \in Buys, NEW cash \in Cash, NEW ask \in Asks,
         SizeBuy(k, buy, cash, ask)
  PROVE  /\ order' \in Orders
         /\ order'.buy = buy /\ order'.cash = cash /\ order'.key = k /\ order'.ask = ask
         /\ order'.boost = Multiplier(k, buy)
         /\ order'.seen = began \/ (entries[k] # NoEntry /\ order'.seen = entries[k].seen)
         /\ order'.cents * Cent + (IF buy.explicit THEN 0 ELSE BufferPct * Percent)
              <= cash + Cent \div 2
         /\ 2 * (order'.quantity * order'.limit - order'.cents * Points * Parts)
              <= ask.price + order'.quantity * ask.tick
         /\ buy.explicit =>
              order'.cents \in Nearest(buy.pct * Percent, Cent) \cup Nearest(cash, Cent)
<1> DEFINE multiplier == Multiplier(k, buy)
           allocation == Allocation(buy.explicit, buy.pct, buy.conviction, buy.confidence)
           target == Target(allocation, multiplier)
           amount == BuyAmount(buy.explicit, target, cash)
           seen == IF multiplier = PlainMultiplier THEN began ELSE entries[k].seen
<1>1. /\ buy.explicit \in BOOLEAN /\ buy.pct \in Nat /\ buy.conviction \in Convictions
      /\ buy.confidence \in 0..99 /\ cash \in Nat
  BY WatchlistAssumption
<1>2. amount > 0
  BY DEF SizeBuy
<1>3. PICK cents \in Nearest(amount, Cent) :
        \E sent \in LimitBuys(cents, ask) :
          order' = [key |-> k, buy |-> buy, cash |-> cash, boost |-> multiplier, seen |-> seen,
                    cents |-> cents, ask |-> ask, quantity |-> sent.quantity, limit |-> sent.limit]
  BY DEF SizeBuy
<1>3a. PICK sent \in LimitBuys(cents, ask) :
         order' = [key |-> k, buy |-> buy, cash |-> cash, boost |-> multiplier, seen |-> seen,
                   cents |-> cents, ask |-> ask, quantity |-> sent.quantity, limit |-> sent.limit]
  BY <1>3
<1>4. allocation \in Nat
  BY <1>1, AllocationIsNat
<1>5. /\ multiplier \in Nat
      /\ buy.explicit => multiplier = PlainMultiplier
      /\ multiplier # PlainMultiplier => entries[k] # NoEntry
  <2>1. multiplier # PlainMultiplier => entries[k] # NoEntry
    BY DEF Multiplier
  <2>2. QED
    BY <2>1, MultiplierBounds
<1>6. buy.explicit => allocation = 49 * buy.pct
  BY DEF Allocation
<1> HIDE DEF multiplier, allocation
<1>7. target = Sleeve * allocation * multiplier
  BY DEF Target
<1>8. Sleeve * allocation \in Nat
  BY <1>4, Numbers, Products
<1>9. target \in Nat
  BY <1>5, <1>7, <1>8, Products
<1>10. buy.explicit => target = buy.pct * Percent
  BY <1>1, <1>5, <1>6, <1>7, Numbers DEF PlainMultiplier, Percent
<1> HIDE DEF target
<1>11. /\ amount \in Nat \ {0}
       /\ amount + (IF buy.explicit THEN 0 ELSE BufferPct * Percent) <= cash
       /\ buy.explicit => amount \in {target, cash}
  BY <1>1, <1>2, <1>9, AmountBounds
<1>12. /\ seen \in 0..MaxDay
       /\ seen = began \/ (entries[k] # NoEntry /\ seen = entries[k].seen)
  BY <1>5, Numbers DEF TypeOK
<1> HIDE DEF amount, seen
<1>13. cents \in Nat /\ 2 * (cents * Cent - amount) <= Cent
  BY <1>3, <1>11, NearestOff DEF Cent
<1>14. cents * Cent + (IF buy.explicit THEN 0 ELSE BufferPct * Percent) <= cash + Cent \div 2
  <2> DEFINE kept == IF buy.explicit THEN 0 ELSE BufferPct * Percent
  <2>1. kept \in Nat
    BY PercentIsNat
  <2>2. amount + kept <= cash
    BY <1>11
  <2> HIDE DEF kept
  <2>3. cents * Cent + kept <= cash + Cent \div 2
    BY <1>1, <1>11, <1>13, <2>1, <2>2 DEF Cent
  <2>4. QED
    BY <2>3 DEF kept
<1>15. /\ sent.quantity \in Nat /\ sent.limit \in Nat
       /\ 2 * (sent.quantity * sent.limit - cents * Points * Parts)
            <= ask.price + sent.quantity * ask.tick
  BY <1>13, LimitBuyOff
<1>16. buy.explicit => cents \in Nearest(buy.pct * Percent, Cent) \cup Nearest(cash, Cent)
  BY <1>10, <1>11
<1>17. order' \in Orders
  BY <1>3a, <1>5, <1>12, <1>13, <1>15 DEF Orders
<1>18. QED
  BY <1>3a, <1>12, <1>14, <1>15, <1>16, <1>17 DEF multiplier

-----------------------------------------------------------------------------
\* One step per action.
LEMMA TypeStep == TypeOK /\ [Next]_vars => TypeOK'
<1> SUFFICES ASSUME TypeOK, [Next]_vars
             PROVE  TypeOK'
  OBVIOUS
<1> USE Numbers
<1>1. CASE BeginBatch
  BY <1>1 DEF TypeOK, BeginBatch, NoEntry, Orders
<1>2. CASE EndBatch
  BY <1>2 DEF TypeOK, EndBatch, tables, bounds
<1>3. CASE RecordTrade
  <2>1. order \in Orders
    BY <1>3 DEF RecordTrade, TypeOK
  <2>2. order.key \in Keys
    BY <2>1 DEF Orders
  <2>3. QED
    BY <1>3, <2>1, <2>2 DEF TypeOK, RecordTrade, bounds
<1>4. CASE Register
  <2>1. order \in Orders
    BY <1>4 DEF Register, TypeOK
  <2>2. order.key \in Keys
    BY <2>1 DEF Orders
  <2>3. QED
    BY <1>4, <2>2 DEF TypeOK, Register, bounds
<1>5. CASE Crash
  BY <1>5 DEF TypeOK, Crash, tables
<1>6. CASE Restart
  BY <1>6 DEF TypeOK, Restart, tables, bounds
<1>7. CASE NextDay
  <2>1. entries' \in [Keys -> [score : 1..MaxScore, seen : 0..day', tier : Tiers] \cup {NoEntry}]
    BY <1>7 DEF TypeOK, NextDay, tables
  <2>2. QED
    BY <1>7, <2>1 DEF TypeOK, NextDay, tables, call, bounds
<1>8. ASSUME NEW k \in Keys, NEW tier \in Watched, RecordWatch(k, tier)
      PROVE  TypeOK'
  <2>1. tier \in Tiers /\ ScoreDelta[tier] \in 1..8
    BY WatchlistAssumption DEF Tiers, ScoreDelta, TierMultiplier
  <2>2. entries[k].score \in Nat
    BY DEF TypeOK, NoEntry
  <2>3. LesserOf(MaxScore, entries[k].score + ScoreDelta[tier]) \in 1..MaxScore
    BY <2>1, <2>2 DEF LesserOf
  <2>4. Upsert(entries[k], tier) \in [score : 1..MaxScore, seen : 0..day, tier : Tiers]
    BY <2>1, <2>3 DEF Upsert, TypeOK
  <2>5. QED
    BY <1>8, <2>4 DEF TypeOK, RecordWatch, call
<1>9. ASSUME NEW k \in Keys, NEW buy \in Buys, NEW cash \in Cash, NEW ask \in Asks,
             SizeBuy(k, buy, cash, ask)
      PROVE  TypeOK'
  <2>1. order' \in Orders
    BY <1>9, OrderFacts
  <2>2. QED
    BY <1>9, <2>1 DEF TypeOK, SizeBuy, tables, bounds
<1>10. CASE UNCHANGED vars
  BY <1>10 DEF TypeOK, vars
<1>11. CASE CallFails
  BY <1>11 DEF TypeOK, CallFails, tables
<1>12. QED
  BY <1>1, <1>2, <1>3, <1>4, <1>5, <1>6, <1>7, <1>8, <1>9, <1>10, <1>11 DEF Next

\* Every table, order and counter keeps its type; scores stay between one quarter and their cap.
THEOREM WatchTypes == Spec => []TypeOK
<1>1. Init => TypeOK
  BY Numbers DEF Init, TypeOK, NoEntry
<1>2. QED
  BY <1>1, TypeStep, PTL DEF Spec

-----------------------------------------------------------------------------
\* An order changes only when it is sized or dropped.
LEMMA OrderChanges ==
  ASSUME TypeOK, [Next]_vars
  PROVE  \/ order' = order
         \/ order' = NoOrder
         \/ \E k \in Keys, buy \in Buys, cash \in Cash, ask \in Asks : SizeBuy(k, buy, cash, ask)
BY DEF Next, BeginBatch, EndBatch, RecordTrade, Register, CallFails, Crash, Restart, NextDay, RecordWatch,
       vars, call

SizedWell == WithinCash /\ InterestBounded

\* A buy stays within the cash and its buffer but for what is rounded, a stated allocation is exact
\* to the cent, and interest adds at most 43 percent.
THEOREM SizingProved == Spec => [](WithinCash /\ InterestBounded)
<1>1. Init => SizedWell
  BY DEF Init, SizedWell, WithinCash, InterestBounded
<1>2. TypeOK /\ SizedWell /\ [Next]_vars => SizedWell'
  <2> SUFFICES ASSUME TypeOK, SizedWell, [Next]_vars
               PROVE  SizedWell'
    OBVIOUS
  <2>1. CASE order' = order
    BY <2>1 DEF SizedWell, WithinCash, InterestBounded
  <2>2. CASE order' = NoOrder
    BY <2>2 DEF SizedWell, WithinCash, InterestBounded
  <2>3. ASSUME NEW k \in Keys, NEW buy \in Buys, NEW cash \in Cash, NEW ask \in Asks,
               SizeBuy(k, buy, cash, ask)
        PROVE  SizedWell'
    <3>1. /\ order'.buy = buy /\ order'.cash = cash /\ order'.boost = Multiplier(k, buy)
          /\ order'.ask = ask
          /\ order'.cents * Cent + (IF buy.explicit THEN 0 ELSE BufferPct * Percent)
               <= cash + Cent \div 2
          /\ 2 * (order'.quantity * order'.limit - order'.cents * Points * Parts)
               <= ask.price + order'.quantity * ask.tick
          /\ buy.explicit =>
               order'.cents \in Nearest(buy.pct * Percent, Cent) \cup Nearest(cash, Cent)
      BY <2>3, OrderFacts
    <3>2. 100 * order'.boost <= 143 * PlainMultiplier
      BY <3>1, MultiplierBounds
    <3>3. WithinCash'
      BY <3>1 DEF WithinCash
    <3>4. InterestBounded'
      BY <3>1, <3>2 DEF InterestBounded
    <3>5. QED
      BY <3>3, <3>4 DEF SizedWell
  <2>4. QED
    BY <2>1, <2>2, <2>3, OrderChanges
<1>3. QED
  BY <1>1, <1>2, WatchTypes, PTL DEF Spec, SizedWell

-----------------------------------------------------------------------------
\* What is in the watchlist while a batch is handled was fresh when it began.
FreshInv ==
  /\ FreshInterest
  /\ pc \in {"batch", "ordered", "recorded"} /\ StaleDays > 0 =>
       \A k \in Keys : entries[k] # NoEntry => entries[k].seen >= began - StaleDays

\* Interest that weights an order was fresh when its batch began.
THEOREM FreshProved == Spec => []FreshInterest
<1> USE Numbers
<1>1. Init => FreshInv
  BY DEF Init, FreshInv, FreshInterest
<1>2. TypeOK /\ FreshInv /\ [Next]_vars => FreshInv'
  <2> SUFFICES ASSUME TypeOK, FreshInv, [Next]_vars
               PROVE  FreshInv'
    OBVIOUS
  <2>1. CASE BeginBatch
    BY <2>1 DEF BeginBatch, FreshInv, FreshInterest, Stale, TypeOK
  <2>2. CASE \/ EndBatch \/ RecordTrade \/ Register \/ CallFails \/ Crash \/ Restart \/ NextDay
             \/ UNCHANGED vars
    BY <2>2 DEF EndBatch, RecordTrade, Register, CallFails, Crash, Restart, NextDay, vars, FreshInv,
                FreshInterest, tables, call, bounds
  <2>3. ASSUME NEW k \in Keys, NEW tier \in Watched, RecordWatch(k, tier)
        PROVE  FreshInv'
    <3>1. day >= began - StaleDays
      BY DEF TypeOK
    <3>2. QED
      BY <2>3, <3>1 DEF RecordWatch, Upsert, FreshInv, FreshInterest, TypeOK, call
  <2>4. ASSUME NEW k \in Keys, NEW buy \in Buys, NEW cash \in Cash, NEW ask \in Asks,
               SizeBuy(k, buy, cash, ask)
        PROVE  FreshInv'
    <3>1. order'.seen = began \/ (entries[k] # NoEntry /\ order'.seen = entries[k].seen)
      BY <2>4, OrderFacts
    <3>2. began' = began /\ entries' = entries /\ pc = "batch"
      BY <2>4 DEF SizeBuy, tables
    <3>3. began >= began - StaleDays
      BY DEF TypeOK
    <3>4. QED
      BY <3>1, <3>2, <3>3 DEF FreshInv, FreshInterest
  <2>5. QED
    BY <2>1, <2>2, <2>3, <2>4 DEF Next
<1>3. FreshInv => FreshInterest
  BY DEF FreshInv
<1>4. QED
  BY <1>1, <1>2, <1>3, WatchTypes, PTL DEF Spec

-----------------------------------------------------------------------------
\* Interest in a ticker falls only by being forgotten as stale.
THEOREM InterestProved == Spec => InterestKept
<1> USE Numbers
<1>1. TypeOK /\ [Next]_vars =>
        [\A k \in Keys : entries'[k].score < entries[k].score =>
           entries'[k] = NoEntry /\ Stale(entries[k])]_vars
  <2> SUFFICES ASSUME TypeOK, Next, NEW k \in Keys, entries'[k].score < entries[k].score
               PROVE  entries'[k] = NoEntry /\ Stale(entries[k])
    OBVIOUS
  <2>1. entries[k].score \in 0..MaxScore
    BY DEF TypeOK, NoEntry
  <2>2. CASE BeginBatch
    BY <2>1, <2>2 DEF BeginBatch
  <2>3. ASSUME NEW j \in Keys, NEW tier \in Watched, RecordWatch(j, tier)
        PROVE  FALSE
    <3>1. ScoreDelta[tier] \in 1..8
      BY WatchlistAssumption DEF ScoreDelta, TierMultiplier
    <3>2. LesserOf(MaxScore, entries[k].score + ScoreDelta[tier]) >= entries[k].score
      BY <2>1, <3>1 DEF LesserOf
    <3>3. entries'[k] = IF k = j THEN Upsert(entries[k], tier) ELSE entries[k]
      BY <2>3 DEF RecordWatch, TypeOK
    <3>4. entries'[k].score >= entries[k].score
      BY <2>1, <3>2, <3>3 DEF Upsert
    <3>5. entries'[k].score \in Int
      BY <2>1, <3>1, <3>3 DEF Upsert, LesserOf
    <3>6. QED
      BY <2>1, <3>4, <3>5
  <2>4. CASE entries' = entries
    BY <2>1, <2>4
  <2>5. QED
    BY <2>2, <2>3, <2>4 DEF Next, EndBatch, RecordTrade, Register, CallFails, Crash, Restart,
                            NextDay, SizeBuy, tables
<1>2. QED
  BY <1>1, WatchTypes, PTL DEF Spec, InterestKept

-----------------------------------------------------------------------------
\* Trades whose ticker is not recognized, but for the one being registered.
Missing == traded \ (recognized \cup (IF pc = "recorded" THEN {order.key} ELSE {}))

MissingInv == IsFiniteSet(traded) /\ Cardinality(Missing) <= crashes + failures

\* Fewer trades are missing when none is added.
LEMMA FewerMissing ==
  ASSUME TypeOK, MissingInv, IsFiniteSet(traded'), Missing' \subseteq Missing,
         crashes' = crashes, failures' = failures
  PROVE  MissingInv'
<1>1. IsFiniteSet(Missing)
  BY FS_Difference DEF MissingInv, Missing
<1>2. Cardinality(Missing') <= Cardinality(Missing) /\ Cardinality(Missing) \in Nat
      /\ Cardinality(Missing') \in Nat
  BY <1>1, FS_Subset, FS_CardinalityType
<1>3. crashes \in Nat /\ failures \in Nat
  BY Numbers DEF TypeOK
<1>4. QED
  BY <1>2, <1>3 DEF MissingInv

\* A ticker whose trade is on record is recognized, but for one per crash or exception.
THEOREM RecognizedProved == Spec => []TradedIsRecognized
<1>1. Init => MissingInv
  <2> SUFFICES ASSUME Init
               PROVE  MissingInv
    OBVIOUS
  <2>1. traded = {} /\ Missing = {} /\ crashes = 0 /\ failures = 0
    BY DEF Init, Missing
  <2>2. QED
    BY <2>1, FS_EmptySet DEF MissingInv
<1>2. TypeOK /\ MissingInv /\ [Next]_vars => MissingInv'
  <2> SUFFICES ASSUME TypeOK, MissingInv, [Next]_vars
               PROVE  MissingInv'
    OBVIOUS
  <2>1. CASE RecordTrade
    <3>1. IsFiniteSet(traded')
      BY <2>1, FS_AddElement DEF RecordTrade, MissingInv
    <3>2. Missing' \subseteq Missing
      BY <2>1 DEF RecordTrade, Missing
    <3>3. QED
      BY <2>1, <3>1, <3>2, FewerMissing DEF RecordTrade, bounds
  <2>2. CASE Register
    <3>1. Missing' \subseteq Missing
      BY <2>2 DEF Register, Missing
    <3>2. QED
      BY <2>2, <3>1, FewerMissing DEF Register, bounds, MissingInv
  <2>3. CASE Crash \/ CallFails
    <3>1. Missing' \subseteq Missing \cup {order.key}
      BY <2>3 DEF Crash, CallFails, Missing, tables
    <3>2. IsFiniteSet(Missing)
      BY FS_Difference DEF MissingInv, Missing
    <3>3. /\ IsFiniteSet(Missing \cup {order.key}) /\ Cardinality(Missing) \in Nat
          /\ Cardinality(Missing \cup {order.key}) <= Cardinality(Missing) + 1
      BY <3>2, FS_AddElement, FS_CardinalityType
    <3>4. /\ Cardinality(Missing') <= Cardinality(Missing \cup {order.key})
          /\ Cardinality(Missing') \in Nat /\ Cardinality(Missing \cup {order.key}) \in Nat
      BY <3>1, <3>3, FS_Subset, FS_CardinalityType
    <3>5. /\ crashes \in Nat /\ failures \in Nat /\ traded' = traded
          /\ crashes' + failures' = crashes + failures + 1
      BY <2>3, Numbers DEF Crash, CallFails, TypeOK, tables
    <3>6. QED
      BY <3>3, <3>4, <3>5 DEF MissingInv
  <2>4. CASE \/ BeginBatch \/ EndBatch \/ Restart \/ NextDay \/ UNCHANGED vars
             \/ \E k \in Keys : \/ \E tier \in Watched : RecordWatch(k, tier)
                              \/ \E buy \in Buys, cash \in Cash, ask \in Asks :
                                   SizeBuy(k, buy, cash, ask)
    <3>1. /\ traded' = traded /\ Missing' = Missing
          /\ crashes' = crashes /\ failures' = failures
      BY <2>4 DEF BeginBatch, EndBatch, Restart, NextDay, RecordWatch, SizeBuy, vars, tables,
                  call, bounds, Missing
    <3>2. QED
      BY <3>1 DEF MissingInv
  <2>5. QED
    BY <2>1, <2>2, <2>3, <2>4 DEF Next
<1>3. MissingInv => TradedIsRecognized
  BY DEF MissingInv, Missing, TradedIsRecognized
<1>4. QED
  BY <1>1, <1>2, <1>3, WatchTypes, PTL DEF Spec
=============================================================================
