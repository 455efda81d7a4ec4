----------------------------- MODULE BuySizing -----------------------------
(***************************************************************************)
(* What a buy may cost: portfolio_sizing, the watch multiplier, and the    *)
(* limit order that is sent for it.                                        *)
(*                                                                         *)
(* Money is counted in the smallest share of a dollar the factors produce: *)
(* an allocation is a number of 49ths of a percent (confidences are        *)
(* interpolated over 49 points), a multiplier a number of 4000ths          *)
(* (twentieths of a tier times two hundredths of history), a conviction    *)
(* score a number of quarters.  What the code rounds is rounded here too:  *)
(* the amount to a cent, the quantity, the limit price.                    *)
(***************************************************************************)
EXTENDS Integers

CONSTANTS Sleeve,           \* the notional that percentages refer to, in dollars
          DefaultPct, StandardMax, ReloadMax, ThesisMin, ThesisMax,
          BufferPct, MinDollars, MinPct,
          Parts,            \* of a share that an order may be for: a million in the code
          Points            \* of a cent that prices are counted in

Convictions == {"standard", "reload", "thesis"}

ASSUME SleeveAssumption ==
  /\ {Sleeve, DefaultPct, StandardMax, ReloadMax, ThesisMin, ThesisMax, BufferPct, MinDollars, MinPct}
       \subseteq Nat
  /\ {Parts, Points} \subseteq Nat \ {0}

Cent == 49 * 4000
Dollar == 100 * Cent
Percent == 49 * 4000 * Sleeve       \* one percent of the sleeve

LesserOf(a, b) == IF a <= b THEN a ELSE b
GreaterOf(a, b) == IF a >= b THEN a ELSE b

\* Twentieths: 1.05, 1.10, 1.15, 1.30.
TierMultiplier == [soft |-> 21, start |-> 22, standard |-> 23, heavy |-> 26]
PlainMultiplier == 20 * 200

\* Two percent per point of score, ten at most.
WatchMultiplier(tier, score) == TierMultiplier[tier] * (200 + LesserOf(score, 20))

\* The confidence in percent, from 0 at 50 to 49 at 99.
Interpolated(confidence) == GreaterOf(0, LesserOf(49, confidence - 50))

Bounds(conviction) ==
  [standard |-> <<DefaultPct, StandardMax>>,
   reload   |-> <<DefaultPct, ReloadMax>>,
   thesis   |-> <<ThesisMin, ThesisMax>>][conviction]

\* 49ths of a percent: exactly what the tweet states, or the conviction's share by confidence.
Allocation(explicit, pct, conviction, confidence) ==
  LET low == Bounds(conviction)[1]
      high == Bounds(conviction)[2]
  IN  IF explicit THEN 49 * pct
      ELSE IF high <= low THEN 49 * low
      ELSE 49 * low + Interpolated(confidence) * (high - low)

Target(allocation, multiplier) == Sleeve * allocation * multiplier

Spendable(explicit, cash) ==
  GreaterOf(0, cash - (IF explicit THEN 0 ELSE BufferPct * Percent))

FloorAmount == GreaterOf(MinDollars * Dollar, MinPct * Percent)

\* Mutant: the buffer is kept out of the comparison with the cash.
BuyAmountPastBuffer(explicit, target, cash) ==
  LET amount == LesserOf(target, cash)
  IN  IF amount >= FloorAmount THEN amount ELSE 0

\* What is compared with the minimum, before it is rounded; 0 when it is not worth an order.
BuyAmount(explicit, target, cash) ==
  LET amount == LesserOf(target, Spendable(explicit, cash))
  IN  IF amount >= FloorAmount THEN amount ELSE 0

\* x in units, rounded to the nearest; half-way between two the floats of the code decide.
Nearest(x, unit) ==
  {n \in {x \div unit, x \div unit + 1} : 2 * (n * unit - x) \in (-unit)..unit}

\* The orders that may be sent at an ask, whose limit has a tick, for so many cents: the quantity
\* and the limit price are rounded each for itself.
LimitBuys(cents, ask) ==
  {[quantity |-> q, limit |-> ticks * ask.tick] :
     q \in Nearest(cents * Points * Parts, ask.price), ticks \in Nearest(ask.price, ask.tick)}
=============================================================================
