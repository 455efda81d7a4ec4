----------------------------- MODULE SellSizing -----------------------------
(***************************************************************************)
(* How large a sell order is.  Quantities are whole numbers of the         *)
(* millionth share that _round_quantity rounds down to, prices and         *)
(* amounts are in the matching unit, and a fraction is a pair of naturals. *)
(***************************************************************************)
EXTENDS Integers

CONSTANTS
  Sleeve,      \* resolved_ck_portfolio_usd, what percentages are of
  CapPct,      \* max_sell_notional_pct
  MinSell      \* min_sell_notional_usd

ASSUME SizingAssumption ==
  Sleeve \in Nat \ {0} /\ CapPct \in Nat /\ MinSell \in Nat

Whole    == [num |-> 1, den |-> 1]
NoSell   == 0   \* no order can be sized
Least(a, b) == IF a < b THEN a ELSE b

\* The fallback cap on a sell, in amounts.
Cap == IF MinSell * 100 > Sleeve * CapPct THEN MinSell ELSE (Sleeve * CapPct) \div 100

\* Mutant: the weight that stays, not the one that goes.
KeptFraction(value, pct) ==
  IF value * 100 <= pct * Sleeve THEN [num |-> 0, den |-> 1]
  ELSE [num |-> pct * Sleeve, den |-> 100 * value]

\* The part of a position to sell to bring its weight down to pct percent of
\* the sleeve; zero when it is there already.
FractionToTarget(value, pct) ==
  IF value * 100 <= pct * Sleeve THEN [num |-> 0, den |-> 1]
  ELSE [num |-> 100 * value - pct * Sleeve, den |-> 100 * value]

\* Nobody sells more than all.
Clamped(f) == IF f.num > f.den THEN Whole ELSE f

\* resolve_sell_order: a trim respects the cap, a full exit (from 0.999 on)
\* does not; what is below the minimum is not sold.
SellQuantity(held, price, f, cap) ==
  LET part   == Clamped(f)
      wanted == (held * part.num) \div part.den
      trim   == 1000 * part.num < 999 * part.den
      amount == IF trim THEN Least(wanted * price, cap) ELSE wanted * price
      qty    == IF trim THEN Least(wanted, amount \div price) ELSE wanted
  IN  IF amount < MinSell THEN NoSell ELSE qty
=============================================================================
