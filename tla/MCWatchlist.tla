---------------------------- MODULE MCWatchlist ----------------------------
(***************************************************************************)
(* Two managers, one ticker; a sleeve of 100 dollars, cash of all of it or *)
(* of a part that is not in whole cents, buys of either kind at both ends  *)
(* of their confidence, an ask half-way between two cents and one above.   *)
(***************************************************************************)
EXTENDS Watchlist

MCBuys ==
  {[explicit |-> TRUE, pct |-> 4, conviction |-> "standard", confidence |-> 74],
   [explicit |-> FALSE, pct |-> 0, conviction |-> "reload", confidence |-> 50],
   [explicit |-> FALSE, pct |-> 0, conviction |-> "thesis", confidence |-> 99]}

MCCash == {5 * Dollar + (7 * Cent) \div 10, 100 * Dollar}

\* In tenths of a cent: 1.005 and 70.03 dollars.
MCAsks == {[price |-> 1005, tick |-> 10], [price |-> 70030, tick |-> 10]}
=============================================================================
