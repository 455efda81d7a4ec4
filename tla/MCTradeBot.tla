----------------------------- MODULE MCTradeBot -----------------------------
(***************************************************************************)
(* Instances of TradeBot for TLC.                                          *)
(***************************************************************************)
EXTENDS TradeBot

B(tk) == [ticker |-> tk, action |-> "BUY"]
S(tk) == [ticker |-> tk, action |-> "SELL"]
W(tk) == [ticker |-> tk, action |-> "WATCH"]
I(tk) == [ticker |-> tk, action |-> "IGNORE"]

\* Two tweets buy the same ticker.
MCTwoBuys == <<<<B("A")>>, <<B("A")>>>>
\* A buy, then a sell with a foreign symbol and an ignored one, then a buy and a
\* watched ticker.
MCThree   == <<<<B("A")>>, <<S("A"), B("N"), I("X")>>, <<B("A"), W("C")>>>>

\* Days of three clock units, or one day.
MCDay     == [t \in Time |-> t \div 3]
MCOneDay  == [t \in Time |-> 0]

\* The market open always, or closed at the end.
MCAllDay  == Time
MCEarly   == {t \in Time : t < 4}
=============================================================================
