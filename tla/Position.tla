------------------------------ MODULE Position ------------------------------
(***************************************************************************)
(* One ticker in one account, from the signal to the ledger: a sell is     *)
(* sized by the risk gate from the position, sized again from a position   *)
(* fetched later, and placed; the broker fills, cancels or rejects orders  *)
(* in its own time; the rows of the trades table learn about it only from  *)
(* refreshes (one by the worker after it placed the order, others by API   *)
(* requests), which overlap; and the ledger adds up the rows.              *)
(*                                                                         *)
(* A refresh loads the row, awaits the broker, and writes the fields it    *)
(* changed: the ORM leaves alone what still has the value it loaded.       *)
(***************************************************************************)
EXTENDS SellSizing, Sequences, FiniteSets

CONSTANTS
  MaxOrders,   \* bound on the orders
  MaxShares,   \* bound on the shares of one buy
  MaxRefresh,  \* bound on the refreshes of the API
  Prices,
  Fractions,   \* the fractions tweets and fallbacks name
  Targets,     \* the target weights tweets name, in percent
  Requests     \* concurrent refresh requests of the API

Refreshers == Requests \cup {"worker"}
OrderIds   == 1..MaxOrders
Live       == {"open", "pending_cancelled"}
Terminal   == {"filled", "cancelled", "rejected"}
NoTarget   == -1
NoSignal   == [f |-> Whole, target |-> NoTarget, explicit |-> FALSE]

ASSUME PositionAssumption ==
  /\ MaxOrders \in Nat /\ MaxShares \in Nat /\ MaxRefresh \in Nat
  /\ Prices \subseteq Nat \ {0} /\ Prices # {}
  /\ Fractions \subseteq [num : Nat, den : Nat \ {0}]
  /\ Targets \subseteq 0..100 /\ "worker" \notin Requests

VARIABLES
  price, shares,   \* the market and the account, as the broker has them
  free,            \* the shares that no open sell is to take
  orders,          \* the broker's orders: side, qty, filled, state
  rows,            \* the trades table, a row for each order
  pc,              \* the worker: idle, resizing, ready, placed
  signal,          \* the sell it works on
  qty,             \* what it is about to sell
  basis,           \* history: position and price the gate and the order saw
  ref,             \* each refresher's row, snapshot, answer
  refreshes

workVars == <<pc, signal, qty, basis>>
vars == <<price, shares, free, orders, rows, workVars, ref, refreshes>>

NoBasis == [held |-> 0, price |-> 0, same |-> FALSE]
NoRef   == [pc |-> "idle", row |-> 0, loaded |-> <<>>, answer |-> "none"]

Init ==
  /\ price \in Prices /\ shares = 0 /\ free = 0
  /\ orders = <<>> /\ rows = <<>>
  /\ pc = "idle" /\ signal = NoSignal /\ qty = 0 /\ basis = NoBasis
  /\ ref = [r \in Refreshers |-> NoRef] /\ refreshes = 0

-----------------------------------------------------------------------------
(***************************************************************************)
(* Placing orders.                                                         *)
(***************************************************************************)

\* "Not enough shares to sell" otherwise: shares are promised to one sell only.
Accepts(side, n) == side = "SELL" => n <= free

\* The broker has the order, and the worker commits a row with what the broker
\* answered: the order is open, or refused already, or filled already.  Only an
\* open one is refreshed.
Placed(side, n, s) ==
  /\ s # "rejected" => Accepts(side, n)
  /\ free' = IF side = "SELL" /\ s # "rejected" THEN free - n
             ELSE IF side = "BUY" /\ s = "filled" THEN free + n ELSE free
  /\ shares' = IF s # "filled" THEN shares
               ELSE IF side = "BUY" THEN shares + n ELSE shares - n
  /\ orders' = Append(orders, [side |-> side, qty |-> n,
                               filled |-> IF s = "filled" THEN n ELSE 0, state |-> s])
  /\ rows' = Append(rows, [side |-> side, qty |-> n, status |-> s, fill |-> s = "filled"])
  /\ pc' = IF s = "open" THEN "placed" ELSE "idle"

Place(side, n) ==
  /\ Len(orders) < MaxOrders
  /\ \E s \in {"open", "rejected", "filled"} : Placed(side, n, s)
  /\ UNCHANGED <<price, ref, refreshes>>

Buy ==
  /\ pc = "idle"
  /\ \E n \in 1..MaxShares : Place("BUY", n)
  /\ UNCHANGED <<signal, qty, basis>>

\* The gate: explicit sizes are capped by the position only, others by Cap.
EvaluateSell(s, f) ==
  LET cap == IF s.explicit THEN shares * price ELSE Cap
  IN  /\ pc = "idle" /\ shares > 0 /\ f.num > 0
      /\ SellQuantity(shares, price, f, cap) # NoSell
      /\ signal' = [s EXCEPT !.f = f]
      /\ basis' = [held |-> shares, price |-> price, same |-> TRUE]
      /\ pc' = "resizing"
      /\ UNCHANGED <<price, shares, free, orders, rows, qty, ref, refreshes>>

EvaluateFraction ==
  \E f \in Fractions, e \in BOOLEAN :
    EvaluateSell([f |-> f, target |-> NoTarget, explicit |-> e], f)

EvaluateTarget ==
  \E t \in Targets :
    EvaluateSell([f |-> Whole, target |-> t, explicit |-> TRUE],
                 FractionToTarget(shares * price, t))

\* Mutant: a position too small to sell anything of is not an error.
ResizeAlways ==
  /\ pc = "resizing" /\ pc' = "ready"
  /\ qty' = SellQuantity(shares, price, signal.f, Cap)
  /\ basis' = [held |-> shares, price |-> price,
               same |-> basis.held = shares /\ basis.price = price]
  /\ UNCHANGED <<price, shares, free, orders, rows, signal, ref, refreshes>>

\* The position is fetched again and the gate's fraction applied to it; if
\* nothing can be sold, the row says "failed" and no order is placed.
Resize ==
  LET n == SellQuantity(shares, price, signal.f, Cap)
  IN  /\ pc = "resizing"
      /\ IF shares = 0 \/ n = NoSell
         THEN pc' = "idle" /\ signal' = NoSignal /\ basis' = NoBasis /\ qty' = 0
         ELSE /\ pc' = "ready" /\ qty' = n /\ UNCHANGED signal
              /\ basis' = [held |-> shares, price |-> price,
                           same |-> basis.held = shares /\ basis.price = price]
      /\ UNCHANGED <<price, shares, free, orders, rows, ref, refreshes>>

Sell ==
  /\ pc = "ready" /\ Place("SELL", qty)
  /\ signal' = NoSignal /\ basis' = NoBasis /\ qty' = 0

-----------------------------------------------------------------------------
(***************************************************************************)
(* The broker, and the owner of the account who cancels orders in its app. *)
(***************************************************************************)
Fill(i) ==
  LET o == orders[i]
  IN  /\ o.state \in Live
      /\ shares' = IF o.side = "BUY" THEN shares + 1 ELSE shares - 1
      /\ free' = IF o.side = "BUY" THEN free + 1 ELSE free
      /\ orders' = [orders EXCEPT ![i].filled = @ + 1,
                                  ![i].state = IF o.filled + 1 = o.qty THEN "filled" ELSE @]
      /\ UNCHANGED <<price, rows, workVars, ref, refreshes>>

\* What is left of a sell that is over is free again.
Change(i, from, to) ==
  LET o == orders[i]
  IN  /\ o.state = from
      /\ orders' = [orders EXCEPT ![i].state = to]
      /\ free' = IF o.side = "SELL" /\ to \in Terminal THEN free + o.qty - o.filled ELSE free
      /\ UNCHANGED <<price, shares, rows, workVars, ref, refreshes>>

AskToCancel(i) == Change(i, "open", "pending_cancelled")
Cancelled(i)   == Change(i, "pending_cancelled", "cancelled")
Rejected(i)    == orders[i].filled = 0 /\ Change(i, "open", "rejected")

PriceMoves ==
  /\ price' \in Prices \ {price}
  /\ UNCHANGED <<shares, free, orders, rows, workVars, ref, refreshes>>

-----------------------------------------------------------------------------
(***************************************************************************)
(* TradeStatusSync.refresh and its callers.                                *)
(***************************************************************************)

\* Mutant: an order that is being cancelled counts as cancelled.
MapStateEarly(s) == IF s = "pending_cancelled" THEN "cancelled" ELSE s

\* queued, confirmed, partially_filled ... are one state here, and map to
\* "open"; a state the code does not know passes unchanged.
MapState(s) == s

\* The worker refreshes the order it just placed; then it goes on.
Load(r, i) ==
  /\ ref[r].pc = "idle"
  /\ IF r = "worker" THEN pc = "placed" /\ i = Len(rows) /\ UNCHANGED refreshes
     ELSE refreshes < MaxRefresh /\ refreshes' = refreshes + 1
  /\ ref' = [ref EXCEPT ![r] = [NoRef EXCEPT !.pc = "asking", !.row = i, !.loaded = rows[i]]]
  /\ UNCHANGED <<price, shares, free, orders, rows, workVars>>

RefreshEnds(r) ==
  /\ ref' = [ref EXCEPT ![r] = NoRef]
  /\ pc' = IF r = "worker" THEN "idle" ELSE pc
  /\ UNCHANGED <<price, shares, free, orders, signal, qty, basis, refreshes>>

\* No answer leaves the row as it is.
NoAnswer(r) == ref[r].pc = "asking" /\ RefreshEnds(r) /\ UNCHANGED rows

Answer(r) ==
  /\ ref[r].pc = "asking"
  /\ ref' = [ref EXCEPT ![r].pc = "answered", ![r].answer = orders[ref[r].row].state]
  /\ UNCHANGED <<price, shares, free, orders, rows, workVars, refreshes>>

Refreshed(row, state) ==
  [row EXCEPT !.status = MapState(state), !.fill = @ \/ MapState(state) = "filled"]

\* Mutant: the whole row is written.
ApplyWhole(r) ==
  /\ ref[r].pc = "answered"
  /\ rows' = [rows EXCEPT ![ref[r].row] = Refreshed(ref[r].loaded, ref[r].answer)]
  /\ RefreshEnds(r)

Apply(r) ==
  LET i == ref[r].row  old == ref[r].loaded  new == Refreshed(old, ref[r].answer)
  IN  /\ ref[r].pc = "answered"
      /\ rows' = [rows EXCEPT ![i].status = IF new.status # old.status THEN new.status ELSE @,
                              ![i].fill = IF new.fill # old.fill THEN new.fill ELSE @]
      /\ RefreshEnds(r)

-----------------------------------------------------------------------------
(***************************************************************************)
(* The ledger: what build_portfolio_ledger makes of the rows.              *)
(***************************************************************************)

\* Mutant: every row counts.
CountsAlways(row) == TRUE

Counts(row) == row.status \in {"filled", "simulated", "submitted", "open"}

SharesHeld[n \in Nat] ==
  IF n = 0 THEN 0
  ELSE LET row == rows[n]  before == SharesHeld[n - 1]
       IN  IF ~Counts(row) THEN before
           ELSE IF row.side = "BUY" THEN before + row.qty
                ELSE before - Least(row.qty, before)

-----------------------------------------------------------------------------
Worker  == Buy \/ EvaluateFraction \/ EvaluateTarget \/ Resize \/ Sell
Broker  == \/ PriceMoves
           \/ \E i \in DOMAIN orders : Fill(i) \/ AskToCancel(i) \/ Cancelled(i) \/ Rejected(i)
Refresh == \E r \in Refreshers : \/ NoAnswer(r) \/ Answer(r) \/ Apply(r)
                                 \/ \E i \in DOMAIN rows : Load(r, i)

Next == Worker \/ Broker \/ Refresh
Spec == Init /\ [][Next]_vars

-----------------------------------------------------------------------------
(***************************************************************************)
(* Properties.                                                             *)
(***************************************************************************)
Sides == {"BUY", "SELL"}
Order == [side : Sides, qty : Nat, filled : Nat, state : Live \cup Terminal]
Row   == [side : Sides, qty : Nat, status : Live \cup Terminal, fill : BOOLEAN]

\* Every variable has its type; an order is never filled beyond its size, and
\* sells never take more shares than the account has.
TypeOK ==
  /\ price \in Prices /\ shares \in Nat /\ free \in Nat
  /\ orders \in Seq(Order)
  /\ \A i \in DOMAIN orders : orders[i].filled <= orders[i].qty
  /\ rows \in Seq(Row) /\ Len(rows) = Len(orders)
  /\ pc \in {"idle", "resizing", "ready", "placed"}
  /\ signal \in [f : [num : Nat, den : Nat \ {0}], target : Targets \cup {NoTarget}, explicit : BOOLEAN]
  /\ qty \in Nat /\ (pc = "ready" <=> qty # 0)
  /\ basis \in [held : Nat, price : Nat, same : BOOLEAN]
  /\ ref \in [Refreshers -> [pc : {"idle", "asking", "answered"}, row : Nat,
                             loaded : Row \cup {<<>>}, answer : Live \cup Terminal \cup {"none"}]]
  /\ \A r \in Refreshers :
       ref[r].pc # "idle" => ref[r].row \in DOMAIN rows /\ ref[r].loaded \in Row
  /\ refreshes \in 0..MaxRefresh

\* A row that says an order is over tells the truth about it, although its
\* refreshes overlap and their answers come late and out of order.
TerminalIsTrue ==
  \A i \in DOMAIN rows : rows[i].status \in Terminal => orders[i].state = rows[i].status

\* A fill price once recorded is never lost to a refresh that began before it.
FillKept == [][\A i \in DOMAIN rows : rows[i].fill => rows'[i].fill]_vars

\* A "trimmed down to X%" sell leaves at least X% of the sleeve, if neither the
\* position nor the price changes between the gate and the second sizing.
TrimStopsAtTarget ==
  (pc = "ready" /\ basis.same /\ signal.target # NoTarget) =>
    (basis.held - qty) * basis.price * 100 >= signal.target * Sleeve

\* Once every order is over, all or nothing filled, and every row says so, the
\* ledger holds the shares that the account does.
Settled ==
  \A i \in DOMAIN orders : /\ orders[i].state \in Terminal /\ rows[i].status = orders[i].state
                           /\ orders[i].filled \in {0, orders[i].qty}
LedgerAgrees == Settled => SharesHeld[Len(rows)] = shares

\* README.md:358 "Explicit sell fractions and trimmed down to X% targets are
\* authoritative and capped only by shares owned".
ExplicitSellIsExact ==
  (pc = "ready" /\ signal.explicit) =>
    LET part == Clamped(signal.f) IN qty = (basis.held * part.num) \div part.den
=============================================================================
