--------------------------- MODULE PositionProofs ---------------------------
(***************************************************************************)
(* The account, the broker's orders and the rows of the trades table, for  *)
(* any number of orders, refreshes and requests.  What holds them together *)
(* is a sum: the account is what its orders add up to, and what its live   *)
(* sells may still take is set aside (Booked).  A refresh is safe because  *)
(* what it read of an order that is over stays true (ReadsTrue), and a     *)
(* trim because the worker knows when the position moved (Aimed, Sized).   *)
(***************************************************************************)
EXTENDS Position, SequenceTheorems, WellFoundedInduction, TLAPS

(***************************************************************************)
(* Sizes.                                                                  *)
(***************************************************************************)
\* What is divided and multiplied back does not exceed what it was.
LEMMA DivFloor ==
  ASSUME NEW a \in Nat, NEW b \in Nat \ {0}
  PROVE  a \div b \in Nat /\ b * (a \div b) <= a
BY SMT

\* A product of naturals is one.
LEMMA TimesNat == ASSUME NEW a \in Nat, NEW b \in Nat PROVE a * b \in Nat
BY SMT

\* Cap is an amount.
LEMMA CapIsNat == Cap \in Nat
<1>1. Sleeve * CapPct \in Nat
  BY TimesNat, SizingAssumption
<1>2. (Sleeve * CapPct) \div 100 \in Nat
  BY <1>1, DivFloor
<1>3. QED
  BY <1>2, SizingAssumption DEF Cap

\* The shares that a fraction asks for, of those held.
Part(held, f) == (held * Clamped(f).num) \div Clamped(f).den

\* A clamped fraction is a fraction, and at most one.
LEMMA ClampedIsOne ==
  ASSUME NEW f \in [num : Nat, den : Nat \ {0}]
  PROVE  /\ Clamped(f) \in [num : Nat, den : Nat \ {0}]
         /\ Clamped(f).num <= Clamped(f).den
<1>1. CASE f.num > f.den
  BY <1>1 DEF Clamped, Whole
<1>2. CASE ~(f.num > f.den)
  <2>1. Clamped(f) = f
    BY <1>2 DEF Clamped
  <2>2. f.num \in Nat /\ f.den \in Nat
    OBVIOUS
  <2>3. QED
    BY <1>2, <2>1, <2>2
<1>3. QED
  BY <1>1, <1>2

\* A fraction of the shares is no more than the shares.
LEMMA PartFits ==
  ASSUME NEW held \in Nat, NEW f \in [num : Nat, den : Nat \ {0}]
  PROVE  Part(held, f) <= held
<1> DEFINE num == Clamped(f).num
           den == Clamped(f).den
           part == (held * num) \div den
<1>1. num \in Nat /\ den \in Nat \ {0} /\ num <= den
  BY ClampedIsOne
<1> HIDE DEF num, den
<1>2. held * num \in Nat
  BY <1>1, TimesNat
<1>3. part \in Nat /\ den * part <= held * num
  BY <1>1, <1>2, DivFloor
<1>4. held * num <= held * den
  BY <1>1, SMT
<1> HIDE DEF part
<1>5. den * part <= den * held
  <2>1. held * den = den * held /\ held * den \in Nat
    BY <1>1, SMT
  <2>2. den * part \in Nat
    BY <1>1, <1>3, TimesNat
  <2>3. QED
    BY <1>2, <1>3, <1>4, <2>1, <2>2, SMT
<1>6. part <= held
  BY <1>1, <1>3, <1>5, SMT
<1>7. QED
  BY <1>6 DEF Part, part, num, den

\* A sell is of a natural number of shares, and of no more than the fraction.
LEMMA SellQuantityBound ==
  ASSUME NEW held \in Nat, NEW p \in Nat \ {0}, NEW f \in [num : Nat, den : Nat \ {0}],
         NEW cap \in Nat
  PROVE  /\ SellQuantity(held, p, f, cap) \in Nat
         /\ SellQuantity(held, p, f, cap) <= Part(held, f)
         /\ Part(held, f) \in Nat
<1> DEFINE part == Clamped(f)
           product == held * part.num
           wanted == product \div part.den
           amount == wanted * p
<1>1. product \in Nat /\ part.den \in Nat \ {0}
  BY TimesNat, ClampedIsOne
<1>2. wanted \in Nat
  BY <1>1, DivFloor
<1>3. amount \in Nat /\ Least(amount, cap) \in Nat
  BY <1>2, TimesNat DEF Least
<1> HIDE DEF product, wanted, amount
<1>4. Least(amount, cap) \div p \in Nat
  BY <1>3, DivFloor
<1>5. /\ Least(wanted, Least(amount, cap) \div p) \in Nat
      /\ Least(wanted, Least(amount, cap) \div p) <= wanted
  BY <1>2, <1>4 DEF Least
<1>6. SellQuantity(held, p, f, cap) \in {0, wanted, Least(wanted, Least(amount, cap) \div p)}
  BY DEF SellQuantity, NoSell, wanted, amount, product, part
<1>7. QED
  BY <1>2, <1>5, <1>6 DEF Part, wanted, product, part

\* A target fraction is one, and what it leaves of the position weighs at least
\* the target.
LEMMA TargetLeft ==
  ASSUME NEW held \in Nat \ {0}, NEW p \in Nat \ {0}, NEW pct \in Nat, NEW n \in Nat,
         FractionToTarget(held * p, pct).num > 0,
         n <= Part(held, FractionToTarget(held * p, pct))
  PROVE  (held - n) * p * 100 >= pct * Sleeve
<1> DEFINE v == held * p
           goal == pct * Sleeve
           num == 100 * v - goal
           den == 100 * v
           wanted == (held * num) \div den
<1>1. v \in Nat \ {0} /\ goal \in Nat
  BY SizingAssumption, SMT
<1>2. ~(v * 100 <= goal)
  BY DEF FractionToTarget
<1>3. FractionToTarget(v, pct) = [num |-> num, den |-> den]
  BY <1>2 DEF FractionToTarget
<1>4. num \in Nat \ {0} /\ den \in Nat \ {0} /\ den = v * 100
  BY <1>1, <1>2
<1>5. n <= wanted
  <2>1. ~(num > den)
    BY <1>1
  <2>2. Clamped(FractionToTarget(v, pct)) = [num |-> num, den |-> den]
    BY <1>3, <2>1 DEF Clamped
  <2>3. QED
    BY <2>2 DEF Part
<1>6. held * num \in Nat
  BY <1>4, TimesNat
<1> HIDE DEF num, den
<1>7. wanted \in Nat /\ den * wanted <= held * num
  BY <1>4, <1>6, DivFloor
<1> HIDE DEF wanted
<1>8. (100 * v) * wanted <= held * (100 * v - goal)
  BY <1>7 DEF num, den
<1>9. held * (100 * p * wanted) <= held * (100 * v - goal)
  <2>1. (100 * v) * wanted = held * (100 * p * wanted)
    BY <1>7
  <2>2. QED
    BY <1>8, <2>1
<1>10. 100 * p * wanted <= 100 * v - goal
  <2> DEFINE x == 100 * p * wanted
             y == 100 * v - goal
  <2>1. x \in Int /\ y \in Int
    BY <1>1, <1>7
  <2>2. held * x <= held * y
    BY <1>9
  <2> HIDE DEF x, y
  <2>3. x <= y
    BY <2>1, <2>2, SMT
  <2>4. QED
    BY <2>3 DEF x, y
<1>11. (held - wanted) * p * 100 >= goal
  BY <1>1, <1>7, <1>10
<1>12. (held - n) * p * 100 >= (held - wanted) * p * 100
  <2>1. (held - n) - (held - wanted) >= 0
    BY <1>5, <1>7
  <2>2. QED
    BY <2>1, <1>7, <1>5, SMT
<1>14. QED
  BY <1>1, <1>7, <1>11, <1>12

-----------------------------------------------------------------------------
(***************************************************************************)
(* Types.                                                                  *)
(***************************************************************************)
\* A row says of its order what never changes, and an order is filled exactly
\* when all of it is.
Matched ==
  \A i \in DOMAIN orders :
    /\ rows[i].side = orders[i].side /\ rows[i].qty = orders[i].qty
    /\ orders[i].state = "filled" <=> orders[i].filled = orders[i].qty

\* What an order did to the free shares, and what a sell may still take.
Gain(o) == IF o.side = "BUY" THEN o.filled
           ELSE IF o.state \in Live THEN -o.qty ELSE -o.filled
Rest(o) == IF o.side = "SELL" /\ o.state \in Live THEN o.qty - o.filled ELSE 0

\* h[k] is the sum of the first k of n numbers.
Sums(n, g, h) ==
  /\ h \in [0..n -> Nat] /\ h[0] = 0
  /\ \A k \in 1..n : h[k] = h[k - 1] + g[k]

Gains == [k \in DOMAIN orders |-> Gain(orders[k])]
Rests == [k \in DOMAIN orders |-> Rest(orders[k])]

\* The account is the sum of its orders, and no prefix of them oversells.
Booked ==
  \E had, due :
    /\ Sums(Len(orders), Gains, had) /\ Sums(Len(orders), Rests, due)
    /\ free = had[Len(orders)] /\ shares = free + due[Len(orders)]

Inv == TypeOK /\ Matched /\ Booked

\* Every order, and the row that was loaded, has its type.
LEMMA Typed ==
  ASSUME TypeOK
  PROVE  /\ \A i \in DOMAIN orders : orders[i] \in Order
         /\ \A i \in DOMAIN rows : rows[i] \in Row
         /\ DOMAIN orders = 1..Len(orders) /\ DOMAIN rows = DOMAIN orders
         /\ Len(orders) \in Nat
         /\ price \in Nat \ {0}
BY PositionAssumption DEF TypeOK

\* The order the broker made of a request, and its row: in state s, done filled.
PlacedAs(side, n, s, done) ==
  /\ orders'[Len(orders')] = [side |-> side, qty |-> n, filled |-> done, state |-> s]
  /\ rows'[Len(orders')] = [side |-> side, qty |-> n, status |-> s, fill |-> s = "filled"]
  /\ s = "filled" <=> done = n
  /\ s # "rejected" /\ side = "SELL" => n <= free
  /\ free' = IF side = "SELL" /\ s # "rejected" THEN free - n
             ELSE IF side = "BUY" /\ s = "filled" THEN free + n ELSE free
  /\ shares' = IF s # "filled" THEN shares
               ELSE IF side = "BUY" THEN shares + n ELSE shares - n

\* The types an order and its row are placed with.
LEMMA PlacedTypes ==
  ASSUME TypeOK, NEW side \in Sides, NEW n \in Nat \ {0}, Place(side, n)
  PROVE  /\ orders' \in Seq(Order) /\ rows' \in Seq(Row)
         /\ Len(orders') = Len(orders) + 1 /\ Len(rows') = Len(orders')
         /\ \A i \in DOMAIN orders : orders'[i] = orders[i] /\ rows'[i] = rows[i]
         /\ \E s \in {"open", "rejected", "filled"}, done \in {0, n} : PlacedAs(side, n, s, done)
<1>1. PICK s \in {"open", "rejected", "filled"} : Placed(side, n, s)
  BY DEF Place
<1> DEFINE done == IF s = "filled" THEN n ELSE 0
           o == [side |-> side, qty |-> n, filled |-> done, state |-> s]
           w == [side |-> side, qty |-> n, status |-> s, fill |-> s = "filled"]
<1>2. done \in {0, n} /\ (s = "filled" <=> done = n)
  OBVIOUS
<1>3. orders' = Append(orders, o) /\ rows' = Append(rows, w)
  BY <1>1 DEF Placed
<1>4. (s = "filled") \in BOOLEAN
  OBVIOUS
<1>5. o \in Order /\ w \in Row
  <2> HIDE DEF done
  <2> QED BY <1>2, <1>4 DEF Order, Row, Live, Terminal
<1>6. /\ s # "rejected" /\ side = "SELL" => n <= free
      /\ free' = IF side = "SELL" /\ s # "rejected" THEN free - n
                 ELSE IF side = "BUY" /\ s = "filled" THEN free + n ELSE free
      /\ shares' = IF s # "filled" THEN shares
                   ELSE IF side = "BUY" THEN shares + n ELSE shares - n
  BY <1>1 DEF Placed, Accepts
<1> HIDE DEF done, o, w
<1>7. orders \in Seq(Order) /\ rows \in Seq(Row) /\ Len(rows) = Len(orders)
  BY DEF TypeOK
<1>8. /\ orders' \in Seq(Order) /\ rows' \in Seq(Row)
      /\ Len(orders') = Len(orders) + 1 /\ Len(rows') = Len(orders')
      /\ \A i \in DOMAIN orders : orders'[i] = orders[i] /\ rows'[i] = rows[i]
      /\ orders'[Len(orders')] = o /\ rows'[Len(orders')] = w
  BY <1>3, <1>5, <1>7, AppendProperties
<1>9. QED
  <2>1. PlacedAs(side, n, s, done)
    BY <1>2, <1>6, <1>8 DEF o, w, PlacedAs
  <2>2. QED
    BY <1>2, <1>8, <2>1

\* The types an order is filled with, and by how much.
LEMMA FilledTypes ==
  ASSUME Inv, NEW i \in DOMAIN orders, Fill(i)
  PROVE  /\ orders' \in Seq(Order) /\ Len(orders') = Len(orders)
         /\ \A j \in DOMAIN orders : j # i => orders'[j] = orders[j]
         /\ orders'[i].side = orders[i].side /\ orders'[i].qty = orders[i].qty
         /\ orders'[i].filled = orders[i].filled + 1
         /\ orders[i].filled < orders[i].qty
         /\ orders'[i].state = IF orders'[i].filled = orders[i].qty THEN "filled"
                               ELSE orders[i].state
<1> DEFINE o == orders[i]
           new == [o EXCEPT !.filled = @ + 1,
                            !.state = IF o.filled + 1 = o.qty THEN "filled" ELSE @]
<1>1. o \in Order /\ o.state \in Live /\ o.filled <= o.qty /\ o.filled # o.qty
  BY Typed DEF Inv, Matched, TypeOK, Fill, Live
<1>2. orders' = [orders EXCEPT ![i] = new]
  BY DEF Fill
<1>3. new \in Order /\ new.side = o.side /\ new.qty = o.qty /\ new.filled = o.filled + 1
      /\ new.state = IF o.filled + 1 = o.qty THEN "filled" ELSE o.state
  <2> DEFINE state == IF o.filled + 1 = o.qty THEN "filled" ELSE o.state
  <2>1. state \in Live \cup Terminal /\ o.filled + 1 \in Nat
    BY <1>1 DEF Order, Live, Terminal
  <2>2. new = [o EXCEPT !.filled = o.filled + 1, !.state = state]
    OBVIOUS
  <2> HIDE DEF state, new
  <2>3. new = [side |-> o.side, qty |-> o.qty, filled |-> o.filled + 1, state |-> state]
    BY <1>1, <2>2 DEF Order
  <2>4. QED
    BY <1>1, <2>1, <2>3 DEF Order, state
<1> HIDE DEF new
<1>4. orders \in Seq(Order)
  BY DEF Inv, TypeOK
<1>5. orders' \in Seq(Order) /\ Len(orders') = Len(orders) /\ orders'[i] = new
      /\ \A j \in DOMAIN orders : j # i => orders'[j] = orders[j]
  BY <1>2, <1>3, <1>4, ExceptSeq
<1>6. o.filled < o.qty
  BY <1>1 DEF Order
<1>7. QED
  BY <1>3, <1>5, <1>6

\* The types an order keeps when the owner cancels it or the broker ends it.
LEMMA ChangedTypes ==
  ASSUME TypeOK, NEW i \in DOMAIN orders, NEW from, NEW to \in Live \cup Terminal,
         Change(i, from, to)
  PROVE  /\ orders' \in Seq(Order) /\ Len(orders') = Len(orders)
         /\ \A j \in DOMAIN orders : j # i => orders'[j] = orders[j]
         /\ orders[i].state = from
         /\ orders'[i].side = orders[i].side /\ orders'[i].qty = orders[i].qty
         /\ orders'[i].filled = orders[i].filled /\ orders'[i].state = to
<1> DEFINE o == orders[i]
           new == [o EXCEPT !.state = to]
<1>1. o \in Order
  BY Typed
<1>2. orders' = [orders EXCEPT ![i] = new] /\ o.state = from
  BY DEF Change
<1>3. new \in Order /\ new.side = o.side /\ new.qty = o.qty /\ new.filled = o.filled
      /\ new.state = to
  BY <1>1 DEF Order
<1> HIDE DEF new
<1>4. orders \in Seq(Order)
  BY DEF TypeOK
<1>5. orders' \in Seq(Order) /\ Len(orders') = Len(orders) /\ orders'[i] = new
      /\ \A j \in DOMAIN orders : j # i => orders'[j] = orders[j]
  BY <1>2, <1>3, <1>4, ExceptSeq
<1>6. QED
  BY <1>2, <1>3, <1>5 DEF new
-----------------------------------------------------------------------------
(***************************************************************************)
(* The account.                                                            *)
(***************************************************************************)
\* The order of the naturals is well-founded.
Below == {pair \in Nat \X Nat : pair[1] < pair[2]}

\* The naturals are well-founded under it.
LEMMA BelowIsWellFounded == IsWellFoundedOn(Below, Nat)
BY NatLessThanWellFounded DEF Below, OpToRel

\* Induction: a set of naturals with zero and every successor has them all.
LEMMA Induction ==
  ASSUME NEW S \in SUBSET Nat, 0 \in S, \A n \in S : n + 1 \in S
  PROVE  \A n \in Nat : n \in S
<1> SUFFICES ASSUME Nat \ S # {} PROVE FALSE
  OBVIOUS
<1>1. PICK x \in Nat \ S : \A y \in Nat \ S : <<y, x>> \notin Below
  BY BelowIsWellFounded, WFMin
<1>2. x # 0 /\ x - 1 \in Nat /\ <<x - 1, x>> \in Below
  BY <1>1 DEF Below
<1>3. x - 1 \in S
  BY <1>1, <1>2
<1>4. (x - 1) + 1 = x
  BY <1>1
<1>5. QED
  BY <1>1, <1>3, <1>4

\* Sums of naturals do not shrink.
LEMMA SumsGrow ==
  ASSUME NEW n \in Nat, NEW g \in [1..n -> Nat], NEW h, Sums(n, g, h),
         NEW i \in 0..n, NEW k \in 0..n, i <= k
  PROVE  h[i] <= h[k]
<1> DEFINE S == {m \in Nat : i + m \in 0..n => h[i] <= h[i + m]}
<1>1. h \in [0..n -> Nat] /\ i \in Nat /\ k \in Nat
  BY DEF Sums
<1>2. 0 \in S
  BY <1>1
<1>3. ASSUME NEW m \in S, i + (m + 1) \in 0..n PROVE h[i] <= h[i + (m + 1)]
  <2> DEFINE j == i + m
  <2>1. m \in Nat /\ j \in 0..n /\ j + 1 \in 1..n /\ i + (m + 1) = j + 1
    BY <1>1, <1>3
  <2>2. h[i] <= h[j]
    BY <2>1
  <2>3. h[j + 1] = h[(j + 1) - 1] + g[j + 1] /\ (j + 1) - 1 = j
    BY <2>1 DEF Sums
  <2>4. h[i] \in Nat /\ h[j] \in Nat /\ g[j + 1] \in Nat
    BY <1>1, <2>1
  <2> HIDE DEF j
  <2>5. QED
    BY <2>1, <2>2, <2>3, <2>4
<1>4. \A m \in Nat : m \in S
  <2>1. \A m \in S : m + 1 \in S
    BY <1>3
  <2> HIDE DEF S
  <2>2. S \in SUBSET Nat
    BY DEF S
  <2>3. QED
    BY <1>2, <2>1, <2>2, Induction
<1>5. k - i \in S
  <2>1. k - i \in Nat
    BY <1>1
  <2>2. QED
    BY <1>4, <2>1
<1>6. i + (k - i) = k
  BY <1>1
<1>7. QED
  BY <1>5, <1>6

\* One number more.
LEMMA SumsAppend ==
  ASSUME NEW n \in Nat, NEW g, NEW g2, NEW h, Sums(n, g, h),
         \A k \in 1..n : g2[k] = g[k], g2[n + 1] \in Int, h[n] + g2[n + 1] \in Nat
  PROVE  \E h2 : Sums(n + 1, g2, h2) /\ h2[n + 1] = h[n] + g2[n + 1]
<1> DEFINE h2 == [k \in 0..(n + 1) |-> IF k <= n THEN h[k] ELSE h[n] + g2[n + 1]]
<1>1. h \in [0..n -> Nat] /\ h[0] = 0
  BY DEF Sums
<1>2. h2 \in [0..(n + 1) -> Nat] /\ h2[0] = 0 /\ h2[n + 1] = h[n] + g2[n + 1]
  BY <1>1
<1>3. ASSUME NEW k \in 1..(n + 1) PROVE h2[k] = h2[k - 1] + g2[k]
  <2>1. CASE k = n + 1
    BY <2>1
  <2>2. CASE k \in 1..n
    <3>1. h[k] = h[k - 1] + g[k] /\ g2[k] = g[k]
      BY <2>2 DEF Sums
    <3>2. h2[k] = h[k] /\ h2[k - 1] = h[k - 1]
      BY <2>2
    <3>3. QED
      BY <3>1, <3>2
  <2>3. QED
    BY <2>1, <2>2
<1>4. QED
  BY <1>2, <1>3 DEF Sums

\* g2 is g but for d more at i, and the sums h can bear it.
Bumped(n, g, g2, h, i, d) ==
  /\ Sums(n, g, h) /\ \A k \in 1..n : g[k] \in Int
  /\ \A k \in 1..n : k # i => g2[k] = g[k]
  /\ g2[i] = g[i] + d
  /\ \A k \in i..n : h[k] + d \in Nat

\* One number changed.
LEMMA SumsExcept ==
  ASSUME NEW n \in Nat, NEW g, NEW g2, NEW h, NEW i \in 1..n, NEW d \in Int,
         Bumped(n, g, g2, h, i, d)
  PROVE  \E h2 : Sums(n, g2, h2) /\ h2[n] = h[n] + d
<1>0. /\ Sums(n, g, h) /\ \A k \in 1..n : g[k] \in Int
      /\ \A k \in 1..n : k # i => g2[k] = g[k]
      /\ g2[i] = g[i] + d
      /\ \A k \in i..n : h[k] + d \in Nat
  BY DEF Bumped
<1> DEFINE h2 == [k \in 0..n |-> IF k >= i THEN h[k] + d ELSE h[k]]
<1>1. h \in [0..n -> Nat] /\ h[0] = 0
  BY <1>0 DEF Sums
<1>2. h2 \in [0..n -> Nat] /\ h2[0] = 0 /\ h2[n] = h[n] + d
  BY <1>0, <1>1
<1>3. ASSUME NEW k \in 1..n PROVE h2[k] = h2[k - 1] + g2[k]
  <2>a. h[k] = h[k - 1] + g[k]
    BY <1>0 DEF Sums
  <2>1. h[k] = h[k - 1] + g[k] /\ g[k] \in Int /\ h[k] \in Nat /\ h[k - 1] \in Nat
    BY <1>0, <1>1, <2>a
  <2>2. CASE k = i
    <3>1. h2[k] = h[k] + d /\ h2[k - 1] = h[k - 1] /\ g2[k] = g[k] + d
      BY <1>0, <2>2
    <3>2. QED
      BY <2>1, <3>1
  <2>3. CASE k > i
    <3>1. h2[k] = h[k] + d /\ h2[k - 1] = h[k - 1] + d /\ g2[k] = g[k]
      BY <1>0, <2>3
    <3>2. QED
      BY <2>1, <3>1
  <2>4. CASE k < i
    <3>1. h2[k] = h[k] /\ h2[k - 1] = h[k - 1] /\ g2[k] = g[k]
      BY <1>0, <2>4
    <3>2. QED
      BY <2>1, <3>1
  <2>5. QED
    BY <2>2, <2>3, <2>4
<1>4. QED
  BY <1>2, <1>3 DEF Sums

\* Every order has integers to add, and adds what is left of it.
LEMMA Numbers ==
  ASSUME Inv
  PROVE  /\ Len(orders) \in Nat /\ DOMAIN orders = 1..Len(orders)
         /\ Gains \in [1..Len(orders) -> Int] /\ Rests \in [1..Len(orders) -> Nat]
<1>1. \A i \in DOMAIN orders :
        orders[i] \in Order /\ orders[i].filled <= orders[i].qty
  BY Typed DEF Inv, TypeOK
<1>2. ASSUME NEW i \in DOMAIN orders
      PROVE  Gain(orders[i]) \in Int /\ Rest(orders[i]) \in Nat
  BY <1>1 DEF Gain, Rest, Order
<1>3. QED
  BY <1>2, Typed DEF Inv, Gains, Rests

\* The sums after one order changed.
LEMMA BookedExcept ==
  ASSUME Inv, NEW i \in DOMAIN orders, Len(orders') = Len(orders), orders' \in Seq(Order),
         \A j \in DOMAIN orders : j # i => orders'[j] = orders[j],
         NEW more \in Nat, NEW less \in Nat, less <= Rest(orders[i]),
         Gain(orders'[i]) = Gain(orders[i]) + more, Rest(orders'[i]) = Rest(orders[i]) - less,
         free' = free + more, shares' = shares + more - less
  PROVE  Booked'
<1> DEFINE n == Len(orders)
<1>1. PICK had, due : /\ Sums(n, Gains, had) /\ Sums(n, Rests, due)
                      /\ free = had[n] /\ shares = free + due[n]
  BY DEF Inv, Booked
<1>2. n \in Nat /\ Gains \in [1..n -> Int] /\ Rests \in [1..n -> Nat] /\ i \in 1..n
      /\ DOMAIN orders = 1..n
  BY Numbers
<1>3. DOMAIN orders' = 1..n /\ Len(orders') = n
  BY <1>2
<1>4. /\ \A k \in 1..n : k # i => Gains'[k] = Gains[k] /\ Rests'[k] = Rests[k]
      /\ Gains'[i] = Gains[i] + more /\ Rests'[i] = Rests[i] + (-less) /\ less <= Rests[i]
  <2>1. /\ \A k \in 1..n : Gains[k] = Gain(orders[k]) /\ Rests[k] = Rest(orders[k])
        /\ \A k \in 1..n : Gains'[k] = Gain(orders'[k]) /\ Rests'[k] = Rest(orders'[k])
    BY <1>2, <1>3 DEF Gains, Rests
  <2>2. Rests[i] \in Nat
    BY <1>2
  <2>3. \A k \in 1..n : k # i => Gains'[k] = Gains[k] /\ Rests'[k] = Rests[k]
    BY <1>2, <2>1
  <2>4. Gains'[i] = Gains[i] + more /\ less <= Rests[i] /\ Rests'[i] = Rests[i] - less
    BY <1>2, <2>1
  <2>5. QED
    BY <2>2, <2>3, <2>4
<1>5. \A k \in i..n : had[k] + more \in Nat
  <2>1. had \in [0..n -> Nat]
    BY <1>1 DEF Sums
  <2>2. \A k \in i..n : k \in 0..n
    BY <1>2
  <2>3. QED
    BY <2>1, <2>2
<1>6. \A k \in i..n : due[k] + (-less) \in Nat
  <2> SUFFICES ASSUME NEW k \in i..n PROVE due[k] + (-less) \in Nat
    OBVIOUS
  <2>1. due[i] = due[i - 1] + Rests[i]
    BY <1>1, <1>2 DEF Sums
  <2>2. due \in [0..n -> Nat]
    BY <1>1 DEF Sums
  <2>3. due[i] \in Nat /\ due[i - 1] \in Nat /\ due[k] \in Nat /\ Rests[i] \in Nat
    BY <1>2, <2>2
  <2>4. due[i] <= due[k]
    <3> HIDE DEF n
    <3>1. i \in 0..n /\ k \in 0..n /\ i <= k
      BY <1>2
    <3>2. QED
      BY <1>1, <1>2, <3>1, SumsGrow
  <2>5. less <= due[i]
    BY <1>4, <2>1, <2>3
  <2>6. QED
    BY <2>3, <2>4, <2>5
<1> HIDE DEF n
<1>7. PICK had2 : Sums(n, Gains', had2) /\ had2[n] = had[n] + more
  <2>1. more \in Int /\ i \in 1..n /\ n \in Nat /\ \A k \in 1..n : Gains[k] \in Int
    BY <1>2
  <2>2. \A k \in 1..n : k # i => Gains'[k] = Gains[k]
    BY <1>4
  <2>3. Gains'[i] = Gains[i] + more
    BY <1>4
  <2>4. Bumped(n, Gains, Gains', had, i, more)
    BY <1>1, <1>5, <2>1, <2>2, <2>3 DEF Bumped
  <2>5. QED
    BY <2>1, <2>4, SumsExcept
<1>8. PICK due2 : Sums(n, Rests', due2) /\ due2[n] = due[n] + (-less)
  <2>1. -less \in Int /\ i \in 1..n /\ n \in Nat /\ \A k \in 1..n : Rests[k] \in Int
    BY <1>2
  <2>2. \A k \in 1..n : k # i => Rests'[k] = Rests[k]
    BY <1>4
  <2>3. Rests'[i] = Rests[i] + (-less)
    BY <1>4
  <2>4. Bumped(n, Rests, Rests', due, i, -less)
    BY <1>1, <1>6, <2>1, <2>2, <2>3 DEF Bumped
  <2>5. QED
    BY <2>1, <2>4, SumsExcept
<1>9. free' = had2[n] /\ shares' = free' + due2[n]
  <2>1. had[n] \in Nat /\ due[n] \in Nat
    BY <1>1, <1>2 DEF Sums
  <2>2. QED
    BY <1>1, <1>7, <1>8, <2>1
<1>10. QED
  BY <1>3, <1>7, <1>8, <1>9 DEF Booked

\* The sums after an order was placed.
LEMMA BookedPlaced ==
  ASSUME Inv, NEW side \in Sides, NEW m \in Nat \ {0}, Place(side, m)
  PROVE  Booked'
<1> DEFINE n == Len(orders)
           new == orders'[n + 1]
<1>1. PICK had, due : /\ Sums(n, Gains, had) /\ Sums(n, Rests, due)
                      /\ free = had[n] /\ shares = free + due[n]
  BY DEF Inv, Booked
<1>2. n \in Nat /\ Gains \in [1..n -> Int] /\ Rests \in [1..n -> Nat] /\ DOMAIN orders = 1..n
  BY Numbers
<1>3. /\ orders' \in Seq(Order) /\ Len(orders') = n + 1
      /\ \A k \in 1..n : orders'[k] = orders[k]
  BY <1>2, PlacedTypes DEF Inv
<1>13. PICK s \in {"open", "rejected", "filled"}, done \in {0, m} : PlacedAs(side, m, s, done)
  BY PlacedTypes DEF Inv
<1>4. /\ new = [side |-> side, qty |-> m, filled |-> done, state |-> s]
      /\ s = "filled" <=> done = m
      /\ s # "rejected" /\ side = "SELL" => m <= free
      /\ free' = IF side = "SELL" /\ s # "rejected" THEN free - m
                 ELSE IF side = "BUY" /\ s = "filled" THEN free + m ELSE free
      /\ shares' = IF s # "filled" THEN shares
                   ELSE IF side = "BUY" THEN shares + m ELSE shares - m
  BY <1>3, <1>13 DEF PlacedAs
<1>5. new.side = side /\ new.qty = m /\ new.filled = done /\ new.state = s /\ side \in {"BUY", "SELL"}
  BY <1>4 DEF Sides
<1>6. DOMAIN orders' = 1..(n + 1)
  BY <1>3
<1>7. /\ \A k \in 1..n : Gains'[k] = Gains[k] /\ Rests'[k] = Rests[k]
      /\ Gains'[n + 1] = Gain(new) /\ Rests'[n + 1] = Rest(new)
  <2>1. /\ Gains' = [k \in DOMAIN orders' |-> Gain(orders'[k])]
        /\ Rests' = [k \in DOMAIN orders' |-> Rest(orders'[k])]
    BY DEF Gains, Rests
  <2>2. n + 1 \in DOMAIN orders' /\ \A k \in 1..n : k \in DOMAIN orders' /\ k \in DOMAIN orders
    BY <1>2, <1>6
  <2> HIDE DEF n
  <2>3. QED
    BY <1>3, <2>1, <2>2 DEF Gains, Rests
<1>8. /\ Gain(new) \in Int /\ free' = free + Gain(new) /\ free + Gain(new) \in Nat
      /\ Rest(new) \in Nat /\ shares' = shares + Gain(new) + Rest(new)
  <2>1. free \in Nat /\ shares \in Nat
    BY DEF Inv, TypeOK
  <2>2. CASE side = "BUY"
    <3>1. Gain(new) = done /\ Rest(new) = 0
      BY <1>5, <2>2 DEF Gain, Rest
    <3>2. CASE s = "filled"
      BY <1>4, <2>1, <2>2, <3>1, <3>2
    <3>3. CASE s # "filled"
      BY <1>4, <2>1, <2>2, <3>1, <3>3
    <3>4. QED
      BY <3>2, <3>3
  <2>3. CASE side = "SELL"
    <3>1. CASE s = "open"
      <4>1. Gain(new) = -m /\ Rest(new) = m - done /\ done = 0
        BY <1>4, <1>5, <2>3, <3>1 DEF Gain, Rest, Live
      <4>2. QED
        BY <1>4, <2>1, <2>3, <3>1, <4>1
    <3>2. CASE s # "open"
      <4>1. Gain(new) = -done /\ Rest(new) = 0
        BY <1>4, <1>5, <2>3, <3>2 DEF Gain, Rest, Live
      <4>2. QED
        BY <1>4, <2>1, <2>3, <3>2, <4>1
    <3>3. QED
      BY <3>1, <3>2
  <2>4. QED
    BY <1>5, <2>2, <2>3
<1>9. had[n] \in Nat /\ due[n] \in Nat
  BY <1>1, <1>2 DEF Sums
<1> HIDE DEF n, new
<1>10. PICK had2 : Sums(n + 1, Gains', had2) /\ had2[n + 1] = had[n] + Gain(new)
  <2>1. Gain(new) \in Int /\ had[n] + Gain(new) \in Nat
    BY <1>1, <1>8
  <2>2. \A k \in 1..n : Gains'[k] = Gains[k]
    BY <1>7
  <2>3. Gains'[n + 1] = Gain(new)
    BY <1>7
  <2>4. QED
    BY <1>1, <1>2, <2>1, <2>2, <2>3, SumsAppend
<1>11. PICK due2 : Sums(n + 1, Rests', due2) /\ due2[n + 1] = due[n] + Rest(new)
  <2>1. Rest(new) \in Int /\ due[n] + Rest(new) \in Nat
    BY <1>8, <1>9
  <2>2. \A k \in 1..n : Rests'[k] = Rests[k]
    BY <1>7
  <2>3. Rests'[n + 1] = Rest(new)
    BY <1>7
  <2>4. QED
    BY <1>1, <1>2, <2>1, <2>2, <2>3, SumsAppend, SMTT(60)
<1>12. free' = had2[n + 1] /\ shares' = free' + due2[n + 1]
  BY <1>1, <1>8, <1>9, <1>10, <1>11
<1>14. QED
  BY <1>3, <1>10, <1>11, <1>12 DEF Booked

\* Every step of the worker, the broker and the refreshes.
LEMMA Steps ==
  ASSUME TypeOK, [Next]_vars
  PROVE  \/ \E n \in 1..MaxShares : Buy /\ Place("BUY", n)
         \/ Sell /\ qty \in Nat \ {0} /\ Place("SELL", qty)
         \/ \E i \in DOMAIN orders : Fill(i)
         \/ \E i \in DOMAIN orders : AskToCancel(i) \/ Cancelled(i) \/ Rejected(i)
         \/ /\ UNCHANGED <<shares, free, orders>>
            /\ \/ EvaluateFraction \/ EvaluateTarget \/ Resize \/ PriceMoves \/ UNCHANGED vars
               \/ \E r \in Refreshers : \/ NoAnswer(r) \/ Answer(r) \/ Apply(r)
                                        \/ \E i \in DOMAIN rows : Load(r, i)
<1>1. CASE Worker
  <2>1. CASE Buy
    BY <2>1 DEF Buy
  <2>2. CASE Sell
    BY <2>2 DEF Sell, TypeOK
  <2>3. CASE EvaluateFraction \/ EvaluateTarget \/ Resize
    <3>1. UNCHANGED <<shares, free, orders>>
      BY <2>3 DEF EvaluateFraction, EvaluateTarget, EvaluateSell, Resize
    <3>2. QED
      BY <2>3, <3>1
  <2>4. QED
    BY <1>1, <2>1, <2>2, <2>3 DEF Worker
<1>2. CASE Broker
  BY <1>2 DEF Broker, PriceMoves
<1>3. CASE Refresh
  <2>1. UNCHANGED <<shares, free, orders>>
    BY <1>3 DEF Refresh, NoAnswer, Answer, Apply, Load, RefreshEnds
  <2>2. QED
    BY <1>3, <2>1 DEF Refresh
<1>4. CASE UNCHANGED vars
  BY <1>4 DEF vars
<1>5. QED
  BY <1>1, <1>2, <1>3, <1>4 DEF Next

\* What changes the state of an order.
LEMMA Changes ==
  ASSUME NEW i, AskToCancel(i) \/ Cancelled(i) \/ Rejected(i)
  PROVE  \E from \in Live, to \in Live \cup Terminal : to # "filled" /\ Change(i, from, to)
BY DEF AskToCancel, Cancelled, Rejected, Live, Terminal

\* No step breaks the sum of the orders.
LEMMA BookedStep == Inv /\ [Next]_vars => Booked'
<1> SUFFICES ASSUME Inv, [Next]_vars PROVE Booked'
  OBVIOUS
<1>0. TypeOK /\ Matched /\ free \in Nat /\ shares \in Nat
  BY DEF Inv, TypeOK
<1>1. ASSUME NEW n \in 1..MaxShares, Place("BUY", n) PROVE Booked'
  <2>1. n \in Nat \ {0}
    BY PositionAssumption
  <2>2. QED
    BY <1>1, <2>1, BookedPlaced DEF Sides
<1>2. CASE qty \in Nat \ {0} /\ Place("SELL", qty)
  BY <1>2, BookedPlaced DEF Sides
<1>3. ASSUME NEW i \in DOMAIN orders, Fill(i) PROVE Booked'
  <2> DEFINE o == orders[i]  new == orders'[i]
  <2>1. /\ orders' \in Seq(Order) /\ Len(orders') = Len(orders)
        /\ \A j \in DOMAIN orders : j # i => orders'[j] = orders[j]
    BY <1>3, FilledTypes
  <2>2. /\ new.side = o.side /\ new.qty = o.qty /\ new.filled = o.filled + 1
        /\ o.filled < o.qty
        /\ new.state = IF new.filled = o.qty THEN "filled" ELSE o.state
    BY <1>3, FilledTypes
  <2>3. o.state \in Live /\ o \in Order
    BY <1>0, <1>3, Typed DEF Fill
  <2>4. CASE o.side = "BUY"
    <3>1. Gain(new) = Gain(o) + 1 /\ Rest(new) = Rest(o) - 0 /\ 0 <= Rest(o)
      BY <2>2, <2>3, <2>4 DEF Gain, Rest
    <3>2. free' = free + 1 /\ shares' = shares + 1 - 0
      BY <1>0, <1>3, <2>4 DEF Fill
    <3>3. QED
      BY <2>1, <3>1, <3>2, BookedExcept
  <2>5. CASE o.side = "SELL"
    <3>1. Gain(new) = Gain(o) + 0 /\ Rest(new) = Rest(o) - 1 /\ 1 <= Rest(o)
      <4>1. o.qty \in Nat /\ o.filled \in Nat
        BY <2>3 DEF Order
      <4>2. Gain(o) = -o.qty /\ Rest(o) = o.qty - o.filled
        BY <2>3, <2>5 DEF Gain, Rest
      <4>3. CASE new.filled = o.qty
        <5>1. new.state = "filled" /\ new.state \notin Live /\ new.side # "BUY"
          BY <2>2, <2>5, <4>3 DEF Live
        <5>2. Gain(new) = -new.filled /\ Rest(new) = 0
          BY <5>1 DEF Gain, Rest
        <5>3. QED
          BY <2>2, <4>1, <4>2, <4>3, <5>2
      <4>4. CASE new.filled # o.qty
        <5>1. new.state \in Live /\ new.side = "SELL"
          BY <2>2, <2>3, <2>5, <4>4
        <5>2. Gain(new) = -new.qty /\ Rest(new) = new.qty - new.filled
          BY <5>1 DEF Gain, Rest
        <5>3. QED
          BY <2>2, <4>1, <4>2, <5>2
      <4>5. QED
        BY <4>3, <4>4
    <3>2. free' = free + 0 /\ shares' = shares + 0 - 1
      BY <1>0, <1>3, <2>5 DEF Fill
    <3>3. QED
      BY <2>1, <3>1, <3>2, BookedExcept
  <2>6. QED
    BY <2>3, <2>4, <2>5 DEF Order, Sides
<1>4. ASSUME NEW i \in DOMAIN orders, AskToCancel(i) \/ Cancelled(i) \/ Rejected(i) PROVE Booked'
  <2>0. PICK from \in Live, to \in Live \cup Terminal : to # "filled" /\ Change(i, from, to)
    BY <1>4, Changes
  <2>a. TypeOK /\ Change(i, from, to)
    BY <1>0, <2>0
  <2>b. /\ orders' \in Seq(Order) /\ Len(orders') = Len(orders)
        /\ \A j \in DOMAIN orders : j # i => orders'[j] = orders[j]
        /\ orders[i].state = from
    BY <2>a, ChangedTypes
  <2>c. /\ orders'[i].side = orders[i].side /\ orders'[i].qty = orders[i].qty
        /\ orders'[i].filled = orders[i].filled /\ orders'[i].state = to
    <3>1. to \in Live \cup Terminal
      BY <2>0
    <3>2. QED
      BY <2>a, <3>1, ChangedTypes
  <2> DEFINE o == orders[i]  new == orders'[i]
  <2>1. /\ orders' \in Seq(Order) /\ Len(orders') = Len(orders)
        /\ \A j \in DOMAIN orders : j # i => orders'[j] = orders[j]
        /\ o.state = from
        /\ new.side = o.side /\ new.qty = o.qty /\ new.filled = o.filled /\ new.state = to
    BY <2>b, <2>c
  <2>2. o \in Order /\ o.filled <= o.qty
    BY <1>0, Typed DEF TypeOK
  <2>3. CASE o.side = "SELL" /\ to \in Terminal
    <3> DEFINE left == o.qty - o.filled
    <3>1. left \in Nat /\ o.qty \in Nat /\ o.filled \in Nat
      BY <2>2 DEF Order
    <3>2. Gain(o) = -o.qty /\ Rest(o) = left
      BY <2>1, <2>3 DEF Gain, Rest
    <3>3. Gain(new) = -o.filled /\ Rest(new) = 0
      BY <2>1, <2>3 DEF Gain, Rest, Live, Terminal
    <3>4. free' = free + o.qty - o.filled /\ shares' = shares
      BY <2>0, <2>3 DEF Change
    <3>5. free' = free + left /\ shares' = shares + left - left
      BY <1>0, <3>1, <3>4
    <3>6. Gain(new) = Gain(o) + left /\ Rest(new) = Rest(o) - left /\ left <= Rest(o)
      BY <3>1, <3>2, <3>3
    <3> HIDE DEF left
    <3>7. QED
      BY <2>1, <3>1, <3>5, <3>6, BookedExcept
  <2>4. CASE ~(o.side = "SELL" /\ to \in Terminal)
    <3>1. Gain(new) = Gain(o) /\ Rest(new) = Rest(o)
      BY <2>1, <2>2, <2>4 DEF Gain, Rest, Live, Terminal, Order, Sides
    <3>2. free' = free /\ shares' = shares
      BY <2>0, <2>4 DEF Change
    <3>3. Gain(o) \in Int /\ Rest(o) \in Nat
      BY <2>2 DEF Gain, Rest, Order
    <3>4. Gain(new) = Gain(o) + 0 /\ Rest(new) = Rest(o) - 0 /\ 0 <= Rest(o)
      BY <3>1, <3>3
    <3>5. free' = free + 0 /\ shares' = shares + 0 - 0
      BY <1>0, <3>2
    <3>6. QED
      BY <2>1, <3>4, <3>5, BookedExcept
  <2>5. QED
    BY <2>3, <2>4
<1>5. CASE UNCHANGED <<shares, free, orders>>
  BY <1>5 DEF Inv, Booked, Gains, Rests
<1>6. QED
  BY <1>0, <1>1, <1>2, <1>3, <1>4, <1>5, Steps

-----------------------------------------------------------------------------
(***************************************************************************)
(* The rows and their refreshes.                                           *)
(***************************************************************************)
\* What a refresh knows of an order that is over is true.
ReadsTrue ==
  \A r \in Refreshers :
    LET i == ref[r].row  old == ref[r].loaded  answer == ref[r].answer
    IN  /\ ref[r].pc # "idle" /\ old.status \in Terminal => orders[i].state = old.status
        /\ ref[r].pc = "answered" =>
             /\ answer \in Live \cup Terminal
             /\ answer \in Terminal => orders[i].state = answer

\* A refresh writes the status or the fill mark of its row, and nothing else.
LEMMA AppliedTypes ==
  ASSUME TypeOK, ReadsTrue, NEW r \in Refreshers, Apply(r)
  PROVE  /\ ref[r].row \in DOMAIN rows /\ rows' \in Seq(Row) /\ Len(rows') = Len(rows)
         /\ \A j \in DOMAIN rows : /\ rows'[j].side = rows[j].side /\ rows'[j].qty = rows[j].qty
                                   /\ rows[j].fill => rows'[j].fill
                                   /\ \/ rows'[j].status = rows[j].status
                                      \/ j = ref[r].row /\ rows'[j].status = ref[r].answer
<1> DEFINE i == ref[r].row
           old == ref[r].loaded
           state == ref[r].answer
           status == IF state # old.status THEN state ELSE rows[i].status
           fill == IF (old.fill \/ state = "filled") # old.fill
                   THEN old.fill \/ state = "filled" ELSE rows[i].fill
           new == [rows[i] EXCEPT !.status = status, !.fill = fill]
<1>1. ref[r].pc = "answered" /\ i \in DOMAIN rows /\ old \in Row
  BY DEF Apply, TypeOK
<1>2. rows[i] \in Row
  BY <1>1, Typed
<1>3. state \in Live \cup Terminal
  BY <1>1 DEF ReadsTrue
<1>4. /\ Refreshed(old, state).status = state
      /\ Refreshed(old, state).fill = (old.fill \/ state = "filled")
  BY <1>1 DEF Refreshed, MapState, Row
<1>5. rows' = [rows EXCEPT ![i] = new]
  <2>1. rows' = [rows EXCEPT ![i].status = status, ![i].fill = fill]
    BY <1>4 DEF Apply
  <2>2. QED
    BY <2>1
<1>6. status \in Live \cup Terminal /\ fill \in BOOLEAN
  BY <1>1, <1>2, <1>3 DEF Row
<1>7. rows[i].fill => fill
  BY <1>1, <1>2 DEF Row
<1>8. status \in {state, rows[i].status}
  OBVIOUS
<1> HIDE DEF status, fill
<1>9. /\ new \in Row /\ new.side = rows[i].side /\ new.qty = rows[i].qty
      /\ new.status = status /\ new.fill = fill
  BY <1>2, <1>6 DEF Row
<1> HIDE DEF new
<1>10. rows \in Seq(Row)
  BY DEF TypeOK
<1>11. /\ rows' \in Seq(Row) /\ Len(rows') = Len(rows) /\ rows'[i] = new
       /\ \A j \in DOMAIN rows : j # i => rows'[j] = rows[j]
  BY <1>1, <1>5, <1>9, <1>10, ExceptSeq
<1>12. QED
  BY <1>1, <1>7, <1>8, <1>9, <1>11

\* What every step keeps of the orders and the rows.
Keeps ==
  /\ orders' \in Seq(Order) /\ rows' \in Seq(Row)
  /\ Len(rows') = Len(orders') /\ Len(orders) <= Len(orders')
  /\ \A i \in DOMAIN orders :
       /\ orders[i].state \in Terminal => orders'[i].state = orders[i].state
       /\ rows[i].fill => rows'[i].fill
  /\ \A i \in DOMAIN orders' : orders'[i].filled <= orders'[i].qty
  /\ Matched'

\* Placing an order keeps what is known of the earlier ones.
LEMMA KeepsPlaced ==
  ASSUME Inv, NEW side \in Sides, NEW n \in Nat \ {0}, Place(side, n)
  PROVE  Keeps
<1>1. /\ orders' \in Seq(Order) /\ rows' \in Seq(Row)
      /\ Len(orders') = Len(orders) + 1 /\ Len(rows') = Len(orders')
      /\ \A i \in DOMAIN orders : orders'[i] = orders[i] /\ rows'[i] = rows[i]
  BY PlacedTypes DEF Inv
<1>2. PICK s \in {"open", "rejected", "filled"}, done \in {0, n} : PlacedAs(side, n, s, done)
  BY PlacedTypes DEF Inv
<1>3. /\ \A i \in DOMAIN orders : orders[i].filled <= orders[i].qty
      /\ Matched /\ DOMAIN orders = 1..Len(orders) /\ Len(orders) \in Nat
  BY Typed DEF Inv, TypeOK
<1>4. DOMAIN orders' = 1..(Len(orders) + 1)
  BY <1>1
<1>5. ASSUME NEW i \in DOMAIN orders'
      PROVE  /\ orders'[i].filled <= orders'[i].qty
             /\ rows'[i].side = orders'[i].side /\ rows'[i].qty = orders'[i].qty
             /\ orders'[i].state = "filled" <=> orders'[i].filled = orders'[i].qty
  <2>1. CASE i \in DOMAIN orders
    BY <1>1, <1>3, <2>1 DEF Matched
  <2>2. CASE i = Len(orders')
    BY <1>2, <2>2 DEF PlacedAs
  <2>3. QED
    BY <1>1, <1>3, <1>4, <2>1, <2>2
<1>6. Matched'
  BY <1>5 DEF Matched
<1>7. Len(orders) <= Len(orders')
  BY <1>1, <1>3
<1>8. QED
  BY <1>1, <1>5, <1>6, <1>7 DEF Keeps

\* So does a fill of one share.
LEMMA KeepsFilled ==
  ASSUME Inv, NEW i \in DOMAIN orders, Fill(i)
  PROVE  Keeps
<1>1. /\ orders' \in Seq(Order) /\ Len(orders') = Len(orders)
      /\ \A j \in DOMAIN orders : j # i => orders'[j] = orders[j]
      /\ orders'[i].side = orders[i].side /\ orders'[i].qty = orders[i].qty
      /\ orders'[i].filled = orders[i].filled + 1 /\ orders[i].filled < orders[i].qty
      /\ orders'[i].state = IF orders'[i].filled = orders[i].qty THEN "filled"
                            ELSE orders[i].state
  BY FilledTypes
<1>2. orders[i].state \in Live /\ rows' = rows
  BY DEF Fill
<1>3. /\ \A j \in DOMAIN orders : orders[j].filled <= orders[j].qty
      /\ Matched /\ rows \in Seq(Row) /\ Len(rows) = Len(orders) /\ Len(orders) \in Nat
      /\ DOMAIN orders' = DOMAIN orders /\ orders[i] \in Order
  BY <1>1, Typed DEF Inv, TypeOK
<1>4. ASSUME NEW j \in DOMAIN orders'
      PROVE  /\ orders'[j].filled <= orders'[j].qty
             /\ rows'[j].side = orders'[j].side /\ rows'[j].qty = orders'[j].qty
             /\ orders'[j].state = "filled" <=> orders'[j].filled = orders'[j].qty
             /\ orders[j].state \in Terminal => orders'[j].state = orders[j].state
  <2>1. CASE j # i
    BY <1>1, <1>2, <1>3, <2>1 DEF Matched
  <2>2. CASE j = i
    BY <1>1, <1>2, <1>3, <2>2 DEF Matched, Live, Terminal, Order
  <2>3. QED
    BY <2>1, <2>2
<1>5. Matched'
  BY <1>4 DEF Matched
<1>6. QED
  BY <1>1, <1>2, <1>3, <1>4, <1>5 DEF Keeps

\* So does a cancellation or a refusal.
LEMMA KeepsChanged ==
  ASSUME Inv, NEW i \in DOMAIN orders, AskToCancel(i) \/ Cancelled(i) \/ Rejected(i)
  PROVE  Keeps
<1>0. PICK from \in Live, to \in Live \cup Terminal : to # "filled" /\ Change(i, from, to)
  BY Changes
<1>a. TypeOK /\ to \in Live \cup Terminal /\ Change(i, from, to)
  BY <1>0 DEF Inv
<1>1. /\ orders' \in Seq(Order) /\ Len(orders') = Len(orders)
      /\ \A j \in DOMAIN orders : j # i => orders'[j] = orders[j]
      /\ orders'[i].side = orders[i].side /\ orders'[i].qty = orders[i].qty
      /\ orders'[i].filled = orders[i].filled
      /\ orders[i].state = from /\ orders'[i].state = to
  BY <1>a, ChangedTypes
<1>2. rows' = rows
  BY <1>0 DEF Change
<1>3. /\ \A j \in DOMAIN orders : orders[j].filled <= orders[j].qty
      /\ Matched /\ rows \in Seq(Row) /\ Len(rows) = Len(orders) /\ Len(orders) \in Nat
      /\ DOMAIN orders' = DOMAIN orders
  BY <1>1, Typed DEF Inv, TypeOK
<1>4. ASSUME NEW j \in DOMAIN orders'
      PROVE  /\ orders'[j].filled <= orders'[j].qty
             /\ rows'[j].side = orders'[j].side /\ rows'[j].qty = orders'[j].qty
             /\ orders'[j].state = "filled" <=> orders'[j].filled = orders'[j].qty
             /\ orders[j].state \in Terminal => orders'[j].state = orders[j].state
  <2>1. CASE j # i
    BY <1>1, <1>2, <1>3, <2>1 DEF Matched
  <2>2. CASE j = i
    BY <1>0, <1>1, <1>2, <1>3, <2>2 DEF Matched, Live, Terminal
  <2>3. QED
    BY <2>1, <2>2
<1>5. Matched'
  BY <1>4 DEF Matched
<1>6. QED
  BY <1>1, <1>2, <1>3, <1>4, <1>5 DEF Keeps

\* So does the write of a refresh.
LEMMA KeepsApplied ==
  ASSUME Inv, ReadsTrue, NEW r \in Refreshers, Apply(r)
  PROVE  Keeps
<1>1. /\ rows' \in Seq(Row) /\ Len(rows') = Len(rows)
      /\ \A j \in DOMAIN rows : /\ rows'[j].side = rows[j].side /\ rows'[j].qty = rows[j].qty
                                /\ rows[j].fill => rows'[j].fill
  BY AppliedTypes DEF Inv
<1>2. orders' = orders
  BY DEF Apply, RefreshEnds
<1>3. /\ \A j \in DOMAIN orders : orders[j].filled <= orders[j].qty
      /\ Matched /\ orders \in Seq(Order) /\ Len(rows) = Len(orders) /\ Len(orders) \in Nat
      /\ DOMAIN rows = DOMAIN orders
  BY Typed DEF Inv, TypeOK
<1>4. Matched'
  BY <1>1, <1>2, <1>3 DEF Matched
<1>5. QED
  BY <1>1, <1>2, <1>3, <1>4 DEF Keeps

\* So does every step.
LEMMA KeepsStep ==
  ASSUME Inv, ReadsTrue, [Next]_vars
  PROVE  Keeps
<1>0. TypeOK /\ Matched
  BY DEF Inv
<1>1. ASSUME NEW n \in 1..MaxShares, Place("BUY", n) PROVE Keeps
  <2>1. n \in Nat \ {0}
    BY PositionAssumption
  <2>2. QED
    BY <1>1, <2>1, KeepsPlaced DEF Sides
<1>2. CASE qty \in Nat \ {0} /\ Place("SELL", qty)
  BY <1>2, KeepsPlaced DEF Sides
<1>3. CASE orders' = orders /\ rows' = rows
  <2>1. /\ orders \in Seq(Order) /\ rows \in Seq(Row) /\ Len(rows) = Len(orders)
        /\ \A j \in DOMAIN orders : orders[j].filled <= orders[j].qty
        /\ Len(orders) \in Nat
    BY <1>0, Typed DEF TypeOK
  <2>2. Matched'
    BY <1>0, <1>3 DEF Matched
  <2>3. QED
    BY <1>3, <2>1, <2>2 DEF Keeps
<1>4. CASE EvaluateFraction \/ EvaluateTarget \/ Resize \/ PriceMoves \/ UNCHANGED vars
  BY <1>3, <1>4 DEF EvaluateFraction, EvaluateTarget, EvaluateSell, Resize, PriceMoves, vars
<1>5. ASSUME NEW r \in Refreshers,
             NoAnswer(r) \/ Answer(r) \/ \E i \in DOMAIN rows : Load(r, i)
      PROVE  Keeps
  BY <1>3, <1>5 DEF NoAnswer, RefreshEnds, Answer, Load
<1>6. QED
  BY <1>0, <1>1, <1>2, <1>4, <1>5, Steps, KeepsFilled, KeepsChanged, KeepsApplied

\* A refresh that nothing happened to knows what it knew.
LEMMA ReadsKept ==
  ASSUME Inv, ReadsTrue, Keeps, NEW r \in Refreshers, ref'[r] = ref[r],
         ref[r].pc # "idle"
  PROVE  /\ ref[r].loaded.status \in Terminal => orders'[ref[r].row].state = ref[r].loaded.status
         /\ ref[r].pc = "answered" =>
              /\ ref[r].answer \in Live \cup Terminal
              /\ ref[r].answer \in Terminal => orders'[ref[r].row].state = ref[r].answer
<1>1. ref[r].row \in DOMAIN orders
  BY Typed DEF Inv, TypeOK
<1>2. orders[ref[r].row].state \in Terminal => orders'[ref[r].row].state = orders[ref[r].row].state
  BY <1>1 DEF Keeps
<1>3. QED
  BY <1>2 DEF ReadsTrue

\* What a step of a refresh leaves of the others.
LEMMA OneRefresh ==
  ASSUME TypeOK, NEW r \in Refreshers, NEW new, ref' = [ref EXCEPT ![r] = new]
  PROVE  ref'[r] = new /\ \A q \in Refreshers : q # r => ref'[q] = ref[q]
BY DEF TypeOK

\* What a refresh loaded or was answered stays true while it is under way:
\* an order that is over stays what it is.
LEMMA ReadsStep ==
  ASSUME Inv, ReadsTrue, TerminalIsTrue, [Next]_vars
  PROVE  ReadsTrue'
<1>0. Keeps /\ TypeOK
  BY KeepsStep DEF Inv
<1>1. CASE ref' = ref
  <2> SUFFICES ASSUME NEW r \in Refreshers, ref[r].pc # "idle"
               PROVE  /\ ref[r].loaded.status \in Terminal =>
                           orders'[ref[r].row].state = ref[r].loaded.status
                      /\ ref[r].pc = "answered" =>
                           /\ ref[r].answer \in Live \cup Terminal
                           /\ ref[r].answer \in Terminal => orders'[ref[r].row].state = ref[r].answer
    BY <1>1 DEF ReadsTrue
  <2>1. QED
    BY <1>0, <1>1, ReadsKept
<1>2. ASSUME NEW r \in Refreshers, NEW new, ref' = [ref EXCEPT ![r] = new],
             new.pc # "idle" /\ new.loaded.status \in Terminal =>
               orders'[new.row].state = new.loaded.status,
             new.pc = "answered" => /\ new.answer \in Live \cup Terminal
                                    /\ new.answer \in Terminal => orders'[new.row].state = new.answer
      PROVE  ReadsTrue'
  <2>1. ref'[r] = new /\ \A q \in Refreshers : q # r => ref'[q] = ref[q]
    BY <1>0, <1>2, OneRefresh
  <2>2. ASSUME NEW q \in Refreshers
        PROVE  /\ ref'[q].pc # "idle" /\ ref'[q].loaded.status \in Terminal =>
                    orders'[ref'[q].row].state = ref'[q].loaded.status
               /\ ref'[q].pc = "answered" =>
                    /\ ref'[q].answer \in Live \cup Terminal
                    /\ ref'[q].answer \in Terminal => orders'[ref'[q].row].state = ref'[q].answer
    <3>1. CASE q = r
      BY <1>2, <2>1, <3>1
    <3>2. CASE q # r /\ ref[q].pc # "idle"
      <4>1. ref'[q] = ref[q]
        BY <2>1, <3>2
      <4>2. QED
        BY <1>0, <3>2, <4>1, ReadsKept
    <3>3. CASE q # r /\ ref[q].pc = "idle"
      BY <2>1, <3>3
    <3>4. QED
      BY <3>1, <3>2, <3>3
  <2>3. QED
    BY <2>2 DEF ReadsTrue
<1>3. ASSUME NEW r \in Refreshers, RefreshEnds(r) PROVE ReadsTrue'
  <2>1. ref' = [ref EXCEPT ![r] = NoRef] /\ NoRef.pc = "idle"
    BY <1>3 DEF RefreshEnds, NoRef
  <2>2. QED
    BY <1>2, <2>1
<1>4. ASSUME NEW r \in Refreshers, NoAnswer(r) \/ Apply(r) PROVE ReadsTrue'
  BY <1>3, <1>4 DEF NoAnswer, Apply
<1>5. ASSUME NEW r \in Refreshers, Answer(r) PROVE ReadsTrue'
  <2> DEFINE answer == orders[ref[r].row].state
             new == [ref[r] EXCEPT !.pc = "answered", !.answer = answer]
  <2>1. ref[r].pc = "asking" /\ orders' = orders /\ ref' = [ref EXCEPT ![r] = new]
    BY <1>5 DEF Answer
  <2>2. ref[r].row \in DOMAIN orders /\ answer \in Live \cup Terminal
    BY <1>0, <2>1, Typed DEF TypeOK, Order
  <2>3. /\ new.pc = "answered" /\ new.row = ref[r].row /\ new.loaded = ref[r].loaded
        /\ new.answer = answer
    BY <1>0 DEF TypeOK
  <2>4. ref[r].loaded.status \in Terminal => orders[ref[r].row].state = ref[r].loaded.status
    BY <2>1 DEF ReadsTrue
  <2> HIDE DEF new
  <2>5. QED
    BY <1>2, <2>1, <2>2, <2>3, <2>4
<1>6. ASSUME NEW r \in Refreshers, NEW i \in DOMAIN rows, Load(r, i) PROVE ReadsTrue'
  <2> DEFINE new == [NoRef EXCEPT !.pc = "asking", !.row = i, !.loaded = rows[i]]
  <2>1. orders' = orders /\ ref' = [ref EXCEPT ![r] = new]
    BY <1>6 DEF Load
  <2>2. new.pc = "asking" /\ new.row = i /\ new.loaded = rows[i]
    BY DEF NoRef
  <2>3. rows[i].status \in Terminal => orders[i].state = rows[i].status
    BY DEF TerminalIsTrue
  <2> HIDE DEF new
  <2>4. QED
    BY <1>2, <2>1, <2>2, <2>3
<1>7. CASE UNCHANGED <<shares, free, orders>> /\
           (EvaluateFraction \/ EvaluateTarget \/ Resize \/ PriceMoves \/ UNCHANGED vars)
  BY <1>1, <1>7 DEF EvaluateFraction, EvaluateTarget, EvaluateSell, Resize, PriceMoves, vars
<1>8. ASSUME NEW side, NEW n, Place(side, n) PROVE ReadsTrue'
  BY <1>1, <1>8 DEF Place
<1>9. ASSUME NEW i \in DOMAIN orders,
             Fill(i) \/ AskToCancel(i) \/ Cancelled(i) \/ Rejected(i)
      PROVE  ReadsTrue'
  BY <1>1, <1>9 DEF Fill, AskToCancel, Cancelled, Rejected, Change
<1>10. QED
  BY <1>0, <1>4, <1>5, <1>6, <1>7, <1>8, <1>9, Steps

\* No refresh, however late, writes an end that its order did not come to.
LEMMA TerminalStep ==
  ASSUME Inv, ReadsTrue, TerminalIsTrue, [Next]_vars
  PROVE  TerminalIsTrue'
<1>0. Keeps /\ TypeOK /\ DOMAIN rows = DOMAIN orders
  BY KeepsStep, Typed DEF Inv
<1>1. ASSUME NEW i \in DOMAIN rows, rows'[i].status = rows[i].status, rows'[i].status \in Terminal
      PROVE  orders'[i].state = rows'[i].status
  BY <1>0, <1>1 DEF TerminalIsTrue, Keeps
<1>2. CASE rows' = rows
  BY <1>1, <1>2 DEF TerminalIsTrue
<1>3. ASSUME NEW r \in Refreshers, Apply(r) PROVE TerminalIsTrue'
  <2>1. /\ ref[r].row \in DOMAIN rows /\ Len(rows') = Len(rows) /\ rows' \in Seq(Row)
        /\ \A j \in DOMAIN rows : \/ rows'[j].status = rows[j].status
                                  \/ j = ref[r].row /\ rows'[j].status = ref[r].answer
    BY <1>0, <1>3, AppliedTypes
  <2>2. DOMAIN rows' = DOMAIN rows
    BY <1>0, <2>1 DEF TypeOK
  <2>3. orders' = orders /\ ref[r].pc = "answered"
    BY <1>3 DEF Apply, RefreshEnds
  <2>4. ref[r].answer \in Terminal => orders[ref[r].row].state = ref[r].answer
    BY <2>3 DEF ReadsTrue
  <2>5. QED
    BY <1>1, <2>1, <2>2, <2>3, <2>4 DEF TerminalIsTrue
<1>4. ASSUME NEW side \in Sides, NEW n \in Nat \ {0}, Place(side, n) PROVE TerminalIsTrue'
  <2>1. /\ orders' \in Seq(Order) /\ rows' \in Seq(Row)
        /\ Len(orders') = Len(orders) + 1 /\ Len(rows') = Len(orders')
        /\ \A i \in DOMAIN orders : orders'[i] = orders[i] /\ rows'[i] = rows[i]
    BY <1>0, <1>4, PlacedTypes
  <2>2. PICK s \in {"open", "rejected", "filled"}, done \in {0, n} : PlacedAs(side, n, s, done)
    BY <1>0, <1>4, PlacedTypes
  <2>3. rows'[Len(orders')].status = orders'[Len(orders')].state
    BY <2>2 DEF PlacedAs
  <2>4. \A i \in DOMAIN rows' : i \in DOMAIN rows \/ i = Len(orders')
    BY <1>0, <2>1 DEF TypeOK
  <2>5. QED
    BY <1>0, <1>1, <2>1, <2>3, <2>4 DEF TerminalIsTrue
<1>5. ASSUME NEW n \in 1..MaxShares, Place("BUY", n) PROVE TerminalIsTrue'
  <2>1. n \in Nat \ {0}
    BY PositionAssumption
  <2>2. QED
    BY <1>4, <1>5, <2>1 DEF Sides
<1>6. CASE qty \in Nat \ {0} /\ Place("SELL", qty)
  BY <1>4, <1>6 DEF Sides
<1>7. ASSUME NEW i \in DOMAIN orders,
             Fill(i) \/ AskToCancel(i) \/ Cancelled(i) \/ Rejected(i)
      PROVE  TerminalIsTrue'
  BY <1>2, <1>7 DEF Fill, AskToCancel, Cancelled, Rejected, Change
<1>8. CASE EvaluateFraction \/ EvaluateTarget \/ Resize \/ PriceMoves \/ UNCHANGED vars
  BY <1>2, <1>8 DEF EvaluateFraction, EvaluateTarget, EvaluateSell, Resize, PriceMoves, vars
<1>9. ASSUME NEW r \in Refreshers, NoAnswer(r) \/ Answer(r) \/ \E i \in DOMAIN rows : Load(r, i)
      PROVE  TerminalIsTrue'
  BY <1>2, <1>9 DEF NoAnswer, Answer, Load
<1>10. QED
  BY <1>0, <1>3, <1>5, <1>6, <1>7, <1>8, <1>9, Steps

-----------------------------------------------------------------------------
(***************************************************************************)
(* The worker.                                                             *)
(***************************************************************************)
\* The worker waits for the refresh it began.
Waits == ref["worker"].pc # "idle" => pc = "placed"

\* What a target asks for was computed from the position that the sell is
\* sized with, unless the worker knows that the position moved.
Aimed ==
  pc \in {"resizing", "ready"} /\ basis.same /\ signal.target # NoTarget =>
    /\ basis.held # 0 /\ basis.price # 0 /\ signal.f.num > 0
    /\ signal.f = FractionToTarget(basis.held * basis.price, signal.target)

\* A sell takes no more than its fraction of the position.
Sized == pc = "ready" => qty <= Part(basis.held, signal.f)

\* The types of the worker's variables, and what it knows of its sell.
WorkTypes ==
  /\ pc \in {"idle", "resizing", "ready", "placed"}
  /\ signal \in [f : [num : Nat, den : Nat \ {0}], target : Targets \cup {NoTarget}, explicit : BOOLEAN]
  /\ qty \in Nat /\ (pc = "ready" <=> qty # 0)
  /\ basis \in [held : Nat, price : Nat, same : BOOLEAN]
  /\ Waits /\ Aimed /\ Sized /\ (pc = "resizing" => basis.same)

\* The steps that leave the worker's variables alone, or make it idle.
LEMMA WorkKept ==
  ASSUME WorkTypes, UNCHANGED <<signal, qty, basis>>,
         pc' = pc \/ (pc # "ready" /\ pc' \in {"idle", "placed"}), Waits'
  PROVE  WorkTypes'
<1>1. CASE pc' = pc
  BY <1>1 DEF WorkTypes, Aimed, Sized
<1>2. CASE pc # "ready" /\ pc' \in {"idle", "placed"}
  BY <1>2 DEF WorkTypes, Aimed, Sized
<1>3. QED
  BY <1>1, <1>2

\* A fraction to reach a target is a fraction.
LEMMA FractionIsOne ==
  ASSUME NEW v \in Nat, NEW pct \in Nat
  PROVE  FractionToTarget(v, pct) \in [num : Nat, den : Nat \ {0}]
<1> DEFINE goal == pct * Sleeve
<1>1. goal \in Nat
  BY SizingAssumption, TimesNat
<1>2. FractionToTarget(v, pct) = IF v * 100 <= goal THEN [num |-> 0, den |-> 1]
                                 ELSE [num |-> 100 * v - goal, den |-> 100 * v]
  BY DEF FractionToTarget
<1> HIDE DEF goal
<1>3. v * 100 <= goal \/ (100 * v - goal \in Nat /\ 100 * v \in Nat \ {0})
  BY <1>1
<1>4. QED
  BY <1>2, <1>3

\* The gate aims a target at the position it sees.
LEMMA WorkEvaluates ==
  ASSUME TypeOK, WorkTypes, EvaluateFraction \/ EvaluateTarget
  PROVE  WorkTypes'
<1>1. shares \in Nat /\ price \in Nat \ {0} /\ shares * price \in Nat
  <2>1. shares \in Nat /\ price \in Nat \ {0}
    BY Typed DEF TypeOK
  <2>2. QED
    BY <2>1, TimesNat
<1>2. ASSUME NEW f \in [num : Nat, den : Nat \ {0}], NEW t \in Targets \cup {NoTarget},
             NEW e \in BOOLEAN, NEW s, s.target = t, s.explicit = e,
             s \in [f : [num : Nat, den : Nat \ {0}], target : Targets \cup {NoTarget}, explicit : BOOLEAN],
             EvaluateSell(s, f), t # NoTarget => f = FractionToTarget(shares * price, t)
      PROVE  WorkTypes'
  <2>1. /\ pc = "idle" /\ pc' = "resizing" /\ shares > 0 /\ f.num > 0
        /\ signal' = [s EXCEPT !.f = f]
        /\ basis' = [held |-> shares, price |-> price, same |-> TRUE]
        /\ qty' = qty /\ ref' = ref
    BY <1>2 DEF EvaluateSell
  <2>2. /\ signal' \in [f : [num : Nat, den : Nat \ {0}], target : Targets \cup {NoTarget}, explicit : BOOLEAN]
        /\ signal'.f = f /\ signal'.target = t
    BY <1>2, <2>1
  <2>3. basis' \in [held : Nat, price : Nat, same : BOOLEAN] /\ basis'.same
        /\ basis'.held = shares /\ basis'.price = price
    BY <1>1, <2>1
  <2>4. Waits' /\ Sized'
    BY <2>1 DEF WorkTypes, Waits, Sized
  <2>5. Aimed'
    BY <1>1, <1>2, <2>1, <2>2, <2>3 DEF Aimed
  <2>6. QED
    BY <2>1, <2>2, <2>3, <2>4, <2>5 DEF WorkTypes
<1>3. CASE EvaluateFraction
  <2>1. PICK f \in Fractions, e \in BOOLEAN :
          EvaluateSell([f |-> f, target |-> NoTarget, explicit |-> e], f)
    BY <1>3 DEF EvaluateFraction
  <2>2. f \in [num : Nat, den : Nat \ {0}]
    BY PositionAssumption
  <2> DEFINE s == [f |-> f, target |-> NoTarget, explicit |-> e]
  <2>3. /\ s \in [f : [num : Nat, den : Nat \ {0}], target : Targets \cup {NoTarget}, explicit : BOOLEAN]
        /\ s.target = NoTarget /\ s.explicit = e
    BY <2>2
  <2> HIDE DEF s
  <2>4. EvaluateSell(s, f)
    BY <2>1 DEF s
  <2>5. QED
    BY <1>2, <2>2, <2>3, <2>4
<1>4. CASE EvaluateTarget
  <2>1. PICK t \in Targets :
          EvaluateSell([f |-> Whole, target |-> t, explicit |-> TRUE],
                       FractionToTarget(shares * price, t))
    BY <1>4 DEF EvaluateTarget
  <2>2. t \in Nat
    BY PositionAssumption
  <2> DEFINE s == [f |-> Whole, target |-> t, explicit |-> TRUE]
             f == FractionToTarget(shares * price, t)
  <2>3. /\ s \in [f : [num : Nat, den : Nat \ {0}], target : Targets \cup {NoTarget}, explicit : BOOLEAN]
        /\ s.target = t /\ s.explicit = TRUE
    BY DEF Whole
  <2>4. f \in [num : Nat, den : Nat \ {0}]
    BY <1>1, <2>2, FractionIsOne
  <2>5. EvaluateSell(s, f)
    BY <2>1
  <2> HIDE DEF s
  <2>6. QED
    BY <1>2, <2>3, <2>4, <2>5
<1>5. QED
  BY <1>3, <1>4

\* The second sizing knows whether the position moved since the gate.
LEMMA WorkResizes ==
  ASSUME TypeOK, WorkTypes, Resize
  PROVE  WorkTypes'
<1> DEFINE n == SellQuantity(shares, price, signal.f, Cap)
<1>1. /\ shares \in Nat /\ price \in Nat \ {0} /\ Cap \in Nat
      /\ signal.f \in [num : Nat, den : Nat \ {0}]
  BY Typed, CapIsNat DEF TypeOK
<1>2. n \in Nat /\ n <= Part(shares, signal.f)
  BY <1>1, SellQuantityBound
<1> HIDE DEF n
<1>3. pc = "resizing" /\ ref' = ref
  BY DEF Resize
<1>4. CASE shares = 0 \/ n = NoSell
  <2>1. pc' = "idle" /\ signal' = NoSignal /\ basis' = NoBasis /\ qty' = 0
    BY <1>4 DEF Resize, n
  <2>2. NoSignal \in [f : [num : Nat, den : Nat \ {0}], target : Targets \cup {NoTarget}, explicit : BOOLEAN]
        /\ NoBasis \in [held : Nat, price : Nat, same : BOOLEAN]
    BY DEF NoSignal, NoBasis, Whole
  <2>3. Waits' /\ Aimed' /\ Sized'
    BY <1>3, <2>1 DEF WorkTypes, Waits, Aimed, Sized
  <2>4. QED
    BY <2>1, <2>2, <2>3 DEF WorkTypes
<1>5. CASE ~(shares = 0 \/ n = NoSell)
  <2> DEFINE same == basis.held = shares /\ basis.price = price
  <2>1. /\ pc' = "ready" /\ qty' = n /\ signal' = signal
        /\ basis' = [held |-> shares, price |-> price, same |-> same]
    BY <1>5 DEF Resize, n
  <2>2. /\ basis' \in [held : Nat, price : Nat, same : BOOLEAN]
        /\ basis'.held = shares /\ basis'.price = price /\ basis'.same = same
    BY <1>1, <2>1
  <2>3. qty' \in Nat /\ qty' # 0
    BY <1>2, <1>5, <2>1 DEF NoSell
  <2>4. Waits'
    BY <1>3, <2>1 DEF WorkTypes, Waits
  <2>5. Sized'
    BY <1>2, <2>1, <2>2 DEF Sized
  <2>6. Aimed'
    BY <1>3, <2>1, <2>2 DEF WorkTypes, Aimed
  <2>7. QED
    BY <2>1, <2>2, <2>3, <2>4, <2>5, <2>6 DEF WorkTypes
<1>6. QED
  BY <1>4, <1>5

\* No step breaks what the worker knows of its sell.
LEMMA WorkStep ==
  ASSUME TypeOK, WorkTypes, [Next]_vars
  PROVE  WorkTypes'
<1>1. ASSUME ref' = ref, UNCHANGED workVars PROVE WorkTypes'
  BY <1>1, WorkKept DEF workVars, WorkTypes, Waits
<1>2. CASE EvaluateFraction \/ EvaluateTarget \/ Resize
  BY <1>2, WorkEvaluates, WorkResizes
<1>3. CASE Buy
  <2>1. PICK n \in 1..MaxShares : Place("BUY", n)
    BY <1>3 DEF Buy
  <2>2. pc = "idle" /\ pc' \in {"idle", "placed"} /\ ref' = ref /\ UNCHANGED <<signal, qty, basis>>
    BY <1>3, <2>1 DEF Buy, Place, Placed
  <2>3. QED
    BY <2>2, WorkKept DEF WorkTypes, Waits
<1>4. CASE Sell
  <2>1. /\ pc = "ready" /\ pc' \in {"idle", "placed"} /\ ref' = ref
        /\ signal' = NoSignal /\ basis' = NoBasis /\ qty' = 0
    BY <1>4 DEF Sell, Place, Placed
  <2>2. NoSignal \in [f : [num : Nat, den : Nat \ {0}], target : Targets \cup {NoTarget}, explicit : BOOLEAN]
        /\ NoBasis \in [held : Nat, price : Nat, same : BOOLEAN]
    BY DEF NoSignal, NoBasis, Whole
  <2>3. Waits' /\ Aimed' /\ Sized'
    BY <2>1 DEF WorkTypes, Waits, Aimed, Sized
  <2>4. QED
    BY <2>1, <2>2, <2>3 DEF WorkTypes
<1>5. ASSUME NEW i \in DOMAIN orders,
             Fill(i) \/ AskToCancel(i) \/ Cancelled(i) \/ Rejected(i)
      PROVE  WorkTypes'
  BY <1>1, <1>5 DEF Fill, AskToCancel, Cancelled, Rejected, Change
<1>6. CASE PriceMoves \/ UNCHANGED vars
  BY <1>1, <1>6 DEF PriceMoves, vars
<1>7. ASSUME NEW r \in Refreshers, RefreshEnds(r), ref[r].pc # "idle" PROVE WorkTypes'
  <2>1. ref' = [ref EXCEPT ![r] = NoRef] /\ UNCHANGED <<signal, qty, basis>>
        /\ pc' = IF r = "worker" THEN "idle" ELSE pc
    BY <1>7 DEF RefreshEnds
  <2>2. ref'[r] = NoRef /\ \A q \in Refreshers : q # r => ref'[q] = ref[q]
    BY <2>1, OneRefresh
  <2>3. CASE r = "worker"
    <3>1. pc = "placed" /\ pc' = "idle"
      BY <1>7, <2>1, <2>3 DEF WorkTypes, Waits
    <3>2. Waits'
      BY <2>2, <2>3 DEF Waits, NoRef
    <3>3. QED
      BY <2>1, <3>1, <3>2, WorkKept
  <2>4. CASE r # "worker"
    <3>1. pc' = pc /\ ref'["worker"] = ref["worker"]
      BY <2>1, <2>2, <2>4 DEF Refreshers
    <3>2. Waits'
      BY <3>1 DEF WorkTypes, Waits
    <3>3. QED
      BY <2>1, <3>1, <3>2, WorkKept
  <2>5. QED
    BY <2>3, <2>4
<1>8. ASSUME NEW r \in Refreshers, NoAnswer(r) \/ Apply(r) PROVE WorkTypes'
  BY <1>7, <1>8 DEF NoAnswer, Apply
<1>9. ASSUME NEW r \in Refreshers, Answer(r) \/ \E i \in DOMAIN rows : Load(r, i)
      PROVE  WorkTypes'
  <2>1. \E new : ref' = [ref EXCEPT ![r] = new]
    BY <1>9 DEF Answer, Load
  <2>2. \A q \in Refreshers : q # r => ref'[q] = ref[q]
    BY <2>1, OneRefresh
  <2>3. UNCHANGED workVars
    BY <1>9 DEF Answer, Load
  <2>4. r = "worker" => pc = "placed"
    BY <1>9 DEF Answer, Load, WorkTypes, Waits
  <2>5. Waits'
    <3>1. CASE r = "worker"
      BY <2>3, <2>4, <3>1 DEF Waits, workVars
    <3>2. CASE r # "worker"
      BY <2>2, <2>3, <3>2 DEF WorkTypes, Waits, workVars, Refreshers
    <3>3. QED
      BY <3>1, <3>2
  <2>6. QED
    BY <2>3, <2>5, WorkKept DEF workVars
<1>10. QED
  BY <1>2, <1>3, <1>4, <1>5, <1>6, <1>8, <1>9 DEF Next, Worker, Broker, Refresh

-----------------------------------------------------------------------------
(***************************************************************************)
(* The inductive invariant.                                                *)
(***************************************************************************)
Refresher == [pc : {"idle", "asking", "answered"}, row : Nat, loaded : Row \cup {<<>>},
              answer : Live \cup Terminal \cup {"none"}]

\* What the refreshers hold, by type.
RefTypes ==
  /\ ref \in [Refreshers -> Refresher]
  /\ \A r \in Refreshers : ref[r].pc # "idle" => ref[r].row \in DOMAIN rows /\ ref[r].loaded \in Row
  /\ refreshes \in 0..MaxRefresh

\* No step breaks the types of the refreshers.
LEMMA RefStep ==
  ASSUME Inv, ReadsTrue, [Next]_vars
  PROVE  RefTypes'
<1>0. /\ RefTypes /\ TypeOK /\ Keeps
      /\ \A i \in DOMAIN orders : orders[i] \in Order
      /\ \A i \in DOMAIN rows : rows[i] \in Row
      /\ DOMAIN rows = DOMAIN orders
  BY KeepsStep, Typed DEF Inv, TypeOK, RefTypes, Refresher
<1>1. DOMAIN rows \subseteq DOMAIN rows'
  BY <1>0 DEF TypeOK, Keeps
<1>2. CASE ref' = ref /\ refreshes' = refreshes
  BY <1>0, <1>1, <1>2 DEF RefTypes
<1>3. ASSUME NEW r \in Refreshers, NEW new \in Refresher, ref' = [ref EXCEPT ![r] = new],
             new.pc # "idle" => new.row \in DOMAIN rows /\ new.loaded \in Row,
             refreshes' \in 0..MaxRefresh
      PROVE  RefTypes'
  <2>1. ref'[r] = new /\ \A q \in Refreshers : q # r => ref'[q] = ref[q]
    BY <1>0, <1>3, OneRefresh
  <2>2. ref' \in [Refreshers -> Refresher]
    BY <1>0, <1>3 DEF RefTypes
  <2>3. ASSUME NEW q \in Refreshers, ref'[q].pc # "idle"
        PROVE  ref'[q].row \in DOMAIN rows /\ ref'[q].loaded \in Row
    BY <1>0, <1>3, <2>1, <2>3 DEF RefTypes
  <2>4. QED
    BY <1>1, <1>3, <2>2, <2>3 DEF RefTypes
<1>4. ASSUME NEW r \in Refreshers, RefreshEnds(r) PROVE RefTypes'
  <2>1. /\ ref' = [ref EXCEPT ![r] = NoRef] /\ refreshes' = refreshes
        /\ NoRef \in Refresher /\ NoRef.pc = "idle"
    BY <1>4 DEF RefreshEnds, NoRef, Refresher
  <2>2. QED
    BY <1>0, <1>3, <2>1 DEF RefTypes
<1>5. ASSUME NEW r \in Refreshers, Answer(r) PROVE RefTypes'
  <2> DEFINE answer == orders[ref[r].row].state
             new == [ref[r] EXCEPT !.pc = "answered", !.answer = answer]
  <2>1. ref[r].pc = "asking" /\ refreshes' = refreshes /\ ref' = [ref EXCEPT ![r] = new]
    BY <1>5 DEF Answer
  <2>2. /\ ref[r].row \in DOMAIN rows /\ ref[r].loaded \in Row
        /\ answer \in Live \cup Terminal /\ ref[r] \in Refresher
    BY <1>0, <2>1 DEF RefTypes, Order
  <2> HIDE DEF answer
  <2>3. new \in Refresher /\ new.row = ref[r].row /\ new.loaded = ref[r].loaded
    BY <2>2 DEF Refresher
  <2> HIDE DEF new
  <2>4. QED
    BY <1>0, <1>3, <2>1, <2>2, <2>3 DEF RefTypes
<1>6. ASSUME NEW r \in Refreshers, NEW i \in DOMAIN rows, Load(r, i) PROVE RefTypes'
  <2> DEFINE new == [NoRef EXCEPT !.pc = "asking", !.row = i, !.loaded = rows[i]]
  <2>1. ref' = [ref EXCEPT ![r] = new] /\ refreshes' \in 0..MaxRefresh
    <3>1. refreshes \in 0..MaxRefresh /\ MaxRefresh \in Nat
      BY <1>0, PositionAssumption DEF RefTypes
    <3>2. ref' = [ref EXCEPT ![r] = new]
          /\ (refreshes' = refreshes \/ (refreshes < MaxRefresh /\ refreshes' = refreshes + 1))
      BY <1>6 DEF Load
    <3>3. QED
      BY <3>1, <3>2
  <2>2. i \in Nat /\ rows[i] \in Row
    BY <1>0, Typed
  <2>3. new \in Refresher /\ new.row = i /\ new.loaded = rows[i]
    BY <2>2 DEF NoRef, Refresher
  <2> HIDE DEF new
  <2>4. QED
    BY <1>3, <2>1, <2>2, <2>3
<1>7. CASE EvaluateFraction \/ EvaluateTarget \/ Resize \/ PriceMoves \/ UNCHANGED vars
  BY <1>2, <1>7 DEF EvaluateFraction, EvaluateTarget, EvaluateSell, Resize, PriceMoves, vars
<1>8. ASSUME NEW side, NEW n, Place(side, n) PROVE RefTypes'
  BY <1>2, <1>8 DEF Place
<1>9. ASSUME NEW i \in DOMAIN orders,
             Fill(i) \/ AskToCancel(i) \/ Cancelled(i) \/ Rejected(i)
      PROVE  RefTypes'
  BY <1>2, <1>9 DEF Fill, AskToCancel, Cancelled, Rejected, Change
<1>10. QED
  BY <1>0, <1>4, <1>5, <1>6, <1>7, <1>8, <1>9, Steps DEF NoAnswer, Apply

\* The inductive invariant.
IInv == Inv /\ ReadsTrue /\ TerminalIsTrue /\ WorkTypes

\* The invariant is inductive.
LEMMA InvStep == IInv /\ [Next]_vars => IInv'
<1> SUFFICES ASSUME IInv, [Next]_vars PROVE IInv'
  OBVIOUS
<1>1. Inv /\ ReadsTrue /\ TerminalIsTrue /\ WorkTypes /\ TypeOK
  BY DEF IInv, Inv
<1>2. ReadsTrue' /\ TerminalIsTrue' /\ WorkTypes' /\ Keeps /\ RefTypes' /\ Booked'
  BY <1>1, ReadsStep, TerminalStep, WorkStep, KeepsStep, RefStep, BookedStep
<1>3. orders' \in Seq(Order) /\ Matched'
  BY <1>2 DEF Keeps
<1>4. free' \in Nat /\ shares' \in Nat
  <2>1. PICK had, due : /\ Sums(Len(orders'), Gains', had) /\ Sums(Len(orders'), Rests', due)
                        /\ free' = had[Len(orders')] /\ shares' = free' + due[Len(orders')]
    BY <1>2 DEF Booked
  <2>2. Len(orders') \in Nat
    BY <1>3
  <2>3. had[Len(orders')] \in Nat /\ due[Len(orders')] \in Nat
    BY <2>1, <2>2 DEF Sums
  <2>4. QED
    BY <2>1, <2>3
<1>5. price' \in Prices
  <2>1. price \in Prices
    BY <1>1 DEF TypeOK
  <2>2. price' = price \/ price' \in Prices
    BY DEF Next, Worker, Broker, Refresh, Buy, Sell, Place, EvaluateFraction, EvaluateTarget,
           EvaluateSell, Resize, PriceMoves, Fill, AskToCancel, Cancelled, Rejected, Change,
           NoAnswer, Answer, Apply, Load, RefreshEnds, vars
  <2>3. QED
    BY <2>1, <2>2
<1>6. TypeOK'
  BY <1>2, <1>4, <1>5 DEF TypeOK, Keeps, WorkTypes, RefTypes, Refresher
<1>7. QED
  BY <1>2, <1>3, <1>6 DEF IInv, Inv

\* It holds before anything was traded.
LEMMA InvInit == Init => IInv
<1> SUFFICES ASSUME Init PROVE IInv
  OBVIOUS
<1>1. /\ price \in Prices /\ shares = 0 /\ free = 0 /\ orders = <<>> /\ rows = <<>>
      /\ pc = "idle" /\ signal = NoSignal /\ qty = 0 /\ basis = NoBasis
      /\ ref = [r \in Refreshers |-> NoRef] /\ refreshes = 0
  BY DEF Init
<1>2. Len(orders) = 0 /\ DOMAIN orders = {}
  BY <1>1
<1>3. Booked
  <2> DEFINE h == [k \in 0..0 |-> 0]
  <2>1. h \in [0..0 -> Nat] /\ h[0] = 0
    OBVIOUS
  <2> HIDE DEF h
  <2>2. \A g : Sums(0, g, h)
    BY <2>1 DEF Sums
  <2>3. QED
    BY <1>1, <1>2, <2>1, <2>2 DEF Booked
<1>4. Matched
  BY <1>2 DEF Matched
<1>5. \A r \in Refreshers : ref[r] = NoRef
  BY <1>1
<1>6. NoRef \in Refresher /\ NoRef.pc = "idle"
  BY DEF NoRef, Refresher
<1>7. ReadsTrue /\ TerminalIsTrue
  BY <1>1, <1>5, <1>6 DEF ReadsTrue, TerminalIsTrue
<1>8. RefTypes
  <2>1. ref \in [Refreshers -> Refresher]
    BY <1>1, <1>6
  <2>2. QED
    BY <1>1, <1>5, <1>6, <2>1, PositionAssumption DEF RefTypes
<1>9. WorkTypes
  <2>1. NoSignal \in [f : [num : Nat, den : Nat \ {0}], target : Targets \cup {NoTarget}, explicit : BOOLEAN]
        /\ NoBasis \in [held : Nat, price : Nat, same : BOOLEAN]
    BY DEF NoSignal, NoBasis, Whole
  <2>2. Waits
    BY <1>5, <1>6 DEF Waits, Refreshers
  <2>3. QED
    BY <1>1, <2>1, <2>2 DEF WorkTypes, Aimed, Sized
<1>10. TypeOK
  BY <1>1, <1>2, <1>8, <1>9 DEF TypeOK, WorkTypes, RefTypes, Refresher
<1>11. QED
  BY <1>3, <1>4, <1>7, <1>9, <1>10 DEF IInv, Inv

\* The invariant holds in every behaviour.
LEMMA PositionInvariant == Spec => []IInv
<1>1. QED
  BY InvInit, InvStep, PTL DEF Spec

\* Every variable has its type: no sequence of fills, cancellations, refusals,
\* price moves and refreshes makes the account oversold or an order overfilled.
THEOREM PositionTypes == Spec => []TypeOK
<1>1. IInv => TypeOK
  BY DEF IInv, Inv
<1>2. QED
  BY <1>1, PositionInvariant, PTL

\* A row that says an order is over tells the truth (TradeStatusSync.refresh,
\* with overlapping refreshes whose answers come late).
THEOREM TerminalRowsAreTrue == Spec => []TerminalIsTrue
<1>1. IInv => TerminalIsTrue
  BY DEF IInv
<1>2. QED
  BY <1>1, PositionInvariant, PTL

\* A recorded fill price outlives every refresh that began before it.
THEOREM FillsAreKept == Spec => FillKept
<1>1. IInv /\ [Next]_vars => [\A i \in DOMAIN rows : rows[i].fill => rows'[i].fill]_vars
  BY KeepsStep, Typed DEF IInv, Inv, Keeps
<1>2. QED
  BY <1>1, PositionInvariant, PTL DEF Spec, FillKept

\* A sell that trims down to a target leaves the target, whatever the prices,
\* the sleeve, the cap and the minimum are (resolve_sell_order).
THEOREM TrimsStopAtTheirTarget == Spec => []TrimStopsAtTarget
<1>1. IInv => TrimStopsAtTarget
  <2> SUFFICES ASSUME IInv, pc = "ready", basis.same, signal.target # NoTarget
               PROVE  (basis.held - qty) * basis.price * 100 >= signal.target * Sleeve
    BY DEF TrimStopsAtTarget
  <2>1. /\ qty \in Nat /\ signal.target \in Targets
        /\ basis.held \in Nat /\ basis.price \in Nat
    BY DEF IInv, WorkTypes
  <2>2. /\ basis.held # 0 /\ basis.price # 0 /\ signal.f.num > 0
        /\ signal.f = FractionToTarget(basis.held * basis.price, signal.target)
        /\ qty <= Part(basis.held, signal.f)
    BY DEF IInv, WorkTypes, Aimed, Sized
  <2>3. signal.target \in Nat
    <3>1. \A t \in Targets : t \in Nat
      BY PositionAssumption
    <3>2. QED
      BY <2>1, <3>1
  <2>4. QED
    BY <2>1, <2>2, <2>3, TargetLeft
<1>2. QED
  BY <1>1, PositionInvariant, PTL

\* "It can never exceed the shares currently owned": a sell that is about to
\* be placed fits the position that it was sized from, whatever fraction a
\* tweet names (resolve_sell_order).
SellsFit == pc = "ready" => qty <= basis.held

\* No sell is of more shares than the position it was sized from.
THEOREM SellsFitThePosition == Spec => []SellsFit
<1>1. IInv => SellsFit
  <2> SUFFICES ASSUME IInv, pc = "ready" PROVE qty <= basis.held
    BY DEF SellsFit
  <2>1. /\ qty \in Nat /\ basis.held \in Nat
        /\ signal.f \in [num : Nat, den : Nat \ {0}]
    BY DEF IInv, WorkTypes
  <2>2. qty <= Part(basis.held, signal.f) /\ Part(basis.held, signal.f) \in Nat
    BY <2>1, SellQuantityBound, CapIsNat DEF IInv, WorkTypes, Sized
  <2>3. QED
    BY <2>1, <2>2, PartFits
<1>2. QED
  BY <1>1, PositionInvariant, PTL

-----------------------------------------------------------------------------
(***************************************************************************)
(* The ledger.                                                             *)
(***************************************************************************)
\* What the ledger makes of row n, from what was held before it.
After(n, before) ==
  IF ~Counts(rows[n]) THEN before
  ELSE IF rows[n].side = "BUY" THEN before + rows[n].qty
       ELSE before - Least(rows[n].qty, before)

\* h[k] is what the ledger holds after k of the first n rows.
Ledger(n, h) ==
  /\ h = [k \in 0..n |-> h[k]] /\ h[0] = 0
  /\ \A k \in 1..n : h[k] = After(k, h[k - 1])

\* The ledger of one row more.
LEMMA LedgerGrows ==
  ASSUME NEW n \in Nat, NEW h, Ledger(n, h)
  PROVE  \E g : Ledger(n + 1, g)
<1> DEFINE g == [k \in 0..(n + 1) |-> IF k <= n THEN h[k] ELSE After(n + 1, h[n])]
<1>1. g[0] = 0 /\ g = [k \in 0..(n + 1) |-> g[k]]
  BY DEF Ledger
<1>2. ASSUME NEW k \in 1..(n + 1) PROVE g[k] = After(k, g[k - 1])
  <2>1. CASE k = n + 1
    <3>1. g[k] = After(n + 1, h[n]) /\ g[k - 1] = h[n]
      BY <2>1
    <3>2. QED
      BY <2>1, <3>1
  <2>2. CASE k \in 1..n
    <3>1. g[k] = h[k] /\ g[k - 1] = h[k - 1]
      BY <2>2
    <3>2. h[k] = After(k, h[k - 1])
      BY <2>2 DEF Ledger
    <3>3. QED
      BY <3>1, <3>2
  <2>3. QED
    BY <2>1, <2>2
<1> HIDE DEF g
<1>3. QED
  BY <1>1, <1>2 DEF Ledger

\* Any number of rows has a ledger.
LEMMA LedgerExists == \A n \in Nat : \E h : Ledger(n, h)
<1> DEFINE S == {n \in Nat : \E h : Ledger(n, h)}
<1>1. 0 \in S
  <2> DEFINE h == [k \in 0..0 |-> 0]
  <2>1. h[0] = 0 /\ h = [k \in 0..0 |-> h[k]]
    OBVIOUS
  <2> HIDE DEF h
  <2>2. Ledger(0, h)
    BY <2>1 DEF Ledger
  <2>3. QED
    BY <2>2
<1>2. \A n \in S : n + 1 \in S
  BY LedgerGrows
<1>3. S \in SUBSET Nat
  OBVIOUS
<1> HIDE DEF S
<1>4. \A n \in Nat : n \in S
  BY <1>1, <1>2, <1>3, Induction
<1>5. QED
  BY <1>4 DEF S

\* Two ledgers agree on the rows that both count.
LEMMA LedgerIsUnique ==
  ASSUME NEW n \in Nat, NEW m \in Nat, NEW g, NEW h, Ledger(n, g), Ledger(m, h),
         NEW k \in 0..n, k <= m
  PROVE  g[k] = h[k]
<1> DEFINE S == {j \in Nat : j <= n /\ j <= m => g[j] = h[j]}
<1>1. 0 \in S
  BY DEF Ledger
<1>2. ASSUME NEW j \in S PROVE j + 1 \in S
  <2> SUFFICES ASSUME j + 1 <= n, j + 1 <= m PROVE g[j + 1] = h[j + 1]
    OBVIOUS
  <2>1. j \in Nat /\ j + 1 \in 1..n /\ j + 1 \in 1..m /\ (j + 1) - 1 = j
    OBVIOUS
  <2>2. g[j] = h[j]
    BY <2>1
  <2>3. g[j + 1] = After(j + 1, g[(j + 1) - 1]) /\ h[j + 1] = After(j + 1, h[(j + 1) - 1])
    BY <2>1 DEF Ledger
  <2>4. QED
    BY <2>1, <2>2, <2>3
<1>3. S \in SUBSET Nat /\ \A j \in S : j + 1 \in S
  BY <1>2
<1> HIDE DEF S
<1>4. k \in S
  BY <1>1, <1>3, Induction
<1>5. QED
  BY <1>4 DEF S

\* The recursion of the ledger has a solution: SharesHeld is one.
LEMMA HeldIsRecursive ==
  /\ SharesHeld[0] = 0
  /\ \A n \in Nat \ {0} : SharesHeld[n] = After(n, SharesHeld[n - 1])
<1> DEFINE L(n) == CHOOSE h : Ledger(n, h)
           f == [n \in Nat |-> L(n)[n]]
<1>1. \A n \in Nat : Ledger(n, L(n))
  BY LedgerExists
<1>2. f[0] = 0
  BY <1>1 DEF Ledger
<1>3. ASSUME NEW n \in Nat \ {0} PROVE f[n] = After(n, f[n - 1])
  <2> DEFINE a == L(n)  b == L(n - 1)
  <2>1. n \in Nat /\ n - 1 \in Nat /\ n - 1 \in 0..n /\ n \in 1..n /\ n - 1 <= n - 1
    OBVIOUS
  <2>2. Ledger(n, a) /\ Ledger(n - 1, b)
    BY <1>1, <2>1
  <2>3. f[n] = a[n] /\ f[n - 1] = b[n - 1]
    BY <2>1
  <2> HIDE DEF a, b, f
  <2>4. a[n - 1] = b[n - 1]
    BY <2>1, <2>2, LedgerIsUnique
  <2>5. a[n] = After(n, a[n - 1])
    BY <2>1, <2>2 DEF Ledger
  <2>6. QED
    BY <2>3, <2>4, <2>5
<1> DEFINE Solves(h) ==
      h = [n \in Nat |->
             IF n = 0 THEN 0
             ELSE IF ~Counts(rows[n]) THEN h[n - 1]
                  ELSE IF rows[n].side = "BUY" THEN h[n - 1] + rows[n].qty
                       ELSE h[n - 1] - Least(rows[n].qty, h[n - 1])]
<1>4. Solves(f)
  <2>1. f = [n \in Nat |-> f[n]]
    OBVIOUS
  <2> HIDE DEF f
  <2>2. \A n \in Nat : f[n] = IF n = 0 THEN 0
                              ELSE IF ~Counts(rows[n]) THEN f[n - 1]
                                   ELSE IF rows[n].side = "BUY" THEN f[n - 1] + rows[n].qty
                                        ELSE f[n - 1] - Least(rows[n].qty, f[n - 1])
    BY <1>2, <1>3 DEF After
  <2>3. QED
    BY <2>1, <2>2
<1> HIDE DEF f
<1>5. SharesHeld = CHOOSE h : Solves(h)
  BY DEF SharesHeld
<1>6. Solves(SharesHeld)
  <2> HIDE DEF Solves
  <2>1. QED
    BY <1>4, <1>5
<1>7. QED
  BY <1>6 DEF After

\* When every order is over, the ledger holds what the orders added up to.
LEMMA LedgerIsBooked ==
  ASSUME Inv, Settled, NEW had, Sums(Len(orders), Gains, had), NEW k \in 0..Len(orders)
  PROVE  SharesHeld[k] = had[k]
<1> DEFINE n == Len(orders)
           S == {j \in Nat : j <= n => SharesHeld[j] = had[j]}
<1>1. had \in [0..n -> Nat] /\ had[0] = 0 /\ n \in Nat
  BY Numbers DEF Sums
<1>2. 0 \in S
  BY <1>1, HeldIsRecursive
<1>3. ASSUME NEW j \in S PROVE j + 1 \in S
  <2> SUFFICES ASSUME j + 1 <= n PROVE SharesHeld[j + 1] = had[j + 1]
    OBVIOUS
  <2> DEFINE i == j + 1
             o == orders[i]
             before == had[j]
  <2>1. j \in Nat /\ i \in 1..n /\ i - 1 = j /\ i \in Nat \ {0}
    OBVIOUS
  <2>2. SharesHeld[j] = before
    BY <2>1
  <2>3. SharesHeld[i] = After(i, before)
    BY <2>1, <2>2, HeldIsRecursive
  <2>4. had[i] = before + Gain(o) /\ before \in Nat /\ had[i] \in Nat
    <3>1. had[i] = had[i - 1] + Gains[i]
      BY <2>1 DEF Sums
    <3>2. Gains[i] = Gain(o)
      BY <2>1, Numbers DEF Gains
    <3>3. QED
      BY <1>1, <2>1, <3>1, <3>2
  <2>5. i \in DOMAIN orders
    BY <2>1, Numbers
  <2>6. /\ o \in Order /\ o.state \in Terminal /\ rows[i].status = o.state
        /\ rows[i].side = o.side /\ rows[i].qty = o.qty
        /\ o.filled \in {0, o.qty} /\ (o.state = "filled" <=> o.filled = o.qty)
    BY <2>5, Typed DEF Inv, Matched, Settled
  <2> HIDE DEF n, S, o, before, i
  <2>7. CASE o.state = "filled"
    <3>1. Counts(rows[i]) /\ o.filled = o.qty /\ o.qty \in Nat
      BY <2>6, <2>7 DEF Counts, Order
    <3>2. CASE o.side = "BUY"
      <4>1. Gain(o) = o.qty
        BY <3>1, <3>2 DEF Gain
      <4>2. After(i, before) = before + o.qty
        BY <2>6, <3>1, <3>2 DEF After
      <4>3. QED
        BY <2>3, <2>4, <4>1, <4>2 DEF i
    <3>3. CASE o.side = "SELL"
      <4>1. Gain(o) = -o.qty
        BY <2>7, <3>1, <3>3 DEF Gain, Live
      <4>2. After(i, before) = before - Least(o.qty, before)
        BY <2>6, <3>1, <3>3 DEF After
      <4>3. Least(o.qty, before) = o.qty
        BY <2>4, <3>1, <4>1 DEF Least
      <4>4. QED
        BY <2>3, <2>4, <3>1, <4>1, <4>2, <4>3 DEF i
    <3>4. QED
      BY <2>6, <3>2, <3>3 DEF Order, Sides
  <2>8. CASE o.state # "filled"
    <3>1. ~Counts(rows[i]) /\ o.filled = 0
      BY <2>6, <2>8 DEF Counts, Terminal
    <3>2. Gain(o) = 0
      <4>1. o.state \notin Live
        BY <2>6 DEF Live, Terminal
      <4>2. Gain(o) \in {o.filled, -o.filled}
        BY <4>1 DEF Gain
      <4>3. QED
        BY <3>1, <4>2
    <3>3. After(i, before) = before
      BY <3>1 DEF After
    <3>4. QED
      BY <2>3, <2>4, <3>2, <3>3 DEF i
  <2>9. QED
    BY <2>7, <2>8
<1>4. S \in SUBSET Nat /\ \A j \in S : j + 1 \in S
  BY <1>3
<1>5. k \in Nat /\ k <= n
  BY <1>1
<1> HIDE DEF S, n
<1>6. k \in S
  BY <1>2, <1>4, <1>5, Induction
<1>7. QED
  BY <1>5, <1>6 DEF S

\* When every order is over, no sell has anything left to take.
LEMMA NothingIsDue ==
  ASSUME Inv, Settled, NEW due, Sums(Len(orders), Rests, due), NEW k \in 0..Len(orders)
  PROVE  due[k] = 0
<1> DEFINE n == Len(orders)
           S == {j \in Nat : j <= n => due[j] = 0}
<1>1. due[0] = 0 /\ n \in Nat
  BY Numbers DEF Sums
<1>2. ASSUME NEW j \in S PROVE j + 1 \in S
  <2> SUFFICES ASSUME j + 1 <= n PROVE due[j + 1] = 0
    OBVIOUS
  <2>1. j \in Nat /\ j + 1 \in 1..n /\ (j + 1) - 1 = j /\ j + 1 \in DOMAIN orders
    BY <1>1, Numbers
  <2>2. due[j] = 0
    BY <2>1
  <2>3. due[j + 1] = due[(j + 1) - 1] + Rests[j + 1]
    BY <2>1 DEF Sums
  <2>4. Rests[j + 1] = 0
    BY <2>1 DEF Rests, Rest, Settled, Live, Terminal
  <2>5. QED
    BY <2>1, <2>2, <2>3, <2>4
<1>3. S \in SUBSET Nat /\ 0 \in S /\ \A j \in S : j + 1 \in S
  BY <1>1, <1>2
<1>4. k \in Nat /\ k <= n
  BY <1>1
<1> HIDE DEF S, n
<1>5. k \in S
  BY <1>3, <1>4, Induction
<1>6. QED
  BY <1>4, <1>5 DEF S

\* Once every order is over and every row says so, the ledger
\* (build_portfolio_ledger) holds the shares that the account does.
THEOREM LedgerHoldsTheShares == Spec => []LedgerAgrees
<1>1. IInv => LedgerAgrees
  <2> SUFFICES ASSUME IInv, Settled PROVE SharesHeld[Len(rows)] = shares
    BY DEF LedgerAgrees
  <2> DEFINE n == Len(orders)
  <2>1. Inv /\ Len(rows) = n /\ n \in Nat /\ n \in 0..n
    BY Typed DEF IInv, Inv, TypeOK
  <2>2. PICK had, due : /\ Sums(n, Gains, had) /\ Sums(n, Rests, due)
                        /\ free = had[n] /\ shares = free + due[n]
    BY <2>1 DEF Inv, Booked
  <2>3. SharesHeld[n] = had[n]
    BY <2>1, <2>2, LedgerIsBooked
  <2>4. due[n] = 0
    BY <2>1, <2>2, NothingIsDue
  <2>5. had[n] \in Nat
    BY <2>1, <2>2 DEF Sums
  <2>6. QED
    BY <2>1, <2>2, <2>3, <2>4, <2>5
<1>2. QED
  BY <1>1, PositionInvariant, PTL
=============================================================================
