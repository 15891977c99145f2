--------------------------- MODULE PaperAccountProofs ---------------------------
(***************************************************************************)
(* A position row after a fill: its signed quantity has moved by the       *)
(* fill's, it has an average price exactly while it is open, the average   *)
(* lies between the prices it is made of, and realized PnL less the cost   *)
(* of the position has moved by the fill's money, for every row, quantity  *)
(* and price.                                                              *)
(***************************************************************************)
EXTENDS PaperAccount, TLAPS

\* A row as fills leave it: open exactly while it has an average.
GoodRow(row) ==
  /\ row \in Rows
  /\ row.side = "none" => row.quantity = 0
  /\ row.quantity > 0 <=> row.avg_entry_price > 0

GoodFill(fill) ==
  fill \in [side : Sides, quantity : Nat \ {0}, price : Nat \ {0}]

\* A row without quantity is no position, whatever side it kept.
LEMMA NetOfEmpty ==
  ASSUME NEW row, GoodRow(row), row.quantity = 0
  PROVE  Net(row) = 0
<1>1. \A m, n \in Int : m = -n /\ n <= 0 /\ n >= 0 => m = 0
  OBVIOUS
<1>2. CASE row.side = "buy"
  BY <1>2 DEF Net, _signed_qty
<1>3. CASE row.side # "buy"
  <2>1. Net(row) = -row.quantity
    BY <1>3 DEF Net, _signed_qty
  <2>2. row.quantity \in Int /\ row.quantity <= 0 /\ row.quantity >= 0
    BY DEF GoodRow, Rows
  <2>3. Net(row) \in Int
    BY <2>1, <2>2
  <2> QED
    BY <1>1, <2>1, <2>2, <2>3
<1> QED
  BY <1>2, <1>3

\* What an average is divided by never exceeds what is divided.
LEMMA QuotientPositive ==
  ASSUME NEW n \in Nat, NEW d \in Nat, d > 0, n >= d
  PROVE  n \div d \in Nat /\ n \div d > 0
  OBVIOUS

(* The average of an open row after a fill is a price                       *)
(* (position_tracker.py:66-78).                                             *)
LEMMA AverageIsPrice ==
  ASSUME NEW row, GoodRow(row), NEW fill, GoodFill(fill)
  PROVE  WeightedAverage(row, fill) \in Nat /\ WeightedAverage(row, fill) > 0
<1> DEFINE n == row.quantity * row.avg_entry_price + fill.quantity * fill.price
           d == row.quantity + fill.quantity
<1>1. /\ row.quantity \in Nat /\ row.avg_entry_price \in Nat
      /\ fill.quantity \in Nat /\ fill.quantity > 0 /\ fill.price \in Nat /\ fill.price > 0
      /\ row.quantity > 0 => row.avg_entry_price > 0
  BY DEF GoodRow, GoodFill, Rows
<1>2. \A x, y \in Nat : y > 0 => x * y \in Nat /\ x * y >= x
  OBVIOUS
<1>3. fill.quantity * fill.price \in Nat /\ fill.quantity * fill.price >= fill.quantity
  BY <1>1, <1>2
<1>4. row.quantity * row.avg_entry_price \in Nat
      /\ row.quantity * row.avg_entry_price >= row.quantity
  <2>1. CASE row.quantity = 0
    BY <1>1, <2>1
  <2>2. CASE row.quantity > 0
    BY <1>1, <1>2, <2>2
  <2> QED
    BY <1>1, <2>1, <2>2
<1>5. n \in Nat /\ d \in Nat /\ d > 0 /\ n >= d
  BY <1>1, <1>3, <1>4
<1> HIDE DEF n, d
<1>6. n \div d \in Nat /\ n \div d > 0
  BY <1>5, QuotientPositive
<1> QED
  BY <1>6 DEF WeightedAverage, n, d

(* An average lies between the prices it is made of, for every pair of      *)
(* quantities (position_tracker.py:66-78).                                  *)
LEMMA AverageIsBetween ==
  ASSUME NEW row, GoodRow(row), NEW fill, GoodFill(fill), NEW low \in Nat, NEW high \in Nat,
         low <= fill.price, fill.price <= high,
         row.quantity > 0 => low <= row.avg_entry_price /\ row.avg_entry_price <= high
  PROVE  low <= WeightedAverage(row, fill) /\ WeightedAverage(row, fill) <= high
<1> DEFINE Q == row.quantity
           q == fill.quantity
           A == row.avg_entry_price
           p == fill.price
<1>1. Q \in Nat /\ q \in Nat /\ q > 0 /\ A \in Nat /\ p \in Nat
  BY DEF GoodRow, GoodFill, Rows
<1>2. WeightedAverage(row, fill) = (Q * A + q * p) \div (Q + q)
  BY DEF WeightedAverage
<1>3. low <= p /\ p <= high /\ (Q > 0 => low <= A /\ A <= high)
  OBVIOUS
<1> HIDE DEF Q, q, A, p
<1>4. \A k, m, n \in Nat : m <= n => k * m <= k * n
  OBVIOUS
<1>5. q * low <= q * p /\ q * p <= q * high
  BY <1>1, <1>3, <1>4
<1>6. Q * low <= Q * A /\ Q * A <= Q * high
  <2>1. CASE Q = 0
    BY <1>1, <2>1
  <2>2. CASE Q > 0
    BY <1>1, <1>3, <1>4, <2>2
  <2> QED
    BY <1>1, <2>1, <2>2
<1>7. /\ Q * low \in Nat /\ Q * A \in Nat /\ Q * high \in Nat
      /\ q * low \in Nat /\ q * p \in Nat /\ q * high \in Nat
  BY <1>1
<1> DEFINE n == Q * A + q * p
           d == Q + q
<1>8. d * low <= n /\ n <= d * high /\ n \in Nat /\ d \in Nat /\ d > 0
  <2>1. d * low = Q * low + q * low /\ d * high = Q * high + q * high
    BY <1>1
  <2>2. n \in Nat /\ d \in Nat /\ d > 0
    BY <1>1, <1>7
  <2>3. Q * low + q * low <= n /\ n <= Q * high + q * high
    BY <1>5, <1>6, <1>7
  <2> QED
    BY <2>1, <2>2, <2>3
<1>9. \A x \in Nat, y \in Nat, z \in Nat : y > 0 /\ y * z <= x => z <= x \div y
  OBVIOUS
<1>10. \A x \in Nat, y \in Nat, z \in Nat : y > 0 /\ x <= y * z => x \div y <= z
  OBVIOUS
<1> HIDE DEF n, d
<1>11. low <= n \div d /\ n \div d <= high
  BY <1>8, <1>9, <1>10
<1> QED
  BY <1>2, <1>11 DEF n, d

(* The quantity of a row moves by that of the fill, whether it opens, adds, *)
(* reduces, closes or reverses the position (position_tracker.py:22-101).   *)
THEOREM UpdateIsSum ==
  ASSUME NEW row, GoodRow(row), NEW fill, GoodFill(fill)
  PROVE  /\ GoodRow(update_position_from_fill(row, fill))
         /\ Net(update_position_from_fill(row, fill)) = Net(row) + Signed(fill)
<1> DEFINE old == Net(row)
           new == Net(row) + Signed(fill)
           after == update_position_from_fill(row, fill)
<1>1. /\ row \in Rows /\ row.side \in {"buy", "sell", "none"}
      /\ row.quantity \in Nat /\ row.avg_entry_price \in Nat
      /\ row.side = "none" => row.quantity = 0
      /\ row.quantity > 0 <=> row.avg_entry_price > 0
      /\ fill.side \in {"buy", "sell"} /\ fill.quantity \in Nat /\ fill.quantity > 0
      /\ fill.price \in Nat /\ fill.price > 0
  BY DEF GoodRow, GoodFill, Rows, Sides
<1>2. /\ old = IF row.side = "buy" THEN row.quantity ELSE -row.quantity
      /\ Signed(fill) = IF fill.side = "buy" THEN fill.quantity ELSE -fill.quantity
  BY DEF Net, Signed, _signed_qty
<1>3. ASSUME new = 0
      PROVE  GoodRow(after) /\ Net(after) = new
  <2>1. after = [row EXCEPT !.quantity = 0, !.avg_entry_price = 0]
    BY <1>3 DEF update_position_from_fill
  <2>2. after = [side |-> row.side, quantity |-> 0, avg_entry_price |-> 0]
    BY <1>1, <2>1, Zenon DEF Rows
  <2> HIDE DEF after, new
  <2>3. after \in Rows /\ after.side = row.side /\ after.quantity = 0
        /\ after.avg_entry_price = 0
    BY <1>1, <2>2 DEF Rows, Sides
  <2>4. GoodRow(after)
    BY <1>1, <2>3 DEF GoodRow
  <2> QED
    BY <1>3, <2>3, <2>4, NetOfEmpty
<1>4. ASSUME new # 0 /\ (old = 0 \/ SameDirection(old, Signed(fill)))
      PROVE  GoodRow(after) /\ Net(after) = new
  <2>1. after = [side |-> fill.side, quantity |-> Abs(new),
                 avg_entry_price |-> WeightedAverage(row, fill)]
    BY <1>4 DEF update_position_from_fill, Added
  <2>2. WeightedAverage(row, fill) \in Nat /\ WeightedAverage(row, fill) > 0
    BY AverageIsPrice
  <2>3. /\ Abs(new) \in Nat /\ Abs(new) > 0
        /\ new = IF fill.side = "buy" THEN Abs(new) ELSE -Abs(new)
    BY <1>1, <1>2, <1>4 DEF SameDirection, Abs
  <2> HIDE DEF after, new
  <2>4. after \in Rows
    BY <1>1, <2>1, <2>2, <2>3 DEF Rows, Sides
  <2>5. Net(after) = new
    BY <1>1, <2>1, <2>3 DEF Net, _signed_qty
  <2> QED
    BY <1>1, <2>1, <2>2, <2>3, <2>4, <2>5 DEF GoodRow
<1>5. ASSUME new # 0 /\ ~(old = 0 \/ SameDirection(old, Signed(fill)))
           /\ fill.quantity < row.quantity
      PROVE  GoodRow(after) /\ Net(after) = new
  <2>1. after = [row EXCEPT !.quantity = Abs(new)]
    BY <1>5 DEF update_position_from_fill
  <2>2. /\ Abs(new) \in Nat /\ Abs(new) > 0 /\ row.avg_entry_price > 0
        /\ row.side # "none"
        /\ new = IF row.side = "buy" THEN Abs(new) ELSE -Abs(new)
    BY <1>1, <1>2, <1>5 DEF SameDirection, Abs
  <2> HIDE DEF after, new
  <2>3. /\ after \in Rows /\ after.side = row.side /\ after.quantity = Abs(new)
        /\ after.avg_entry_price = row.avg_entry_price
    BY <1>1, <2>1, <2>2 DEF Rows
  <2>4. Net(after) = new
    BY <2>2, <2>3 DEF Net, _signed_qty
  <2> QED
    BY <2>2, <2>3, <2>4 DEF GoodRow
<1>6. ASSUME new # 0 /\ ~(old = 0 \/ SameDirection(old, Signed(fill)))
           /\ ~(fill.quantity < row.quantity)
      PROVE  GoodRow(after) /\ Net(after) = new
  <2>1. after = [side |-> fill.side, quantity |-> Abs(new), avg_entry_price |-> fill.price]
    BY <1>6 DEF update_position_from_fill
  <2>2. /\ Abs(new) \in Nat /\ Abs(new) > 0
        /\ new = IF fill.side = "buy" THEN Abs(new) ELSE -Abs(new)
    BY <1>1, <1>2, <1>6 DEF SameDirection, Abs
  <2> HIDE DEF after, new
  <2>3. after \in Rows
    BY <1>1, <2>1, <2>2 DEF Rows, Sides
  <2>4. Net(after) = new
    BY <1>1, <2>1, <2>2 DEF Net, _signed_qty
  <2> QED
    BY <1>1, <2>1, <2>2, <2>3, <2>4 DEF GoodRow
<1> QED
  BY <1>3, <1>4, <1>5, <1>6

(* A fill realizes a whole number of price units (pnl_calculator.py:31-60). *)
LEMMA RealizedIsInteger ==
  ASSUME NEW row, GoodRow(row), NEW fill, GoodFill(fill)
  PROVE  _compute_realized_pnl(row, fill) \in Int
<1>1. /\ row.quantity \in Nat /\ row.avg_entry_price \in Nat
      /\ fill.quantity \in Nat /\ fill.price \in Nat
  BY DEF GoodRow, GoodFill, Rows
<1>2. Lesser(row.quantity, fill.quantity) \in Int
  BY <1>1 DEF Lesser
<1>3. \A m, n, k \in Int : (m - n) * k \in Int
  OBVIOUS
<1>4. /\ (fill.price - row.avg_entry_price) * Lesser(row.quantity, fill.quantity) \in Int
      /\ (row.avg_entry_price - fill.price) * Lesser(row.quantity, fill.quantity) \in Int
  BY <1>1, <1>2, <1>3
<1> QED
  BY <1>4 DEF _compute_realized_pnl

\* An addition to an open position whose average is a whole price.
ExactAverage(row, fill) ==
  SameDirection(Net(row), Signed(fill)) =>
    (row.quantity * row.avg_entry_price + fill.quantity * fill.price)
      % (row.quantity + fill.quantity) = 0

(* What a fill realizes, less the cost of the position it leaves, has moved *)
(* by the money of the fill and by nothing else, whether it opens, adds,    *)
(* reduces, closes or reverses (pnl_calculator.py:31-60,                    *)
(* position_tracker.py:22-101).                                             *)
THEOREM FillMovesItsMoney ==
  ASSUME NEW row, GoodRow(row), NEW fill, GoodFill(fill), ExactAverage(row, fill)
  PROVE  LET after == update_position_from_fill(row, fill)
         IN _compute_realized_pnl(row, fill) - Net(after) * after.avg_entry_price
              = - (Net(row) * row.avg_entry_price) - Signed(fill) * fill.price
<1> DEFINE Q == row.quantity
           A == row.avg_entry_price
           q == fill.quantity
           p == fill.price
           old == Net(row)
           moved == Signed(fill)
           after == update_position_from_fill(row, fill)
           gain == _compute_realized_pnl(row, fill)
           Goal == gain - Net(after) * after.avg_entry_price = - (old * A) - moved * p
<1>1. /\ Q \in Nat /\ A \in Nat /\ q \in Nat /\ q > 0 /\ p \in Nat /\ p > 0
      /\ row.side \in {"buy", "sell", "none"} /\ (row.side = "none" => Q = 0)
      /\ fill.side \in {"buy", "sell"}
      /\ Q > 0 <=> A > 0
  BY DEF GoodRow, GoodFill, Rows, Sides
<1>2. /\ old = IF row.side = "buy" THEN Q ELSE -Q
      /\ moved = IF fill.side = "buy" THEN q ELSE -q
  BY DEF Net, Signed, _signed_qty
<1>3. Net(after) = old + moved /\ GoodRow(after)
  BY UpdateIsSum
<1>4. /\ gain = IF old = 0 \/ SameDirection(old, moved) THEN 0
                ELSE IF old > 0 THEN (p - A) * Lesser(Q, q)
                ELSE (A - p) * Lesser(Q, q)
      /\ after = IF old + moved = 0
                 THEN [row EXCEPT !.quantity = 0, !.avg_entry_price = 0]
                 ELSE IF old = 0 \/ SameDirection(old, moved)
                 THEN Added(row, fill, Abs(old + moved))
                 ELSE IF q < Q
                 THEN [row EXCEPT !.quantity = Abs(old + moved)]
                 ELSE [side |-> fill.side, quantity |-> Abs(old + moved),
                       avg_entry_price |-> p]
  BY DEF update_position_from_fill, _compute_realized_pnl
<1>5. row \in Rows
  BY DEF GoodRow
<1>6. ExactAverage(row, fill)
        <=> (SameDirection(old, moved) => (Q * A + q * p) % (Q + q) = 0)
  BY DEF ExactAverage
<1>7. Added(row, fill, Abs(old + moved)).avg_entry_price = (Q * A + q * p) \div (Q + q)
  BY DEF Added, WeightedAverage
<1>8. /\ [row EXCEPT !.quantity = 0, !.avg_entry_price = 0].avg_entry_price = 0
      /\ [row EXCEPT !.quantity = Abs(old + moved)].avg_entry_price = A
  BY <1>5 DEF Rows
<1>9. /\ old + moved = 0 => after.avg_entry_price = 0
      /\ old + moved # 0 /\ (old = 0 \/ SameDirection(old, moved))
           => after.avg_entry_price = (Q * A + q * p) \div (Q + q)
      /\ old + moved # 0 /\ ~(old = 0 \/ SameDirection(old, moved)) /\ q < Q
           => after.avg_entry_price = A
      /\ old + moved # 0 /\ ~(old = 0 \/ SameDirection(old, moved)) /\ ~(q < Q)
           => after.avg_entry_price = p
  BY <1>4, <1>7, <1>8
<1>10. SameDirection(old, moved) => (Q * A + q * p) % (Q + q) = 0
  BY <1>6
<1> HIDE DEF Q, A, q, p, old, moved, after, gain
<1>11. \A x \in Nat, y \in Nat : y > 0 /\ x % y = 0 => y * (x \div y) = x
  OBVIOUS
<1>12. /\ Q * A \in Nat /\ q * p \in Nat /\ Q * p \in Nat /\ q * A \in Nat
  BY <1>1
<1>13. ASSUME old = 0 PROVE Goal
  <2>1. Q = 0 /\ A = 0
    BY <1>1, <1>2, <1>13
  <2>2. after.avg_entry_price = p
    <3>1. old + moved # 0
      BY <1>1, <1>2, <1>13
    <3>2. (0 * 0 + q * p) \div (0 + q) = p
      <4>1. \A x, y \in Nat : y > 0 => (0 * 0 + y * x) \div (0 + y) = x
        OBVIOUS
      <4> QED
        BY <1>1, <4>1
    <3> QED
      BY <1>9, <1>13, <2>1, <3>1, <3>2
  <2>3. gain = 0
    BY <1>4, <1>13
  <2>4. Net(after) = moved /\ moved \in Int
    BY <1>1, <1>2, <1>3, <1>13
  <2>5. \A m, n \in Int : 0 - m * n = -(0 * 0) - m * n
    OBVIOUS
  <2> QED
    BY <1>1, <1>13, <2>1, <2>2, <2>3, <2>4, <2>5
<1>14. ASSUME SameDirection(old, moved) PROVE Goal
  <2> DEFINE a == (Q * A + q * p) \div (Q + q)
  <2>1. after.avg_entry_price = a /\ gain = 0
    <3>1. old + moved # 0
      BY <1>1, <1>2, <1>14 DEF SameDirection
    <3> QED
      BY <1>4, <1>9, <1>14, <3>1
  <2>2. (Q + q) * a = Q * A + q * p /\ a \in Nat
    <3>1. Q * A + q * p \in Nat /\ Q + q \in Nat /\ Q + q > 0
      BY <1>1, <1>12
    <3>2. \A x \in Nat, y \in Nat : y > 0 => x \div y \in Nat
      OBVIOUS
    <3> QED
      BY <1>10, <1>11, <1>14, <3>1, <3>2
  <2>3. \/ old = Q /\ moved = q
        \/ old = -Q /\ moved = -q
    BY <1>1, <1>2, <1>14 DEF SameDirection
  <2> HIDE DEF a
  <2>4. CASE old = Q /\ moved = q
    BY <1>1, <1>3, <1>12, <2>1, <2>2, <2>4
  <2>5. CASE old = -Q /\ moved = -q
    <3>1. Net(after) * after.avg_entry_price = -((Q + q) * a)
      BY <1>1, <1>3, <2>1, <2>2, <2>5
    <3> QED
      BY <1>1, <1>12, <2>1, <2>2, <2>5, <3>1
  <2> QED
    BY <2>3, <2>4, <2>5
<1>15. ASSUME old # 0, ~SameDirection(old, moved) PROVE Goal
  <2>1. \/ old = Q /\ moved = -q /\ Q > 0
        \/ old = -Q /\ moved = q /\ Q > 0
    BY <1>1, <1>2, <1>15 DEF SameDirection
  <2>2. /\ old = Q => gain = (p - A) * Lesser(Q, q)
        /\ old = -Q => gain = (A - p) * Lesser(Q, q)
    BY <1>1, <1>4, <1>15, <2>1
  <2>3. CASE q < Q
    <3>1. Lesser(Q, q) = q /\ after.avg_entry_price = A
      BY <1>1, <1>9, <1>15, <2>1, <2>3 DEF Lesser
    <3>2. /\ (p - A) * q = q * p - q * A /\ (A - p) * q = q * A - q * p
          /\ (Q - q) * A = Q * A - q * A /\ (q - Q) * A = q * A - Q * A
      BY <1>1
    <3>3. CASE old = Q /\ moved = -q
      BY <1>1, <1>3, <1>12, <2>2, <3>1, <3>2, <3>3
    <3>4. CASE old = -Q /\ moved = q
      BY <1>1, <1>3, <1>12, <2>2, <3>1, <3>2, <3>4
    <3> QED
      BY <2>1, <3>3, <3>4
  <2>4. CASE q > Q
    <3>1. Lesser(Q, q) = Q /\ after.avg_entry_price = p
      BY <1>1, <1>9, <1>15, <2>1, <2>4 DEF Lesser
    <3>2. /\ (p - A) * Q = Q * p - Q * A /\ (A - p) * Q = Q * A - Q * p
          /\ (Q - q) * p = Q * p - q * p /\ (q - Q) * p = q * p - Q * p
      BY <1>1
    <3>3. CASE old = Q /\ moved = -q
      BY <1>1, <1>3, <1>12, <2>2, <3>1, <3>2, <3>3
    <3>4. CASE old = -Q /\ moved = q
      BY <1>1, <1>3, <1>12, <2>2, <3>1, <3>2, <3>4
    <3> QED
      BY <2>1, <3>3, <3>4
  <2>5. CASE q = Q
    <3>1. Lesser(Q, q) = q /\ after.avg_entry_price = 0 /\ Net(after) = 0
      BY <1>1, <1>3, <1>9, <1>15, <2>1, <2>5 DEF Lesser
    <3>2. (p - A) * q = q * p - q * A /\ (A - p) * q = q * A - q * p
      BY <1>1
    <3>3. CASE old = Q /\ moved = -q
      BY <1>1, <1>12, <2>2, <2>5, <3>1, <3>2, <3>3
    <3>4. CASE old = -Q /\ moved = q
      BY <1>1, <1>12, <2>2, <2>5, <3>1, <3>2, <3>4
    <3> QED
      BY <2>1, <3>3, <3>4
  <2> QED
    BY <1>1, <2>3, <2>4, <2>5
<1>16. Goal
  BY <1>13, <1>14, <1>15
<1> QED
  BY <1>16 DEF Q, A, p, old, moved, after, gain

=============================================================================
