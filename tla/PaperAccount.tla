------------------------------ MODULE PaperAccount ------------------------------
(***************************************************************************)
(* The row the paper trader keeps for a position and what a fill does to   *)
(* it: core/paper/position_tracker.py, core/paper/pnl_calculator.py and    *)
(* core/paper/simulator.py.                                                *)
(*                                                                         *)
(* Prices are integers in a unit so fine that the average prices an        *)
(* instance reaches are whole; avg_entry_price is 0 where the code stores  *)
(* None, as both readers of it do ("is not None and > 0", "or zero").      *)
(***************************************************************************)
EXTENDS Integers

Sides == {"buy", "sell"}

\* Seeded fault: the row keeps the sign of the position.
SignKept(n) == n

Abs(n) == IF n < 0 THEN -n ELSE n
Lesser(a, b) == IF a < b THEN a ELSE b

Rows == [side : Sides \union {"none"}, quantity : Nat, avg_entry_price : Nat]

\* No position_snapshots row for the symbol.
NoRow == [side |-> "none", quantity |-> 0, avg_entry_price |-> 0]

_signed_qty(side, qty) == IF side = "buy" THEN qty ELSE -qty

Net(row) == _signed_qty(row.side, row.quantity)

\* Buying and selling one side of a quoted book, [bid, ask].
FillPrice(side, quote) == IF side = "buy" THEN quote.ask ELSE quote.bid

-----------------------------------------------------------------------------
(* A fill is [side, quantity, price]. *)

Signed(fill) == _signed_qty(fill.side, fill.quantity)
SameDirection(m, n) == (m > 0 /\ n > 0) \/ (m < 0 /\ n < 0)

\* Seeded fault: the weights of the average are swapped.
WeightedAverageSwapped(row, fill) ==
  (fill.quantity * row.avg_entry_price + row.quantity * fill.price)
    \div (row.quantity + fill.quantity)

WeightedAverage(row, fill) ==
  (row.quantity * row.avg_entry_price + fill.quantity * fill.price)
    \div (row.quantity + fill.quantity)

\* Seeded fault: a row that was emptied is opened again on its old side.
AddedOneSided(row, fill, quantity) ==
  [row EXCEPT !.quantity = quantity, !.avg_entry_price = WeightedAverage(row, fill)]

Added(row, fill, quantity) ==
  [side |-> fill.side, quantity |-> quantity, avg_entry_price |-> WeightedAverage(row, fill)]

\* A row emptied by its last fill keeps its side and has no average.
update_position_from_fill(row, fill) ==
  LET old == Net(row)
      new == old + Signed(fill)
  IN IF new = 0
     THEN [row EXCEPT !.quantity = 0, !.avg_entry_price = 0]
     ELSE IF old = 0 \/ SameDirection(old, Signed(fill))
     THEN Added(row, fill, Abs(new))
     ELSE IF fill.quantity < row.quantity
     THEN [row EXCEPT !.quantity = Abs(new)]
     ELSE [side |-> fill.side, quantity |-> Abs(new), avg_entry_price |-> fill.price]

\* Against the row as it was before the fill, which the session's attribute
\* history still holds.
_compute_realized_pnl(row, fill) ==
  LET old == Net(row)
      closing == Lesser(row.quantity, fill.quantity)
  IN IF old = 0 \/ SameDirection(old, Signed(fill)) THEN 0
     ELSE IF old > 0 THEN (fill.price - row.avg_entry_price) * closing
     ELSE (row.avg_entry_price - fill.price) * closing

=============================================================================
