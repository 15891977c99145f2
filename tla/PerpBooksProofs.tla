---------------------------- MODULE PerpBooksProofs ----------------------------
(***************************************************************************)
(* Five results about the delta-neutral account, for every size, mark,     *)
(* rate and schedule.                                                      *)
(*   Settled funding is conserved.  A settlement books its total on the    *)
(* latest PnL snapshot and nowhere when there is none.  A position is held *)
(* only with a spot leg, a spot leg has been filled, and its fill has left *)
(* a snapshot: that a settlement finds none takes a reset that met an      *)
(* iteration.                                                              *)
(*   Accruals are counted: one an hour, and one more after each restart.   *)
(*   The legs are hedged between iterations, so that the margin posted is  *)
(* the cost of the contracts held, and a rebalance only closes.            *)
(*   The rows have their types.                                            *)
(*   They keep the books of the plain ledger (TradingLedger).              *)
(***************************************************************************)
EXTENDS PerpBooks, PaperAccountProofs

Orders == [contracts : Contracts \union {0}, mark : Marks \union {0}]

Conserves(w) ==
  /\ w.settled = w.funding + erased + w.dropped
  /\ ~torn => w.dropped = 0 /\ (w.spot.quantity > 0 => w.snapshot)

IInv ==
  /\ db \in Accounts /\ work \in Accounts
  /\ erased \in Int /\ torn \in BOOLEAN /\ order \in Orders
  /\ pc \in {"idle", "stale"} => work = db
  /\ pc \in {"accrue", "settle"} =>
       work.snapshot = db.snapshot /\ work.spot = db.spot /\ (torn \/ work.snapshot)
  /\ db.snapshot \/ work.funding = db.funding
  /\ Conserves(db) /\ Conserves(work)

(* Opening a short keeps its row a row of numbers (perp_execution.py:22).   *)
LEMMA OpenTyped ==
  ASSUME NEW short \in Shorts, NEW q \in Nat, q > 0, NEW mark \in Nat
  PROVE  open_perp_short(short, q, mark) \in Shorts
<1>1. short.quantity + q \in Nat /\ short.quantity + q > 0
  BY DEF Shorts
<1>2. short.quantity * short.avg_entry_price \in Nat /\ q * mark \in Nat
  <2>1. \A m, n \in Nat : m * n \in Nat
    OBVIOUS
  <2> QED
    BY <2>1 DEF Shorts
<1>3. (short.quantity * short.avg_entry_price + q * mark) \div (short.quantity + q) \in Nat
  <2>1. \A m, n \in Nat : n > 0 => m \div n \in Nat
    OBVIOUS
  <2>2. short.quantity * short.avg_entry_price + q * mark \in Nat
    BY <1>2
  <2> QED
    BY <1>1, <2>1, <2>2
<1>4. short.margin_posted + q * mark \in Nat
  BY <1>2 DEF Shorts
<1>5. \A r \in Shorts, n \in Nat : /\ [r EXCEPT !.quantity = n] \in Shorts
                                   /\ [r EXCEPT !.avg_entry_price = n] \in Shorts
                                   /\ [r EXCEPT !.mark_price = n] \in Shorts
                                   /\ [r EXCEPT !.margin_posted = n] \in Shorts
  BY DEF Shorts
<1> QED
  BY <1>1, <1>3, <1>4, <1>5, Zenon DEF open_perp_short

(* A part of the contracts has no more than the whole margin.               *)
LEMMA ShareOfMargin ==
  ASSUME NEW short \in Shorts, NEW closed \in Nat, closed <= short.quantity,
         short.quantity # 0
  PROVE  /\ MarginReturned(short, closed) \in Nat
         /\ MarginReturned(short, closed) <= short.margin_posted
<1>1. short.quantity \in Nat /\ short.quantity > 0 /\ short.margin_posted \in Nat
  BY DEF Shorts
<1>2. \A k, m, n \in Nat : k <= n => k * m <= n * m /\ k * m \in Nat
  OBVIOUS
<1>3. closed * short.margin_posted <= short.quantity * short.margin_posted
      /\ closed * short.margin_posted \in Nat
  BY <1>1, <1>2
<1>4. \A x, y, z \in Nat : y > 0 /\ x <= y * z => x \div y \in Nat /\ x \div y <= z
  OBVIOUS
<1> QED
  BY <1>1, <1>3, <1>4 DEF MarginReturned

(* So does closing any part of it (perp_execution.py:148).                  *)
LEMMA CloseTyped ==
  ASSUME NEW short \in Shorts, NEW q \in Nat, NEW mark \in Nat
  PROVE  close_perp_short(short, q, mark) \in Shorts
<1> DEFINE closed == Lesser(q, short.quantity)
<1>1. CASE short.quantity = 0
  BY <1>1 DEF close_perp_short
<1>2. CASE short.quantity # 0
  <2>1. closed \in Nat /\ short.quantity - closed \in Nat /\ closed <= short.quantity
    BY DEF Lesser, Shorts
  <2>2. MarginReturned(short, closed) \in Nat
        /\ MarginReturned(short, closed) <= short.margin_posted
    BY <1>2, <2>1, ShareOfMargin
  <2>3. Realized(short, closed, mark) \in Int
    BY <2>1 DEF Realized, Shorts
  <2>4. short.margin_posted \in Nat /\ short.avg_entry_price \in Nat /\ short.realized_pnl \in Int
    BY DEF Shorts
  <2> DEFINE avg == IF closed = short.quantity THEN 0 ELSE short.avg_entry_price
             left == short.margin_posted - MarginReturned(short, closed)
             gain == short.realized_pnl + Realized(short, closed, mark)
  <2>5. avg \in Nat /\ left \in Nat /\ gain \in Int
    BY <2>2, <2>3, <2>4
  <2>6. close_perp_short(short, q, mark) =
          [quantity |-> short.quantity - closed, avg_entry_price |-> avg, mark_price |-> mark,
           margin_posted |-> left, realized_pnl |-> gain]
    BY <1>2 DEF close_perp_short
  <2> HIDE DEF closed, avg, left, gain
  <2> QED
    BY <2>1, <2>5, <2>6 DEF Shorts
<1> QED
  BY <1>1, <1>2

\* Storing a field, one at a time, keeps an account an account.
LEMMA FieldsStored ==
  ASSUME NEW w \in Accounts
  PROVE  /\ \A r \in Shorts : [w EXCEPT !.perp = r] \in Accounts
         /\ \A r \in Rows, x \in Int :
              [w EXCEPT !.spot = r, !.realized = @ + x, !.snapshot = TRUE] \in Accounts
         /\ \A x \in Int : [w EXCEPT !.accruals = @ + 1, !.unsettled = @ + x] \in Accounts
         /\ \A x \in Int : [w EXCEPT !.unsettled = @ - x, !.settled = @ + x] \in Accounts
         /\ \A x \in Int : /\ [w EXCEPT !.funding = @ + x] \in Accounts
                           /\ [w EXCEPT !.dropped = @ + x] \in Accounts
         /\ \A n \in Nat, x, y, z \in Int :
              [w EXCEPT !.accruals = n, !.unsettled = x, !.settled = y, !.dropped = z]
                \in Accounts
         /\ \A r \in Shorts, row \in Rows : [w EXCEPT !.perp = r, !.spot = row] \in Accounts
         /\ \A b \in BOOLEAN : [w EXCEPT !.snapshot = b] \in Accounts
<1>1. \A v \in Accounts, r \in Shorts : [v EXCEPT !.perp = r] \in Accounts
  BY DEF Accounts
<1>2. \A v \in Accounts, r \in Rows : [v EXCEPT !.spot = r] \in Accounts
  BY DEF Accounts
<1>3. \A v \in Accounts, b \in BOOLEAN : [v EXCEPT !.snapshot = b] \in Accounts
  BY DEF Accounts
<1>7. \A v \in Accounts : [v EXCEPT !.snapshot = TRUE] \in Accounts
  BY <1>3
<1>4. \A v \in Accounts, x \in Int :
        /\ [v EXCEPT !.realized = x] \in Accounts
        /\ [v EXCEPT !.funding = x] \in Accounts
        /\ [v EXCEPT !.unsettled = x] \in Accounts
        /\ [v EXCEPT !.settled = x] \in Accounts
        /\ [v EXCEPT !.dropped = x] \in Accounts
  BY DEF Accounts
<1>5. \A v \in Accounts, n \in Nat : [v EXCEPT !.accruals = n] \in Accounts
  BY DEF Accounts
<1>6. /\ w.accruals + 1 \in Nat
      /\ \A x \in Int : /\ w.realized + x \in Int
                        /\ w.unsettled + x \in Int /\ w.unsettled - x \in Int
                        /\ w.settled + x \in Int
                        /\ w.funding + x \in Int /\ w.dropped + x \in Int
  BY DEF Accounts
<1> QED
  BY <1>1, <1>2, <1>3, <1>4, <1>5, <1>6, <1>7, Zenon

(* A spot fill leaves a row and, always, a snapshot                         *)
(* (delta_neutral_runner.py:757).                                           *)
LEMMA SpotFillTyped ==
  ASSUME NEW w \in Accounts, NEW side \in Sides, NEW q \in Nat, NEW price \in Nat
  PROVE  LET v == _simulate_spot_fill(w, [side |-> side, quantity |-> q, price |-> price])
         IN /\ v \in Accounts /\ v.snapshot
            /\ v.funding = w.funding /\ v.settled = w.settled /\ v.dropped = w.dropped
<1> DEFINE fill == [side |-> side, quantity |-> q, price |-> price]
           row == w.spot
<1>1. row \in Rows /\ w.realized \in Int
  BY DEF Accounts
<1>2. Net(row) \in Int /\ Signed(fill) \in Int /\ Net(row) + Signed(fill) \in Int
  BY <1>1 DEF Net, Signed, _signed_qty, Rows
<1>3. \A n \in Int : Abs(n) \in Nat
  BY DEF Abs
<1>4. ASSUME Net(row) + Signed(fill) # 0 PROVE WeightedAverage(row, fill) \in Nat
  <2>1. \A m, n \in Nat : m * n \in Nat
    OBVIOUS
  <2>2. row.quantity * row.avg_entry_price + q * price \in Nat
    BY <1>1, <2>1 DEF Rows
  <2>3. row.quantity + q \in Nat /\ row.quantity + q > 0
    <3>1. row.quantity = 0 /\ q = 0 => Net(row) + Signed(fill) = 0
      BY DEF Net, Signed, _signed_qty
    <3> QED
      BY <1>1, <1>4, <3>1 DEF Rows
  <2>4. \A m, n \in Nat : n > 0 => m \div n \in Nat
    OBVIOUS
  <2> QED
    BY <2>2, <2>3, <2>4 DEF WeightedAverage
<1>5. update_position_from_fill(row, fill) \in Rows
  <2> DEFINE n == Abs(Net(row) + Signed(fill))
  <2>1. n \in Nat
    BY <1>2, <1>3
  <2>2. [row EXCEPT !.quantity = 0, !.avg_entry_price = 0] \in Rows
    <3>1. [row EXCEPT !.quantity = 0] \in Rows
      BY <1>1 DEF Rows
    <3>2. \A r \in Rows : [r EXCEPT !.avg_entry_price = 0] \in Rows
      BY DEF Rows
    <3> QED
      BY <3>1, <3>2, Zenon
  <2>3. ASSUME Net(row) + Signed(fill) # 0 PROVE Added(row, fill, n) \in Rows
    <3>1. fill.side \in Sides
      OBVIOUS
    <3> HIDE DEF fill, row, n
    <3> QED
      BY <1>4, <2>1, <2>3, <3>1 DEF Added, Rows
  <2>4. [row EXCEPT !.quantity = n] \in Rows
    BY <1>1, <2>1 DEF Rows
  <2>5. [side |-> fill.side, quantity |-> n, avg_entry_price |-> fill.price] \in Rows
    BY <2>1 DEF Rows
  <2> HIDE DEF fill, row
  <2> QED
    BY <2>2, <2>3, <2>4, <2>5 DEF update_position_from_fill
<1>6. [update_position_from_fill(row, fill) EXCEPT !.side = fill.side] \in Rows
  BY <1>5 DEF Rows
<1>7. _compute_realized_pnl(row, fill) \in Int
  <2>1. Lesser(row.quantity, fill.quantity) \in Nat
    BY <1>1 DEF Lesser, Rows
  <2> QED
    BY <1>1, <2>1 DEF _compute_realized_pnl, Rows
<1> HIDE DEF fill
<1>8. _simulate_spot_fill(w, fill) \in Accounts
  BY <1>1, <1>6, <1>7, FieldsStored, Zenon DEF _simulate_spot_fill
<1>9. /\ _simulate_spot_fill(w, fill).snapshot
      /\ _simulate_spot_fill(w, fill).funding = w.funding
      /\ _simulate_spot_fill(w, fill).settled = w.settled
      /\ _simulate_spot_fill(w, fill).dropped = w.dropped
  BY Zenon DEF _simulate_spot_fill, Accounts
<1> QED
  BY <1>8, <1>9 DEF fill

\* The two halves of the induction.
LEMMA InitConserves == ASSUME Init PROVE IInv
<1>1. Opened \in Accounts
  BY DEF Opened, NoShort, NoRow, Accounts, Shorts, Rows
<1>2. /\ Opened.settled = 0 /\ Opened.funding = 0 /\ Opened.dropped = 0
      /\ Opened.spot.quantity = 0 /\ 0 = 0 + 0 + 0
  BY DEF Opened, NoRow
<1>3. NoOrder \in Orders
  BY DEF NoOrder, Orders
<1>4. /\ db = Opened /\ work = Opened /\ pc = "idle" /\ order = NoOrder
      /\ erased = 0 /\ torn = FALSE
  BY DEF Init
<1>5. Conserves(Opened)
  BY <1>2, <1>4 DEF Conserves
<1>6. Conserves(db) /\ Conserves(work)
  BY <1>4, <1>5, Zenon
<1>7. /\ db \in Accounts /\ work \in Accounts /\ work = db /\ work.funding = db.funding
      /\ torn \in BOOLEAN /\ order \in Orders
  BY <1>1, <1>3, <1>4, Zenon
<1>8. erased \in Int /\ pc \notin {"accrue", "settle"}
  BY <1>4
<1> QED
  BY <1>6, <1>7, <1>8 DEF IInv

(* A settlement adds the same total to what is settled and to the funding   *)
(* PnL, or to what was dropped if there is no snapshot                      *)
(* (funding_accrual.py:132).                                                *)
LEMMA SettleConserves ==
  ASSUME NEW w \in Accounts, NEW total \in Int
  PROVE  LET v == settle(w, total)
         IN /\ v \in Accounts /\ v.snapshot = w.snapshot /\ v.spot = w.spot
            /\ v.perp = w.perp /\ v.realized = w.realized /\ v.accruals = w.accruals
            /\ v.settled = w.settled + total
            /\ w.snapshot => v.funding = w.funding + total /\ v.dropped = w.dropped
            /\ ~w.snapshot => v.funding = w.funding /\ v.dropped = w.dropped + total
<1> DEFINE u == IF w.snapshot THEN [w EXCEPT !.funding = @ + total]
                ELSE [w EXCEPT !.dropped = @ + total]
<1>1. settle(w, total) = [u EXCEPT !.unsettled = @ - total, !.settled = @ + total]
  BY DEF settle, MarkSettled
<1>2. u \in Accounts
  <2>1. /\ [w EXCEPT !.funding = @ + total] \in Accounts
        /\ [w EXCEPT !.dropped = @ + total] \in Accounts
    BY FieldsStored, Zenon
  <2> QED
    BY <2>1
<1>3. /\ u.snapshot = w.snapshot /\ u.spot = w.spot /\ u.settled = w.settled
      /\ u.perp = w.perp /\ u.realized = w.realized /\ u.accruals = w.accruals
      /\ w.snapshot => u.funding = w.funding + total /\ u.dropped = w.dropped
      /\ ~w.snapshot => u.funding = w.funding /\ u.dropped = w.dropped + total
  BY Zenon DEF Accounts
<1> HIDE DEF u
<1>4. settle(w, total) \in Accounts
  BY <1>1, <1>2, FieldsStored, Zenon
<1>5. /\ settle(w, total).snapshot = u.snapshot
      /\ settle(w, total).spot = u.spot
      /\ settle(w, total).perp = u.perp
      /\ settle(w, total).realized = u.realized
      /\ settle(w, total).accruals = u.accruals
      /\ settle(w, total).settled = u.settled + total
      /\ settle(w, total).funding = u.funding
      /\ settle(w, total).dropped = u.dropped
  BY <1>1, <1>2, Zenon DEF Accounts
<1> QED
  BY <1>3, <1>4, <1>5, Zenon

(* An accrual touches neither the legs, nor the snapshots, nor what is      *)
(* settled (funding_accrual.py:76).                                         *)
LEMMA AccrualConserves ==
  ASSUME NEW w \in Accounts, NEW rate \in Int
  PROVE  LET v == accrue_hourly(w, rate)
         IN /\ v \in Accounts /\ v.snapshot = w.snapshot /\ v.spot = w.spot
            /\ v.perp = w.perp /\ v.realized = w.realized
            /\ v.accruals \in {w.accruals, w.accruals + 1}
            /\ v.settled = w.settled /\ v.funding = w.funding /\ v.dropped = w.dropped
<1> DEFINE u == [w EXCEPT !.accruals = @ + 1, !.unsettled = @ + Accrual(w.perp, rate)]
<1>1. Accrual(w.perp, rate) \in Int
  BY DEF Accrual, Accounts, Shorts
<1>2. u \in Accounts
  BY <1>1, FieldsStored, Zenon
<1>3. /\ u.snapshot = w.snapshot /\ u.spot = w.spot /\ u.perp = w.perp
      /\ u.realized = w.realized /\ u.accruals = w.accruals + 1
      /\ u.settled = w.settled /\ u.funding = w.funding /\ u.dropped = w.dropped
  BY Zenon DEF Accounts
<1> HIDE DEF u
<1>4. accrue_hourly(w, rate) = w \/ accrue_hourly(w, rate) = u
  BY DEF accrue_hourly, u
<1> QED
  BY <1>2, <1>3, <1>4, Zenon

(* Trading on the perpetual touches neither the snapshots nor the funding.  *)
LEMMA PerpConserves ==
  ASSUME NEW w \in Accounts, NEW r \in Shorts
  PROVE  LET v == [w EXCEPT !.perp = r]
         IN /\ v \in Accounts /\ v.snapshot = w.snapshot /\ v.spot = w.spot
            /\ v.settled = w.settled /\ v.funding = w.funding /\ v.dropped = w.dropped
<1>1. [w EXCEPT !.perp = r] \in Accounts
  BY FieldsStored, Zenon
<1> QED
  BY <1>1 DEF Accounts

(* A reset leaves an account whose accruals alone are those of before       *)
(* (routes.py:273-334).                                                     *)
LEMMA ErasedIs ==
  ASSUME NEW w \in Accounts
  PROVE  LET v == Erased(w)
         IN /\ v \in Accounts /\ v.spot = NoRow /\ v.perp = NoShort
            /\ v.snapshot = FALSE /\ v.realized = 0 /\ v.funding = 0
            /\ v.accruals = w.accruals /\ v.settled = w.settled /\ v.dropped = w.dropped
<1>1. Opened \in Accounts
  BY DEF Opened, NoShort, NoRow, Accounts, Shorts, Rows
<1>2. w.accruals \in Nat /\ w.unsettled \in Int /\ w.settled \in Int /\ w.dropped \in Int
  BY DEF Accounts
<1>3. Erased(w) \in Accounts
  BY <1>1, <1>2, FieldsStored, Zenon DEF Erased
<1>4. /\ Erased(w).spot = Opened.spot /\ Erased(w).perp = Opened.perp
      /\ Erased(w).snapshot = Opened.snapshot
      /\ Erased(w).realized = Opened.realized /\ Erased(w).funding = Opened.funding
      /\ Erased(w).accruals = w.accruals /\ Erased(w).settled = w.settled
      /\ Erased(w).dropped = w.dropped
  BY <1>1, Zenon DEF Erased, Accounts
<1>5. /\ Opened.spot = NoRow /\ Opened.perp = NoShort /\ Opened.snapshot = FALSE
      /\ Opened.realized = 0 /\ Opened.funding = 0
  BY DEF Opened
<1> QED
  BY <1>3, <1>4, <1>5, Zenon

\* What an iteration keeps through a reset are the rows it inserted.
LEMMA OwnRowsIs ==
  ASSUME db \in Accounts, work \in Accounts, NEW b \in BOOLEAN
  PROVE  LET v == OwnRows
             u == [OwnRows EXCEPT !.snapshot = b]
         IN /\ v \in Accounts /\ u \in Accounts /\ v.snapshot = FALSE /\ u.snapshot = b
            /\ v.realized = 0 /\ v.funding = 0 /\ v.accruals = work.accruals
            /\ v.settled = work.settled /\ v.dropped = work.dropped
            /\ u.realized = 0 /\ u.funding = 0 /\ u.accruals = work.accruals
            /\ u.settled = work.settled /\ u.dropped = work.dropped
            /\ v.perp = IF OpensShort THEN [work.perp EXCEPT !.realized_pnl = 0] ELSE NoShort
            /\ v.spot = IF db.spot = NoRow THEN work.spot ELSE NoRow
            /\ u.perp = v.perp /\ u.spot = v.spot
<1> DEFINE short == IF OpensShort THEN [work.perp EXCEPT !.realized_pnl = 0] ELSE NoShort
           row == IF db.spot = NoRow THEN work.spot ELSE NoRow
           e == Erased(work)
<1>1. short \in Shorts /\ row \in Rows
  <2>1. work.perp \in Shorts /\ work.spot \in Rows
    BY DEF Accounts
  <2>2. [work.perp EXCEPT !.realized_pnl = 0] \in Shorts
    BY <2>1 DEF Shorts
  <2>3. NoShort \in Shorts /\ NoRow \in Rows
    BY DEF NoShort, Shorts, NoRow, Rows
  <2> QED
    BY <2>1, <2>2, <2>3
<1>2. e \in Accounts
  BY ErasedIs
<1>3. /\ e.snapshot = FALSE /\ e.realized = 0 /\ e.funding = 0
      /\ e.accruals = work.accruals /\ e.settled = work.settled /\ e.dropped = work.dropped
  BY ErasedIs
<1>4. OwnRows = [e EXCEPT !.perp = short, !.spot = row]
  BY DEF OwnRows
<1> HIDE DEF e, short, row
<1>5. /\ OwnRows \in Accounts
      /\ OwnRows.snapshot = e.snapshot /\ OwnRows.realized = e.realized
      /\ OwnRows.funding = e.funding /\ OwnRows.accruals = e.accruals
      /\ OwnRows.settled = e.settled /\ OwnRows.dropped = e.dropped
      /\ OwnRows.perp = short /\ OwnRows.spot = row
  <2>1. OwnRows \in Accounts
    BY <1>1, <1>2, <1>4, FieldsStored, Zenon
  <2> QED
    BY <1>2, <1>4, <2>1, Zenon DEF Accounts
<1> DEFINE v == OwnRows
<1> HIDE DEF v
<1>6. v \in Accounts
  BY <1>5 DEF v
<1>7. /\ [v EXCEPT !.snapshot = b] \in Accounts
      /\ [v EXCEPT !.snapshot = b].snapshot = b
      /\ [v EXCEPT !.snapshot = b].realized = v.realized
      /\ [v EXCEPT !.snapshot = b].funding = v.funding
      /\ [v EXCEPT !.snapshot = b].accruals = v.accruals
      /\ [v EXCEPT !.snapshot = b].settled = v.settled
      /\ [v EXCEPT !.snapshot = b].dropped = v.dropped
      /\ [v EXCEPT !.snapshot = b].perp = v.perp
      /\ [v EXCEPT !.snapshot = b].spot = v.spot
  <2>1. [v EXCEPT !.snapshot = b] \in Accounts
    BY <1>6, FieldsStored, Zenon
  <2> QED
    BY <1>6, <2>1, Zenon DEF Accounts
<1> QED
  BY <1>3, <1>5, <1>7, Zenon DEF v, short, row

\* Between two iterations there is nothing to keep.
LEMMA OwnIsErased ==
  ASSUME db \in Accounts, work = db
  PROVE  [OwnRows EXCEPT !.snapshot = FALSE] = Erased(db)
<1> DEFINE e == Erased(db)
<1>1. e \in Accounts /\ e.spot = NoRow /\ e.perp = NoShort /\ e.snapshot = FALSE
  BY ErasedIs
<1>2. ~OpensShort
  <2>1. db.perp.quantity \in Nat
    BY DEF Accounts, Shorts
  <2> QED
    BY <2>1 DEF OpensShort
<1>3. OwnRows = [e EXCEPT !.perp = NoShort, !.spot = NoRow]
  BY <1>2 DEF OwnRows
<1> HIDE DEF e
<1>4. [[e EXCEPT !.perp = NoShort, !.spot = NoRow] EXCEPT !.snapshot = FALSE] = e
  BY <1>1 DEF Accounts
<1> QED
  BY <1>3, <1>4 DEF e

(* A balanced position has a spot leg (delta_neutral_runner.py:523).        *)
LEMMA BalancedHasSpot ==
  ASSUME NEW w \in Accounts, is_balanced(w)
  PROVE  w.spot.quantity > 0
<1>1. w.perp.quantity \in Nat /\ w.spot.quantity \in Nat
  BY DEF Accounts, Shorts, Rows
<1> QED
  BY <1>1 DEF is_balanced

(* A reset between two steps takes the funding with the snapshots, and what *)
(* the iteration holds of it; it finds nothing dropped unless it has met a  *)
(* hold (routes.py:273-334).                                                *)
LEMMA ResetConserves ==
  ASSUME IInv, reset_run_history
  PROVE  IInv'
<1>1. /\ db \in Accounts /\ work \in Accounts
      /\ {db.settled, db.funding, db.dropped, work.settled, work.funding, work.dropped,
          erased, erased + db.funding} \subseteq Int
  BY DEF IInv, Accounts
<1>2. /\ db.settled = db.funding + erased + db.dropped
      /\ work.settled = work.funding + erased + work.dropped
  BY DEF IInv, Conserves
<1>3. /\ db' = Erased(db) /\ erased' = erased + db.funding /\ order' = order
      /\ torn' = (torn \/ pc \in {"accrue", "settle"})
  BY DEF reset_run_history
<1>4. /\ db' \in Accounts /\ db'.spot = NoRow /\ db'.perp = NoShort
      /\ db'.snapshot = FALSE /\ db'.funding = 0 /\ db'.realized = 0
      /\ db'.settled = db.settled /\ db'.dropped = db.dropped
  BY <1>1, <1>3, ErasedIs
<1>5. NoRow.quantity = 0 /\ ~(NoRow.quantity > 0)
  BY DEF NoRow
<1>6. db'.settled = db'.funding + erased' + db'.dropped
  BY <1>1, <1>2, <1>3, <1>4
<1>7. Conserves(db)'
  BY <1>3, <1>4, <1>5, <1>6 DEF IInv, Conserves
<1>8. /\ db' \in Accounts /\ erased' \in Int /\ torn' \in BOOLEAN /\ order' \in Orders
  BY <1>1, <1>3, <1>4 DEF IInv
<1>9. CASE Changed
  <2>1. work' = db' /\ pc' = "stale"
    BY <1>9 DEF reset_run_history
  <2> QED
    BY <1>7, <1>8, <2>1 DEF IInv, Conserves
<1>10. CASE ~Changed
  <2> DEFINE b == work.spot # db.spot
  <2>1. /\ work' = [OwnRows EXCEPT !.snapshot = b] /\ pc' = pc
    BY <1>10 DEF reset_run_history
  <2>2. /\ work' \in Accounts /\ work'.snapshot = b /\ work'.funding = 0 /\ work'.realized = 0
        /\ work'.settled = work.settled /\ work'.dropped = work.dropped
        /\ work'.spot = IF db.spot = NoRow THEN work.spot ELSE NoRow
    <3>1. b \in BOOLEAN
      OBVIOUS
    <3> HIDE DEF b
    <3> QED
      BY <1>1, <2>1, <3>1, OwnRowsIs
  <2>3. work.funding = db.funding
    BY <1>10 DEF IInv, Changed
  <2>4. work'.settled = work'.funding + erased' + work'.dropped
    BY <1>1, <1>2, <1>3, <2>2, <2>3
  <2>5. work'.spot.quantity > 0 => work'.snapshot
    <3>1. CASE db.spot # NoRow
      BY <1>5, <2>2, <3>1
    <3>2. CASE db.spot = NoRow /\ work.spot = NoRow
      BY <1>5, <2>2, <3>2
    <3>3. CASE db.spot = NoRow /\ work.spot # NoRow
      BY <2>2, <3>3
    <3> QED
      BY <3>1, <3>2, <3>3
  <2>6. Conserves(work)'
    BY <1>3, <2>2, <2>4, <2>5 DEF IInv, Conserves
  <2>7. pc' \in {"idle", "stale"} => work' = db'
    <3>1. SUFFICES ASSUME pc \in {"idle", "stale"} PROVE work' = db'
      BY <2>1
    <3>2. work = db
      BY <3>1 DEF IInv
    <3>3. b = FALSE
      BY <3>2
    <3> HIDE DEF b
    <3>4. work' = [OwnRows EXCEPT !.snapshot = FALSE]
      BY <2>1, <3>3, Zenon
    <3> QED
      BY <1>1, <1>3, <3>2, <3>4, OwnIsErased
  <2>8. pc' \in {"accrue", "settle"} => work'.snapshot = db'.snapshot /\ torn'
    <3>1. SUFFICES ASSUME pc \in {"accrue", "settle"} PROVE work'.snapshot = db'.snapshot /\ torn'
      BY <2>1
    <3>2. work.spot = db.spot
      BY <3>1 DEF IInv
    <3> QED
      BY <1>3, <1>4, <2>2, <3>1, <3>2
  <2> QED
    BY <1>4, <1>7, <1>8, <2>2, <2>6, <2>7, <2>8 DEF IInv
<1> QED
  BY <1>9, <1>10

(* A reset around the commit of an entry takes the snapshot it made, and    *)
(* leaves its legs (routes.py:313-325).                                     *)
LEMMA AcrossConserves ==
  ASSUME IInv, ResetAcrossCommit
  PROVE  IInv'
<1>1. /\ db \in Accounts /\ work \in Accounts
      /\ {work.settled, work.funding, work.dropped, erased, erased + work.funding} \subseteq Int
  BY DEF IInv, Accounts
<1>2. work.settled = work.funding + erased + work.dropped
  BY DEF IInv, Conserves
<1>3. /\ db' = OwnRows /\ work' = db' /\ erased' = erased + work.funding
      /\ torn' = TRUE /\ pc' = "idle" /\ order' = NoOrder
  BY DEF ResetAcrossCommit
<1>4. /\ db' \in Accounts /\ db'.funding = 0
      /\ db'.settled = work.settled /\ db'.dropped = work.dropped
  BY <1>1, <1>3, OwnRowsIs
<1>5. db'.settled = db'.funding + erased' + db'.dropped
  BY <1>1, <1>2, <1>3, <1>4
<1>6. NoOrder \in Orders
  BY DEF NoOrder, Orders
<1> QED
  BY <1>1, <1>3, <1>4, <1>5, <1>6 DEF IInv, Conserves

\* Whatever the runner, a fault, a restart or the operator does next.
LEMMA StepConserves ==
  ASSUME IInv, [Next]_vars
  PROVE  IInv'
<1>1. Contracts \subseteq Nat \ {0} /\ Marks \subseteq Nat /\ Rates \subseteq Int
  BY PerpBooksAssumption DEF PerpBooksAssumption
<1>0. order.contracts \in Nat /\ order.mark \in Nat
  <2>1. Contracts \union {0} \subseteq Nat /\ Marks \union {0} \subseteq Nat
    BY <1>1
  <2> QED
    BY <2>1 DEF IInv, Orders
\* Steps within an iteration that leave the snapshots and the funding alone.
<1>12. ASSUME UNCHANGED <<db, erased, torn>>, order' \in Orders,
              pc' \in {"enter_spot", "exit_spot", "commit"},
              work' \in Accounts, work'.funding = work.funding,
              work'.settled = work.settled, work'.dropped = work.dropped,
              work'.snapshot \/ (work'.snapshot = work.snapshot /\ work'.spot = work.spot)
       PROVE  IInv'
  <2>1. Conserves(work)'
    BY <1>12 DEF IInv, Conserves
  <2> QED
    BY <1>12, <2>1 DEF IInv, Conserves
<1>2. ASSUME NEW q \in Contracts, NEW mark \in Marks, EnterPerp(q, mark)
      PROVE  IInv'
  <2>1. q \in Nat /\ q > 0 /\ mark \in Nat
    BY <1>1
  <2>2. open_perp_short(work.perp, q, mark) \in Shorts
    BY <2>1, OpenTyped DEF IInv, Accounts
  <2>3. order' \in Orders
    BY <1>2 DEF EnterPerp, Orders
  <2> QED
    BY <1>2, <1>12, <2>2, <2>3, PerpConserves DEF EnterPerp, IInv, outside
<1>3. ASSUME EnterSpot PROVE IInv'
  <2>1. "buy" \in Sides
    BY DEF Sides
  <2> QED
    BY <1>0, <1>3, <1>12, <2>1, SpotFillTyped DEF EnterSpot, IInv, outside
<1>4. ASSUME EnterSpotFails PROVE IInv'
  BY <1>4 DEF EnterSpotFails, IInv, Conserves, outside
<1>5. ASSUME NEW mark \in Marks, ExitPerp(mark)
      PROVE  IInv'
  <2>1. close_perp_short(work.perp, work.perp.quantity, mark) \in Shorts
    <3>1. work.perp \in Shorts /\ work.perp.quantity \in Nat
      BY DEF IInv, Accounts, Shorts
    <3> QED
      BY <1>1, <3>1, CloseTyped
  <2>2. order' \in Orders
    BY <1>1, <1>5 DEF ExitPerp, NoOrder, Orders
  <2>3. pc' \in {"exit_spot", "commit"}
    BY <1>5 DEF ExitPerp
  <2> QED
    BY <1>5, <1>12, <2>1, <2>2, <2>3, PerpConserves DEF ExitPerp, IInv, outside
<1>6. ASSUME ExitSpot PROVE IInv'
  <2>1. "sell" \in Sides /\ work.spot.quantity \in Nat
    BY DEF IInv, Accounts, Rows, Sides
  <2> QED
    BY <1>0, <1>6, <1>12, <2>1, SpotFillTyped DEF ExitSpot, IInv, outside
<1>7. ASSUME NEW mark \in Marks, _handle_rebalance(mark)
      PROVE  IInv'
  <2> DEFINE r == IF work.spot.quantity > work.perp.quantity
                  THEN open_perp_short(work.perp, 1, mark)
                  ELSE close_perp_short(work.perp, 1, mark)
  <2>1. r \in Shorts
    <3>1. work.perp \in Shorts /\ mark \in Nat
      BY <1>1 DEF IInv, Accounts
    <3>2. 1 \in Nat /\ 1 > 0
      OBVIOUS
    <3>3. open_perp_short(work.perp, 1, mark) \in Shorts
      BY <3>1, <3>2, OpenTyped
    <3>4. close_perp_short(work.perp, 1, mark) \in Shorts
      BY <3>1, <3>2, CloseTyped
    <3> QED
      BY <3>3, <3>4
  <2>2. order' \in Orders
    BY <1>1, <1>7 DEF _handle_rebalance, NoOrder, Orders
  <2>3. work' = [work EXCEPT !.perp = r] /\ pc' = "commit"
    BY <1>7 DEF _handle_rebalance
  <2> HIDE DEF r
  <2> QED
    BY <1>7, <1>12, <2>1, <2>2, <2>3, PerpConserves DEF _handle_rebalance, IInv, outside
<1>8. ASSUME Trading, Hold PROVE IInv'
  <2>1. work.spot.quantity > 0
    BY <1>8, BalancedHasSpot DEF Hold, IInv
  <2> QED
    BY <1>8, <2>1 DEF Hold, IInv, Conserves, outside
<1>13. ASSUME NEW rate \in Rates, Accrue(rate) PROVE IInv'
  <2> DEFINE held == IF AccrualDue THEN accrue_hourly(work, rate) ELSE work
  <2>1. /\ held \in Accounts /\ held.snapshot = work.snapshot /\ held.spot = work.spot
        /\ held.settled = work.settled /\ held.funding = work.funding
        /\ held.dropped = work.dropped
    BY <1>1, AccrualConserves DEF IInv
  <2>2. /\ work' = held /\ pc = "accrue" /\ pc' \in {"settle", "commit"}
        /\ UNCHANGED <<db, order, erased, torn>>
    BY <1>13 DEF Accrue, outside
  <2> HIDE DEF held
  <2>3. Conserves(work)'
    BY <2>1, <2>2 DEF IInv, Conserves
  <2> QED
    BY <2>1, <2>2, <2>3 DEF IInv, Conserves
<1>14. ASSUME Settle PROVE IInv'
  <2> DEFINE total == db.unsettled
  <2>1. total \in Int /\ work \in Accounts
    BY DEF IInv, Accounts
  <2>2. /\ work' = settle(work, total) /\ pc = "settle" /\ pc' = "commit"
        /\ UNCHANGED <<db, order, erased, torn>>
    BY <1>14 DEF Settle, outside
  <2>3. /\ {work.settled, work.funding, work.dropped, erased} \subseteq Int
        /\ work.settled = work.funding + erased + work.dropped
    BY DEF IInv, Conserves, Accounts
  <2>4. work.snapshot = db.snapshot /\ (torn \/ work.snapshot)
    BY <2>2 DEF IInv
  <2> HIDE DEF total
  <2>5. /\ work' \in Accounts /\ work'.snapshot = work.snapshot /\ work'.spot = work.spot
        /\ work'.settled = work.settled + total
        /\ work.snapshot => work'.funding = work.funding + total /\ work'.dropped = work.dropped
        /\ ~work.snapshot => work'.funding = work.funding /\ work'.dropped = work.dropped + total
    BY <2>1, <2>2, SettleConserves
  <2>6. work'.settled = work'.funding + erased + work'.dropped
    <3>1. CASE work.snapshot
      BY <2>1, <2>3, <2>5, <3>1
    <3>2. CASE ~work.snapshot
      BY <2>1, <2>3, <2>5, <3>2
    <3> QED
      BY <3>1, <3>2
  <2>7. Conserves(work)'
    BY <2>2, <2>4, <2>5, <2>6 DEF IInv, Conserves
  <2>8. db'.snapshot \/ work'.funding = db'.funding
    BY <2>2, <2>4, <2>5 DEF IInv
  <2> QED
    BY <2>2, <2>5, <2>7, <2>8 DEF IInv, Conserves
<1>9. ASSUME Commit \/ Rollback \/ Restart \/ FlushFails PROVE IInv'
  <2>1. NoOrder \in Orders
    BY DEF NoOrder, Orders
  <2> QED
    BY <1>9, <2>1 DEF Commit, Rollback, Restart, FlushFails, IInv, Conserves, outside
<1>10. ASSUME reset_run_history PROVE IInv'
  BY <1>10, ResetConserves
<1>15. ASSUME ResetAcrossCommit PROVE IInv'
  BY <1>15, AcrossConserves
<1>11. ASSUME Tick \/ UNCHANGED vars PROVE IInv'
  BY <1>11 DEF Tick, vars, IInv, Conserves
<1> QED
  BY <1>2, <1>3, <1>4, <1>5, <1>6, <1>7, <1>8, <1>9, <1>10, <1>11, <1>13, <1>14, <1>15 DEF Next

(* Whatever the sizes, marks, rates, failures, restarts and resets, what    *)
(* the accruals marked as settled add up to is in the funding PnL, was      *)
(* deleted with it or was dropped, and none is dropped before a reset has   *)
(* met a hold, between its read of the legs and its settlement, or the      *)
(* commit of an entry (funding_accrual.py:132-175, routes.py:273-334).      *)
THEOREM FundingIsConserved == Spec => []FundingConserved
<1>1. IInv => FundingConserved
  BY DEF IInv, Conserves, FundingConserved
<1> QED
  BY <1>1, InitConserves, StepConserves, PTL DEF Spec

-----------------------------------------------------------------------------
(* Only a restart repeats an accrual.  A process accrues once in each hour  *)
(* it has begun; what the induction carries instead of the clock is the     *)
(* hour of the last accrual, which a rollback does not take back.           *)

\* Accruals there can be: the hours up to the last accrual of this process, or
\* up to now before its first, and one more for each process before it.
Limit ==
  IF last_accrual = Never THEN now \div AccrualPeriod + restarts
  ELSE last_accrual \div AccrualPeriod + 1 + restarts

HInv ==
  /\ now \in Nat /\ restarts \in Nat
  /\ last_accrual = Never \/ last_accrual \in 0..now
  /\ db.accruals <= Limit /\ work.accruals <= Limit

\* Hours do not run backwards, and a period later is the next hour.
LEMMA HoursPass ==
  ASSUME NEW a \in Nat, NEW b \in Nat, a <= b, NEW d \in Nat, d > 0
  PROVE  /\ a \div d \in Nat /\ b \div d \in Nat
         /\ a \div d <= b \div d
         /\ a + d <= b => a \div d + 1 <= b \div d
<1> DEFINE x == a \div d
           y == b \div d
<1>1. /\ x \in Nat /\ y \in Nat
      /\ d * x <= a /\ a < d * x + d
      /\ d * y <= b /\ b < d * y + d
  OBVIOUS
<1> HIDE DEF x, y
<1>2. \A m, n \in Nat : m < n => d * m + d <= d * n
  <2>1. \A m, n \in Nat : d * m + d = d * (m + 1)
    OBVIOUS
  <2>2. \A m, n \in Nat : m <= n => d * m <= d * n
    OBVIOUS
  <2> QED
    BY <2>1, <2>2
<1>3. x <= y
  <2>1. CASE y < x
    BY <1>1, <1>2, <2>1
  <2> QED
    BY <1>1, <2>1
<1>4. a + d <= b => x < y
  <2>1. CASE a + d <= b /\ x = y
    BY <1>1, <2>1
  <2> QED
    BY <1>1, <1>3, <2>1
<1> QED
  BY <1>1, <1>3, <1>4 DEF x, y

LEMMA LimitTyped ==
  ASSUME HInv
  PROVE  Limit \in Nat /\ Limit <= now \div AccrualPeriod + 1 + restarts
<1>1. AccrualPeriod \in Nat /\ AccrualPeriod > 0
  BY PerpBooksAssumption DEF PerpBooksAssumption
<1>2. CASE last_accrual = Never
  <2>1. now \div AccrualPeriod \in Nat
    BY <1>1, HoursPass DEF HInv
  <2> QED
    BY <1>2, <2>1 DEF HInv, Limit
<1>3. CASE last_accrual # Never
  <2>1. last_accrual \in Nat /\ last_accrual <= now
    BY <1>3 DEF HInv
  <2>2. /\ last_accrual \div AccrualPeriod \in Nat /\ now \div AccrualPeriod \in Nat
        /\ last_accrual \div AccrualPeriod <= now \div AccrualPeriod
    BY <1>1, <2>1, HoursPass DEF HInv
  <2> QED
    BY <1>3, <2>2 DEF HInv, Limit
<1> QED
  BY <1>2, <1>3

LEMMA InitHours == ASSUME Init PROVE HInv
<1>1. AccrualPeriod \in Nat /\ AccrualPeriod > 0
  BY PerpBooksAssumption DEF PerpBooksAssumption
<1>2. 0 \div AccrualPeriod = 0
  BY <1>1
<1> QED
  BY <1>2 DEF Init, HInv, Limit, Opened, Never

\* A step that leaves the clocks alone and adds no accrual.
LEMMA NoAccrual ==
  ASSUME HInv, UNCHANGED <<now, restarts, last_accrual>>,
         db'.accruals \in {db.accruals, work.accruals},
         work'.accruals \in {db.accruals, work.accruals}
  PROVE  HInv'
<1> QED
  BY DEF HInv, Limit

(* A hold accrues once the hour of the last accrual is over                 *)
(* (delta_neutral_runner.py:523).                                           *)
LEMMA AccrueKeepsHours ==
  ASSUME IInv, HInv, NEW rate \in Rates, Accrue(rate)
  PROVE  HInv'
<1>1. /\ work \in Accounts /\ db \in Accounts /\ rate \in Int
      /\ work.accruals \in Nat /\ db.accruals \in Nat
  BY PerpBooksAssumption DEF IInv, Accounts, PerpBooksAssumption
<1>4. /\ work' = IF AccrualDue THEN accrue_hourly(work, rate) ELSE work
      /\ last_accrual' = IF AccrualDue THEN now ELSE last_accrual
      /\ db' = db /\ now' = now /\ restarts' = restarts
  BY DEF Accrue, outside
<1>6. /\ work'.accruals \in {work.accruals, work.accruals + 1}
      /\ ~AccrualDue => work'.accruals = work.accruals
  BY <1>1, <1>4, AccrualConserves
<1>7. CASE ~AccrualDue
  BY <1>4, <1>6, <1>7, NoAccrual
<1>8. CASE AccrualDue
  <2>1. AccrualPeriod \in Nat /\ AccrualPeriod > 0
    BY PerpBooksAssumption DEF PerpBooksAssumption
  <2>2. now \div AccrualPeriod \in Nat
    BY <2>1, HoursPass DEF HInv
  <2>3. Limit' = now \div AccrualPeriod + 1 + restarts
    BY <1>4, <1>8 DEF HInv, Limit, Never
  <2>4. Limit + 1 <= now \div AccrualPeriod + 1 + restarts /\ Limit \in Nat
    <3>1. CASE last_accrual = Never
      BY <2>2, <3>1 DEF Limit, HInv
    <3>2. CASE last_accrual # Never
      <4>1. last_accrual \in Nat /\ last_accrual + AccrualPeriod <= now
        BY <1>8, <2>1, <3>2 DEF AccrualDue, HInv
      <4>2. /\ last_accrual \div AccrualPeriod \in Nat
            /\ last_accrual \div AccrualPeriod + 1 <= now \div AccrualPeriod
        BY <2>1, <4>1, HoursPass DEF HInv
      <4> QED
        BY <2>2, <3>2, <4>2 DEF Limit, HInv
    <3> QED
      BY <3>1, <3>2
  <2>5. db'.accruals <= Limit' /\ work'.accruals <= Limit'
    BY <1>1, <1>4, <1>6, <1>8, <2>2, <2>3, <2>4 DEF HInv
  <2> QED
    BY <1>4, <1>8, <2>5 DEF HInv
<1> QED
  BY <1>7, <1>8

\* Whatever else the runner, a fault, a restart, the clock or the operator does.
LEMMA StepKeepsHours ==
  ASSUME IInv, HInv, [Next]_vars
  PROVE  HInv'
<1>0. /\ work \in Accounts /\ db \in Accounts
      /\ work.accruals \in Nat /\ db.accruals \in Nat
  BY DEF IInv, Accounts
<1>1. ASSUME NEW r, work' = [work EXCEPT !.perp = r], UNCHANGED <<db, last_accrual, outside>>
      PROVE  HInv'
  <2>1. work'.accruals = work.accruals
    BY <1>0, <1>1 DEF Accounts
  <2> QED
    BY <1>1, <2>1, NoAccrual DEF outside
<1>2. ASSUME NEW fill, work' = _simulate_spot_fill(work, fill),
             UNCHANGED <<db, last_accrual, outside>>
      PROVE  HInv'
  <2>1. work'.accruals = work.accruals
    BY <1>0, <1>2, Zenon DEF _simulate_spot_fill, Accounts
  <2> QED
    BY <1>2, <2>1, NoAccrual DEF outside
<1>3. ASSUME NEW q, NEW mark, EnterPerp(q, mark) PROVE HInv'
  BY <1>1, <1>3 DEF EnterPerp
<1>4. ASSUME NEW mark, ExitPerp(mark) PROVE HInv'
  BY <1>1, <1>4 DEF ExitPerp
<1>5. ASSUME NEW mark, _handle_rebalance(mark) PROVE HInv'
  BY <1>1, <1>5 DEF _handle_rebalance
<1>6. ASSUME EnterSpot \/ ExitSpot PROVE HInv'
  BY <1>2, <1>6 DEF EnterSpot, ExitSpot
<1>7. ASSUME EnterSpotFails \/ Commit \/ Rollback \/ FlushFails PROVE HInv'
  BY <1>7, NoAccrual DEF EnterSpotFails, Commit, Rollback, FlushFails, outside
<1>8. ASSUME Restart PROVE HInv'
  <2>1. /\ db' = db /\ work' = db /\ now' = now /\ restarts' = restarts + 1
        /\ last_accrual' = Never
    BY <1>8 DEF Restart
  <2>2. Limit' = now \div AccrualPeriod + (restarts + 1)
    BY <2>1 DEF Limit
  <2>3. now \div AccrualPeriod \in Nat
    <3>1. AccrualPeriod \in Nat /\ AccrualPeriod > 0
      BY PerpBooksAssumption DEF PerpBooksAssumption
    <3> QED
      BY <3>1, HoursPass DEF HInv
  <2>4. db.accruals <= Limit /\ Limit \in Nat
        /\ Limit <= now \div AccrualPeriod + 1 + restarts /\ restarts \in Nat
    BY LimitTyped DEF HInv
  <2> QED
    BY <1>0, <2>1, <2>2, <2>3, <2>4 DEF HInv
<1>9. ASSUME reset_run_history PROVE HInv'
  <2>1. db'.accruals = db.accruals /\ UNCHANGED <<now, restarts, last_accrual>>
    BY <1>0, <1>9, ErasedIs DEF reset_run_history
  <2>2. CASE Changed
    <3>1. work' = db'
      BY <1>9, <2>2 DEF reset_run_history
    <3> QED
      BY <2>1, <3>1, NoAccrual
  <2>3. CASE ~Changed
    <3> DEFINE b == work.spot # db.spot
    <3>1. work' = [OwnRows EXCEPT !.snapshot = b] /\ b \in BOOLEAN
      BY <1>9, <2>3 DEF reset_run_history
    <3> HIDE DEF b
    <3>2. work'.accruals = work.accruals
      BY <1>0, <3>1, OwnRowsIs
    <3> QED
      BY <2>1, <3>2, NoAccrual
  <2> QED
    BY <2>2, <2>3
<1>12. ASSUME ResetAcrossCommit PROVE HInv'
  <2>1. db'.accruals = work.accruals /\ work' = db'
        /\ UNCHANGED <<now, restarts, last_accrual>>
    BY <1>0, <1>12, OwnRowsIs DEF ResetAcrossCommit
  <2> QED
    BY <2>1, NoAccrual
<1>13. ASSUME Settle PROVE HInv'
  <2>1. db.unsettled \in Int
    BY <1>0 DEF Accounts
  <2>2. work'.accruals = work.accruals
    BY <1>0, <1>13, <2>1, SettleConserves DEF Settle
  <2> QED
    BY <1>13, <2>2, NoAccrual DEF Settle, outside
<1>14. ASSUME Hold PROVE HInv'
  BY <1>14, NoAccrual DEF Hold, outside
<1>10. ASSUME Tick PROVE HInv'
  <2>1. /\ db' = db /\ work' = work /\ now' = now + 1 /\ restarts' = restarts
        /\ last_accrual' = last_accrual
    BY <1>10 DEF Tick
  <2>2. AccrualPeriod \in Nat /\ AccrualPeriod > 0
    BY PerpBooksAssumption DEF PerpBooksAssumption
  <2>3. /\ now \div AccrualPeriod \in Nat /\ (now + 1) \div AccrualPeriod \in Nat
        /\ now \div AccrualPeriod <= (now + 1) \div AccrualPeriod
    BY <2>2, HoursPass DEF HInv
  <2>4. Limit \in Nat /\ Limit' \in Nat /\ Limit <= Limit'
    <3>1. CASE last_accrual = Never
      BY <2>1, <2>3, <3>1 DEF Limit, HInv
    <3>2. CASE last_accrual # Never
      BY <2>1, <3>2, LimitTyped DEF Limit
    <3> QED
      BY <3>1, <3>2
  <2>5. db'.accruals <= Limit' /\ work'.accruals <= Limit'
    BY <1>0, <2>1, <2>4 DEF HInv
  <2> QED
    BY <2>1, <2>5 DEF HInv
<1>11. ASSUME UNCHANGED vars PROVE HInv'
  BY <1>11, NoAccrual DEF vars
<1> QED
  BY <1>3, <1>4, <1>5, <1>6, <1>7, <1>8, <1>9, <1>10, <1>11, <1>12, <1>13, <1>14,
     AccrueKeepsHours DEF Next

(* Through rollbacks that lose an accrual and restarts that forget it, no   *)
(* hour is accrued more often than the process has been started             *)
(* (delta_neutral_runner.py:523-536).                                       *)
THEOREM OnlyRestartRepeatsHour == Spec => []RestartRepeatsOneHour
<1>1. IInv /\ HInv => RestartRepeatsOneHour
  <2> SUFFICES ASSUME IInv, HInv PROVE RestartRepeatsOneHour
    OBVIOUS
  <2>1. db.accruals \in Nat /\ db.accruals <= Limit
    BY DEF IInv, HInv, Accounts
  <2>2. Limit \in Nat /\ Limit <= now \div AccrualPeriod + 1 + restarts
    BY LimitTyped
  <2>3. now \div AccrualPeriod \in Nat /\ restarts \in Nat
    <3>1. AccrualPeriod \in Nat /\ AccrualPeriod > 0
      BY PerpBooksAssumption DEF PerpBooksAssumption
    <3> QED
      BY <3>1, HoursPass DEF HInv
  <2> QED
    BY <2>1, <2>2, <2>3 DEF RestartRepeatsOneHour
<1> QED
  BY <1>1, InitConserves, StepConserves, InitHours, StepKeepsHours, PTL DEF Spec

-----------------------------------------------------------------------------
(* The legs.  A spot leg is bought only to match a short just opened from   *)
(* nothing, and sold only after the short was closed; between iterations it *)
(* is either absent or exactly as large as the short.  So a rebalance only  *)
(* ever closes, every average is the mark of one entry, and the margin of   *)
(* a part divides evenly, whatever the sizes and marks.                     *)

\* Between iterations: no spot leg, or one as large as the short.
Hedged(w) ==
  w.spot.quantity = 0 \/ (w.spot.quantity = w.perp.quantity /\ w.spot.side = "buy")

\* No leg is larger than an entry, and the margin is the cost of the short.
Costed(w) ==
  /\ GoodRow(w.spot) /\ w.spot.quantity \in Contracts \union {0}
  /\ \E c \in Contracts \union {0} : w.perp.quantity <= c
  /\ w.perp.margin_posted = w.perp.quantity * w.perp.avg_entry_price

\* What the session may hold that is not committed: a larger spot leg or other
\* money, beside a committed row that is empty, only by an entry on it.
Grown ==
  /\ work.spot.quantity > db.spot.quantity => db.perp.quantity = 0
  /\ db.perp.quantity = 0 => work.perp.realized_pnl = db.perp.realized_pnl
  /\ db.spot = NoRow => work.realized = db.realized

LInv ==
  /\ Costed(db) /\ Costed(work)
  /\ Hedged(db) /\ (pc \notin {"enter_spot", "exit_spot"} => Hedged(work))
  /\ pc = "enter_spot" =>
       /\ work.spot.quantity = 0 /\ work.perp.quantity = order.contracts
       /\ order.contracts \in Contracts /\ order.mark \in Marks
       /\ db.perp.quantity = 0
  /\ pc = "exit_spot" =>
       /\ work.perp.quantity = 0 /\ work.spot.side = "buy" /\ order.mark \in Marks
       /\ work.spot.quantity > 0 /\ db.perp.quantity > 0 /\ db.spot # NoRow
  /\ Grown

\* The money of a short: what it has realized and what it was sold for.
Proceeds(short) == short.realized_pnl + short.quantity * short.avg_entry_price

(* A short opened from nothing has the mark as its average and the whole    *)
(* margin of its contracts (perp_execution.py:85-110).                      *)
LEMMA OpenFromFlat ==
  ASSUME NEW short \in Shorts, short.quantity = 0,
         short.margin_posted = short.quantity * short.avg_entry_price,
         NEW q \in Nat, q > 0, NEW mark \in Nat
  PROVE  LET new == open_perp_short(short, q, mark)
         IN /\ new.quantity = q
            /\ new.margin_posted = new.quantity * new.avg_entry_price
            /\ Proceeds(new) = Proceeds(short) + q * mark
<1> DEFINE new == open_perp_short(short, q, mark)
           avg == short.avg_entry_price
<1>1. avg \in Nat /\ short.margin_posted \in Nat /\ short.realized_pnl \in Int
  BY DEF Shorts
<1>2. /\ new.quantity = short.quantity + q
      /\ new.avg_entry_price = (short.quantity * avg + q * mark) \div (short.quantity + q)
      /\ new.margin_posted = short.margin_posted + q * mark
      /\ new.realized_pnl = short.realized_pnl
  BY Zenon DEF open_perp_short, Shorts
<1> HIDE DEF new, avg
<1>3. 0 * avg = 0 /\ q * mark \in Nat
  BY <1>1
<1>4. (0 + q * mark) \div (0 + q) = mark
  OBVIOUS
<1>5. /\ new.quantity = q /\ new.avg_entry_price = mark /\ new.margin_posted = q * mark
  <2>1. short.margin_posted = 0
    BY <1>3 DEF avg
  <2>2. 0 + q = q /\ 0 + q * mark = q * mark
    BY <1>3
  <2> QED
    BY <1>2, <1>3, <1>4, <2>1, <2>2
<1>6. Proceeds(new) = Proceeds(short) + q * mark
  <2>1. Proceeds(short) = short.realized_pnl + 0
    BY <1>3 DEF Proceeds, avg
  <2>2. Proceeds(new) = short.realized_pnl + q * mark
    BY <1>2, <1>5 DEF Proceeds
  <2> QED
    BY <1>1, <1>3, <2>1, <2>2
<1> QED
  BY <1>5, <1>6 DEF new

(* Closing a part returns its share of the margin, and books what was paid  *)
(* for it (perp_execution.py:190-225).                                      *)
LEMMA ClosePart ==
  ASSUME NEW short \in Shorts, short.quantity > 0,
         short.margin_posted = short.quantity * short.avg_entry_price,
         NEW q \in Nat, q > 0, NEW mark \in Nat
  PROVE  LET new == close_perp_short(short, q, mark)
             closed == Lesser(q, short.quantity)
         IN /\ new.quantity = short.quantity - closed
            /\ new.margin_posted = new.quantity * new.avg_entry_price
            /\ Proceeds(new) = Proceeds(short) - closed * mark
<1> DEFINE new == close_perp_short(short, q, mark)
           closed == Lesser(q, short.quantity)
           Q == short.quantity
           A == short.avg_entry_price
           R == short.realized_pnl
<1>1. Q \in Nat /\ Q > 0 /\ A \in Nat /\ R \in Int /\ closed \in Nat /\ closed <= Q
  BY DEF Shorts, Lesser
<1>2. /\ new.quantity = Q - closed
      /\ new.avg_entry_price = IF closed = Q THEN 0 ELSE A
      /\ new.margin_posted = Q * A - (closed * (Q * A)) \div Q
      /\ new.realized_pnl = R + (A - mark) * closed
  BY DEF close_perp_short, MarginReturned, Realized
<1> HIDE DEF new, closed, Q, A, R
<1>3. (closed * (Q * A)) \div Q = closed * A
  <2>1. closed * (Q * A) = Q * (closed * A) /\ closed * A \in Nat
    BY <1>1
  <2>2. \A x, y \in Nat : y > 0 => (y * x) \div y = x
    OBVIOUS
  <2> QED
    BY <1>1, <2>1, <2>2
<1>4. /\ (A - mark) * closed = closed * A - closed * mark
      /\ (Q - closed) * A = Q * A - closed * A
      /\ closed * A \in Nat /\ closed * mark \in Nat /\ Q * A \in Nat
  BY <1>1
<1>5. new.quantity * new.avg_entry_price = Q * A - closed * A
  <2>1. CASE closed = Q
    <3>1. new.quantity = 0 /\ new.avg_entry_price = 0
      BY <1>1, <1>2, <2>1
    <3>2. Q * A - closed * A = 0
      BY <1>4, <2>1
    <3> QED
      BY <3>1, <3>2
  <2>2. CASE closed # Q
    BY <1>2, <1>4, <2>2
  <2> QED
    BY <2>1, <2>2
<1>6. new.margin_posted = new.quantity * new.avg_entry_price
  BY <1>2, <1>3, <1>5
<1>7. Proceeds(new) = Proceeds(short) - closed * mark
  <2>1. Proceeds(short) = R + Q * A
    BY DEF Proceeds, R, Q, A
  <2>2. Proceeds(new) = (R + (closed * A - closed * mark)) + (Q * A - closed * A)
    BY <1>2, <1>4, <1>5 DEF Proceeds
  <2> QED
    BY <1>1, <1>4, <2>1, <2>2
<1> QED
  BY <1>2, <1>6, <1>7 DEF new, closed, Q

(* Buying from nothing: one row at the price of the fill                    *)
(* (delta_neutral_runner.py:757-800).                                       *)
LEMMA SpotBought ==
  ASSUME NEW w \in Accounts, GoodRow(w.spot), w.spot.quantity = 0,
         NEW q \in Nat, q > 0, NEW price \in Nat, price > 0
  PROVE  LET v == _simulate_spot_fill(w, [side |-> "buy", quantity |-> q, price |-> price])
         IN /\ v.spot = [side |-> "buy", quantity |-> q, avg_entry_price |-> price]
            /\ v.realized = w.realized /\ v.perp = w.perp
<1> DEFINE fill == [side |-> "buy", quantity |-> q, price |-> price]
           row == w.spot
           new == update_position_from_fill(row, fill)
           gain == _compute_realized_pnl(row, fill)
           v == _simulate_spot_fill(w, fill)
<1>1. Net(row) = 0 /\ Signed(fill) = q
  BY NetOfEmpty DEF Signed, _signed_qty
<1>2. row.avg_entry_price = 0
  BY DEF GoodRow, Rows
<1>3. gain = 0
  BY <1>1 DEF _compute_realized_pnl
<1>4. new = Added(row, fill, Abs(q))
  <2>1. 0 + q = q /\ q # 0
    OBVIOUS
  <2> HIDE DEF fill, row
  <2> QED
    BY <1>1, <2>1 DEF update_position_from_fill
<1>5. Abs(q) = q /\ WeightedAverage(row, fill) = price
  <2>1. \A x, y \in Nat : y > 0 => (0 * 0 + y * x) \div (0 + y) = x
    OBVIOUS
  <2>2. WeightedAverage(row, fill) = (0 * 0 + q * price) \div (0 + q)
    BY <1>2 DEF WeightedAverage
  <2> QED
    BY <2>1, <2>2 DEF Abs
<1>6. new = [side |-> "buy", quantity |-> q, avg_entry_price |-> price]
  BY <1>4, <1>5 DEF Added
<1>7. v.spot = [new EXCEPT !.side = "buy"] /\ v.realized = w.realized + gain /\ v.perp = w.perp
  <2>1. fill.side = "buy"
    OBVIOUS
  <2> HIDE DEF fill, row
  <2> QED
    BY <2>1, Zenon DEF _simulate_spot_fill, Accounts, row
<1>8. w.realized \in Int
  BY DEF Accounts
<1> HIDE DEF v, gain, new
<1>9. v.spot = [side |-> "buy", quantity |-> q, avg_entry_price |-> price]
  BY <1>6, <1>7
<1>10. v.realized = w.realized /\ v.perp = w.perp
  BY <1>3, <1>7, <1>8
<1> QED
  BY <1>9, <1>10 DEF v

(* Selling the whole leg: an empty row, and the difference of the prices.   *)
LEMMA SpotSold ==
  ASSUME NEW w \in Accounts, GoodRow(w.spot), w.spot.quantity > 0, w.spot.side = "buy",
         NEW price \in Nat
  PROVE  LET v == _simulate_spot_fill(w, [side |-> "sell", quantity |-> w.spot.quantity,
                                          price |-> price])
         IN /\ v.spot = [side |-> "sell", quantity |-> 0, avg_entry_price |-> 0]
            /\ v.realized = w.realized
                 + (price - w.spot.avg_entry_price) * w.spot.quantity
            /\ v.perp = w.perp
<1> DEFINE row == w.spot
           fill == [side |-> "sell", quantity |-> row.quantity, price |-> price]
           new == update_position_from_fill(row, fill)
           gain == _compute_realized_pnl(row, fill)
           v == _simulate_spot_fill(w, fill)
<1>1. /\ row \in Rows /\ row.quantity \in Nat /\ row.quantity > 0
      /\ Net(row) = row.quantity /\ Signed(fill) = -row.quantity
  BY DEF GoodRow, Rows, Net, Signed, _signed_qty
<1>2. Net(row) + Signed(fill) = 0 /\ Net(row) > 0 /\ ~SameDirection(Net(row), Signed(fill))
  BY <1>1 DEF SameDirection
<1>3. new = [row EXCEPT !.quantity = 0, !.avg_entry_price = 0]
  BY <1>2, Zenon DEF update_position_from_fill
<1>4. gain = (price - row.avg_entry_price) * row.quantity
  <2>1. Lesser(row.quantity, fill.quantity) = row.quantity
    BY <1>1 DEF Lesser
  <2>2. Net(row) # 0
    BY <1>2
  <2>3. fill.price = price
    OBVIOUS
  <2> HIDE DEF fill, row
  <2> QED
    BY <1>2, <2>1, <2>2, <2>3 DEF _compute_realized_pnl
<1>5. v.spot = [new EXCEPT !.side = "sell"] /\ v.realized = w.realized + gain /\ v.perp = w.perp
  <2>1. fill.side = "sell"
    OBVIOUS
  <2> HIDE DEF fill
  <2> QED
    BY <2>1, Zenon DEF _simulate_spot_fill, Accounts
<1>6. v.spot = [side |-> "sell", quantity |-> 0, avg_entry_price |-> 0]
  BY <1>1, <1>3, <1>5 DEF Rows
<1> QED
  BY <1>4, <1>5, <1>6

\* What each trading step does to the legs and the money of the session.
LEMMA EnterPerpMoves ==
  ASSUME IInv, LInv, NEW q \in Contracts, NEW mark \in Marks, EnterPerp(q, mark)
  PROVE  /\ work'.spot = work.spot /\ work'.realized = work.realized
         /\ work.perp.quantity = 0 /\ work.spot.quantity = 0
         /\ work'.perp.quantity = q
         /\ work'.perp.margin_posted = work'.perp.quantity * work'.perp.avg_entry_price
         /\ Proceeds(work'.perp) = Proceeds(work.perp) + q * mark
         /\ work'.perp.realized_pnl = work.perp.realized_pnl
<1>1. q \in Nat /\ q > 0 /\ mark \in Nat
  BY PerpBooksAssumption DEF PerpBooksAssumption
<1>2. work \in Accounts /\ work.perp \in Shorts
  BY DEF IInv, Accounts
<1>3. work' = [work EXCEPT !.perp = open_perp_short(@, q, mark)] /\ Flat(work)
  BY DEF EnterPerp
<1>4. /\ work'.perp = open_perp_short(work.perp, q, mark)
      /\ work'.spot = work.spot /\ work'.realized = work.realized
  BY <1>2, <1>3, Zenon DEF Accounts
<1>5. /\ work.perp.quantity = 0 /\ work.spot.quantity = 0
      /\ work.perp.margin_posted = work.perp.quantity * work.perp.avg_entry_price
  BY <1>3 DEF Flat, LInv, Costed
<1>6. work'.perp.realized_pnl = work.perp.realized_pnl
  BY <1>2, <1>4, Zenon DEF open_perp_short, Shorts
<1>7. /\ work'.perp.quantity = q
      /\ work'.perp.margin_posted = work'.perp.quantity * work'.perp.avg_entry_price
      /\ Proceeds(work'.perp) = Proceeds(work.perp) + q * mark
  BY <1>1, <1>2, <1>4, <1>5, OpenFromFlat
<1> QED
  BY <1>4, <1>5, <1>6, <1>7

LEMMA EnterSpotMoves ==
  ASSUME IInv, LInv, EnterSpot
  PROVE  /\ order.contracts \in Contracts /\ order.mark \in Marks
         /\ work.spot.quantity = 0 /\ work.perp.quantity = order.contracts
         /\ work'.perp = work.perp /\ work'.realized = work.realized
         /\ work'.spot = [side |-> "buy", quantity |-> order.contracts,
                          avg_entry_price |-> order.mark]
<1>1. /\ order.contracts \in Contracts /\ order.mark \in Marks
      /\ work.spot.quantity = 0 /\ work.perp.quantity = order.contracts
  BY DEF EnterSpot, LInv
<1>2. order.contracts \in Nat /\ order.contracts > 0 /\ order.mark \in Nat /\ order.mark > 0
  <2>1. Contracts \subseteq Nat \ {0} /\ Marks \subseteq Nat \ {0}
    BY PerpBooksAssumption DEF PerpBooksAssumption
  <2> DEFINE q == order.contracts
             mark == order.mark
  <2>2. q \in Nat \ {0} /\ mark \in Nat \ {0}
    BY <1>1, <2>1
  <2> HIDE DEF q, mark
  <2>3. q \in Nat /\ q > 0 /\ mark \in Nat /\ mark > 0
    BY <2>2
  <2> QED
    BY <2>3 DEF q, mark
<1>3. work \in Accounts /\ GoodRow(work.spot)
  BY DEF IInv, LInv, Costed
<1>4. work' = _simulate_spot_fill(work,
                [side |-> "buy", quantity |-> order.contracts, price |-> order.mark])
  BY DEF EnterSpot
<1> QED
  BY <1>1, <1>2, <1>3, <1>4, SpotBought

\* A position has a short, and all of it is bought back.
LEMMA ExitPerpMoves ==
  ASSUME IInv, LInv, NEW mark \in Marks, ExitPerp(mark)
  PROVE  /\ work'.spot = work.spot /\ work'.realized = work.realized
         /\ Hedged(work) /\ work.perp.quantity > 0
         /\ work'.perp.quantity = 0
         /\ work'.perp.margin_posted = work'.perp.quantity * work'.perp.avg_entry_price
         /\ Proceeds(work'.perp) = Proceeds(work.perp) - work.perp.quantity * mark
<1>1. mark \in Nat
  BY PerpBooksAssumption DEF PerpBooksAssumption
<1>2. /\ work \in Accounts /\ work.perp \in Shorts /\ work.perp.quantity \in Nat
      /\ work.spot.quantity \in Nat
  BY DEF IInv, Accounts, Shorts, Rows
<1>3. /\ work' = [work EXCEPT !.perp = close_perp_short(@, @.quantity, mark)]
      /\ ~Flat(work) /\ pc = "idle"
  BY DEF ExitPerp
<1>4. /\ work'.perp = close_perp_short(work.perp, work.perp.quantity, mark)
      /\ work'.spot = work.spot /\ work'.realized = work.realized
  BY <1>2, <1>3, Zenon DEF Accounts
<1>5. Hedged(work) /\ work.perp.quantity > 0
  BY <1>2, <1>3 DEF LInv, Hedged, Flat
<1>6. work.perp.margin_posted = work.perp.quantity * work.perp.avg_entry_price
  BY DEF LInv, Costed
<1>7. /\ Lesser(work.perp.quantity, work.perp.quantity) = work.perp.quantity
      /\ work.perp.quantity - work.perp.quantity = 0
  BY <1>2 DEF Lesser
<1> QED
  BY <1>1, <1>2, <1>4, <1>5, <1>6, <1>7, ClosePart

LEMMA ExitSpotMoves ==
  ASSUME IInv, LInv, ExitSpot
  PROVE  /\ order.mark \in Marks /\ work.spot.quantity > 0 /\ work.spot.side = "buy"
         /\ work'.perp = work.perp /\ work.perp.quantity = 0
         /\ work'.spot = [side |-> "sell", quantity |-> 0, avg_entry_price |-> 0]
         /\ work'.realized = work.realized
              + (order.mark - work.spot.avg_entry_price) * work.spot.quantity
<1>1. /\ order.mark \in Marks /\ work.spot.quantity > 0 /\ work.spot.side = "buy"
      /\ work.perp.quantity = 0
  BY DEF ExitSpot, LInv
<1>2. order.mark \in Nat
  BY <1>1, PerpBooksAssumption DEF PerpBooksAssumption
<1>3. work \in Accounts /\ GoodRow(work.spot)
  BY DEF IInv, LInv, Costed
<1>4. work' = _simulate_spot_fill(work,
                [side |-> "sell", quantity |-> work.spot.quantity, price |-> order.mark])
  BY DEF ExitSpot
<1> QED
  BY <1>1, <1>2, <1>3, <1>4, SpotSold

\* What is not balanced is a short without a spot leg: one contract is closed.
LEMMA RebalanceMoves ==
  ASSUME IInv, LInv, NEW mark \in Marks, _handle_rebalance(mark)
  PROVE  /\ work'.spot = work.spot /\ work'.realized = work.realized
         /\ work.spot.quantity = 0 /\ work.perp.quantity > 0
         /\ work'.perp.quantity = work.perp.quantity - 1
         /\ work'.perp.margin_posted = work'.perp.quantity * work'.perp.avg_entry_price
         /\ Proceeds(work'.perp) = Proceeds(work.perp) - 1 * mark
<1>1. mark \in Nat
  BY PerpBooksAssumption DEF PerpBooksAssumption
<1>2. /\ work \in Accounts /\ work.perp \in Shorts /\ work.perp.quantity \in Nat
      /\ work.spot.quantity \in Nat
  BY DEF IInv, Accounts, Shorts, Rows
<1>3. /\ work' = [work EXCEPT !.perp =
                    IF work.spot.quantity > @.quantity THEN open_perp_short(@, 1, mark)
                    ELSE close_perp_short(@, 1, mark)]
      /\ ~Flat(work) /\ ~is_balanced(work) /\ pc = "idle"
  BY DEF _handle_rebalance
<1>4. work.spot.quantity = 0 /\ work.perp.quantity > 0
  BY <1>2, <1>3 DEF LInv, Hedged, Flat, is_balanced
<1>5. ~(work.spot.quantity > work.perp.quantity)
  BY <1>2, <1>4
<1>6. /\ work'.perp = close_perp_short(work.perp, 1, mark)
      /\ work'.spot = work.spot /\ work'.realized = work.realized
  BY <1>2, <1>3, <1>5, Zenon DEF Accounts
<1>7. work.perp.margin_posted = work.perp.quantity * work.perp.avg_entry_price
  BY DEF LInv, Costed
<1>8. Lesser(1, work.perp.quantity) = 1
  BY <1>2, <1>4 DEF Lesser
<1>9. 1 \in Nat /\ 1 > 0
  OBVIOUS
<1> QED
  BY <1>1, <1>2, <1>4, <1>6, <1>7, <1>8, <1>9, ClosePart

\* Neither accruing nor settling trades anything.
LEMMA HoldMoves ==
  ASSUME IInv, Settle \/ \E rate \in Rates : Accrue(rate)
  PROVE  work'.spot = work.spot /\ work'.perp = work.perp /\ work'.realized = work.realized
<1>1. work \in Accounts /\ db.unsettled \in Int
  BY DEF IInv, Accounts
<1>2. CASE Settle
  BY <1>1, <1>2, SettleConserves DEF Settle
<1>3. ASSUME NEW rate \in Rates, Accrue(rate)
      PROVE  work'.spot = work.spot /\ work'.perp = work.perp /\ work'.realized = work.realized
  <2>1. rate \in Int
    BY PerpBooksAssumption DEF PerpBooksAssumption
  <2> QED
    BY <1>1, <1>3, <2>1, AccrualConserves DEF Accrue
<1> QED
  BY <1>2, <1>3

\* Accounts without a leg, and rows that are only relabelled.
LEMMA EmptyIsHedged ==
  ASSUME NEW w, w.spot = NoRow,
         w.perp.quantity \in Contracts \union {0},
         w.perp.margin_posted = w.perp.quantity * w.perp.avg_entry_price
  PROVE  Costed(w) /\ Hedged(w)
<1>1. GoodRow(NoRow) /\ NoRow.quantity = 0
  BY DEF NoRow, GoodRow, Rows, Sides
<1>2. w.perp.quantity <= w.perp.quantity
  <2>1. Contracts \union {0} \subseteq Nat
    BY PerpBooksAssumption DEF PerpBooksAssumption
  <2>2. w.perp.quantity \in Nat
    BY <2>1, Zenon
  <2> QED
    BY <2>2
<1> QED
  BY <1>1, <1>2 DEF Costed, Hedged

\* No short is at its cost.
LEMMA NoShortCosted ==
  /\ NoShort.quantity = 0 /\ NoShort.realized_pnl = 0
  /\ NoShort.margin_posted = NoShort.quantity * NoShort.avg_entry_price
<1> QED
  BY DEF NoShort

LEMMA InitHedged == ASSUME Init PROVE LInv
<1>1. /\ db = Opened /\ work = db /\ pc = "idle"
  BY DEF Init
<1>2. Opened.spot = NoRow /\ Opened.perp = NoShort /\ NoRow.quantity = 0
  BY DEF Opened, NoRow
<1>3. Costed(Opened) /\ Hedged(Opened)
  BY <1>2, NoShortCosted, EmptyIsHedged
<1>4. Grown
  BY <1>1, <1>2 DEF Grown
<1> QED
  BY <1>1, <1>3, <1>4 DEF LInv

\* A row emptied on either side, and one bought, are rows.
LEMMA SpotRowsGood ==
  /\ \A side \in Sides : GoodRow([side |-> side, quantity |-> 0, avg_entry_price |-> 0])
  /\ \A q, price \in Nat \ {0} :
       GoodRow([side |-> "buy", quantity |-> q, avg_entry_price |-> price])
<1>1. \A side \in Sides : [side |-> side, quantity |-> 0, avg_entry_price |-> 0] \in Rows
  BY DEF Rows
<1>2. \A q, price \in Nat : [side |-> "buy", quantity |-> q, avg_entry_price |-> price] \in Rows
  BY DEF Rows, Sides
<1>3. "none" \notin Sides /\ "buy" # "none"
  BY DEF Sides
<1> QED
  BY <1>1, <1>2, <1>3 DEF GoodRow

\* What is left of an iteration after a reset is hedged as it was.
LEMMA OwnRowsHedged ==
  ASSUME IInv, LInv, NEW v, v.perp = OwnRows.perp, v.spot = OwnRows.spot
  PROVE  /\ Costed(v) /\ (pc \notin {"enter_spot", "exit_spot"} => Hedged(v))
         /\ work.spot.quantity = 0 => v.spot.quantity = 0
         /\ OpensShort => v.perp.quantity = work.perp.quantity
         /\ v.perp.realized_pnl = 0
<1>1. /\ db \in Accounts /\ work \in Accounts /\ work.perp \in Shorts
      /\ work.perp.quantity \in Nat /\ work.spot.quantity \in Nat
      /\ db.perp.quantity \in Nat
  BY DEF IInv, Accounts, Shorts, Rows
<1>2. /\ v.perp = IF OpensShort THEN [work.perp EXCEPT !.realized_pnl = 0] ELSE NoShort
      /\ v.spot = IF db.spot = NoRow THEN work.spot ELSE NoRow
  BY <1>1, OwnRowsIs
<1>3. LET r == [work.perp EXCEPT !.realized_pnl = 0]
      IN /\ r.quantity = work.perp.quantity /\ r.realized_pnl = 0
         /\ r.margin_posted = work.perp.margin_posted
         /\ r.avg_entry_price = work.perp.avg_entry_price
  BY <1>1 DEF Shorts
<1>4. /\ NoRow.quantity = 0 /\ GoodRow(NoRow)
  BY DEF NoRow, GoodRow, Rows, Sides
<1>5. /\ Costed(work)
      /\ work.perp.margin_posted = work.perp.quantity * work.perp.avg_entry_price
  BY DEF LInv, Costed
<1>6. /\ v.perp.realized_pnl = 0
      /\ v.perp.quantity = IF OpensShort THEN work.perp.quantity ELSE 0
      /\ v.perp.margin_posted = v.perp.quantity * v.perp.avg_entry_price
  <2>1. CASE OpensShort
    BY <1>2, <1>3, <1>5, <2>1
  <2>2. CASE ~OpensShort
    BY <1>2, <2>2, NoShortCosted
  <2> QED
    BY <2>1, <2>2
<1>7. \E c \in Contracts \union {0} : v.perp.quantity <= c
  <2>1. 0 \in Contracts \union {0} /\ 0 <= 0
    OBVIOUS
  <2> QED
    BY <1>5, <1>6, <2>1 DEF Costed
<1>8. GoodRow(v.spot) /\ v.spot.quantity \in Contracts \union {0}
  BY <1>2, <1>4, <1>5 DEF Costed
<1>9. Costed(v)
  BY <1>6, <1>7, <1>8 DEF Costed
<1>10. ASSUME Hedged(work) PROVE Hedged(v)
  <2>1. CASE db.spot # NoRow \/ work.spot.quantity = 0
    BY <1>2, <1>4, <2>1 DEF Hedged
  <2>2. CASE db.spot = NoRow /\ work.spot.quantity # 0
    <3>1. work.spot.quantity > 0 /\ db.spot.quantity = 0
      BY <1>1, <1>4, <2>2
    <3>2. db.perp.quantity = 0
      BY <3>1 DEF LInv, Grown
    <3>3. work.spot.quantity = work.perp.quantity /\ work.spot.side = "buy"
      BY <1>10, <2>2 DEF Hedged
    <3>4. OpensShort
      BY <3>1, <3>2, <3>3 DEF OpensShort
    <3> QED
      BY <1>2, <1>6, <2>2, <3>3, <3>4 DEF Hedged
  <2> QED
    BY <2>1, <2>2
<1> QED
  BY <1>2, <1>4, <1>6, <1>9, <1>10 DEF LInv

(* A reset leaves nothing, or the row of the short just opened              *)
(* (routes.py:273-334).                                                     *)
LEMMA ResetHedged ==
  ASSUME IInv, LInv, reset_run_history
  PROVE  LInv'
<1>1. /\ db \in Accounts /\ work \in Accounts
      /\ work.perp.quantity \in Nat /\ work.spot.quantity \in Nat
      /\ db.perp.quantity \in Nat
  BY DEF IInv, Accounts, Shorts, Rows
<1>2. /\ db' = Erased(db) /\ order' = order
  BY DEF reset_run_history
<1>3. /\ db'.spot = NoRow /\ db'.perp = NoShort /\ db'.realized = 0
  BY <1>1, <1>2, ErasedIs
<1>4. Costed(db') /\ Hedged(db')
  BY <1>3, NoShortCosted, EmptyIsHedged
<1>5. NoRow.quantity = 0
  BY DEF NoRow
<1>6. CASE Changed
  <2>1. work' = db' /\ pc' = "stale"
    BY <1>6 DEF reset_run_history
  <2>2. Grown'
    BY <1>3, <1>5, <2>1, NoShortCosted DEF Grown
  <2> QED
    BY <1>4, <2>1, <2>2 DEF LInv
<1>7. CASE ~Changed
  <2> DEFINE b == work.spot # db.spot
  <2>1. /\ work' = [OwnRows EXCEPT !.snapshot = b] /\ pc' = pc /\ b \in BOOLEAN
    BY <1>7 DEF reset_run_history
  <2> HIDE DEF b
  <2>2. work'.perp = OwnRows.perp /\ work'.spot = OwnRows.spot /\ work'.realized = 0
    BY <1>1, <2>1, OwnRowsIs
  <2>3. /\ Costed(work') /\ (pc \notin {"enter_spot", "exit_spot"} => Hedged(work'))
        /\ work.spot.quantity = 0 => work'.spot.quantity = 0
        /\ OpensShort => work'.perp.quantity = work.perp.quantity
        /\ work'.perp.realized_pnl = 0
    BY <2>2, OwnRowsHedged
  <2>4. Grown'
    BY <1>3, <2>2, <2>3, NoShortCosted DEF Grown
  <2>5. pc # "exit_spot"
    <3>1. ASSUME pc = "exit_spot" PROVE FALSE
      <4>1. db.perp.quantity > 0 /\ work.perp.quantity = 0
        BY <3>1 DEF LInv
      <4>2. work.perp # db.perp
        BY <1>1, <4>1
      <4> QED
        BY <1>7, <4>1, <4>2 DEF Changed
    <3> QED
      BY <3>1
  <2>6. ASSUME pc = "enter_spot"
        PROVE  /\ work'.spot.quantity = 0 /\ work'.perp.quantity = order.contracts
               /\ order.contracts \in Contracts /\ order.mark \in Marks
    <3>1. /\ db.perp.quantity = 0 /\ work.perp.quantity = order.contracts
          /\ work.spot.quantity = 0
          /\ order.contracts \in Contracts /\ order.mark \in Marks
      BY <2>6 DEF LInv
    <3>2. work.perp.quantity > 0
      <4>1. 0 \notin Contracts
        BY PerpBooksAssumption DEF PerpBooksAssumption
      <4>2. work.perp.quantity # 0
        BY <3>1, <4>1, Zenon
      <4> QED
        BY <1>1, <4>2
    <3>3. OpensShort
      BY <3>1, <3>2 DEF OpensShort
    <3> QED
      BY <2>3, <3>1, <3>3
  <2> QED
    BY <1>2, <1>3, <1>4, <2>1, <2>3, <2>4, <2>5, <2>6, NoShortCosted DEF LInv
<1> QED
  BY <1>6, <1>7

LEMMA AcrossHedged ==
  ASSUME IInv, LInv, ResetAcrossCommit
  PROVE  LInv'
<1>1. /\ db' = OwnRows /\ work' = db' /\ pc = "commit" /\ pc' = "idle"
  BY DEF ResetAcrossCommit
<1>2. Costed(OwnRows) /\ Hedged(OwnRows)
  BY <1>1, OwnRowsHedged
<1>3. OwnRows.spot.quantity \in Nat
  BY OwnRowsIs DEF IInv, Accounts, Rows
<1>4. Grown'
  BY <1>1, <1>3 DEF Grown
<1> QED
  BY <1>1, <1>2, <1>4 DEF LInv

\* Whatever the runner, a fault, a restart or the operator does next.
LEMMA StepHedged ==
  ASSUME IInv, LInv, [Next]_vars
  PROVE  LInv'
<1>1. Contracts \subseteq Nat \ {0} /\ Marks \subseteq Nat \ {0}
  BY PerpBooksAssumption DEF PerpBooksAssumption
<1>0. /\ work.perp.quantity \in Nat /\ work.spot.quantity \in Nat
      /\ db.perp.quantity \in Nat /\ db.spot.quantity \in Nat
  BY DEF IInv, Accounts, Shorts, Rows
<1>2. ASSUME NEW q \in Contracts, NEW mark \in Marks, EnterPerp(q, mark)
      PROVE  LInv'
  <2>1. /\ work'.spot = work.spot /\ work.spot.quantity = 0 /\ work'.perp.quantity = q
        /\ work'.perp.margin_posted = work'.perp.quantity * work'.perp.avg_entry_price
        /\ work.perp.quantity = 0 /\ work'.realized = work.realized
        /\ work'.perp.realized_pnl = work.perp.realized_pnl
    BY <1>2, EnterPerpMoves
  <2>2. /\ db' = db /\ pc' = "enter_spot" /\ order'.contracts = q /\ order'.mark = mark
        /\ work = db
    BY <1>2 DEF EnterPerp, IInv
  <2>3. q <= q
    BY <1>1
  <2>4. Costed(work')
    BY <2>1, <2>3 DEF LInv, Costed
  <2>5. Grown'
    BY <2>1, <2>2 DEF LInv, Grown
  <2> QED
    BY <2>1, <2>2, <2>4, <2>5 DEF LInv
<1>3. ASSUME EnterSpot PROVE LInv'
  <2>1. /\ order.contracts \in Contracts /\ order.mark \in Marks
        /\ work.perp.quantity = order.contracts /\ work'.perp = work.perp
        /\ work'.realized = work.realized
        /\ work'.spot = [side |-> "buy", quantity |-> order.contracts,
                         avg_entry_price |-> order.mark]
    BY <1>3, EnterSpotMoves
  <2>2. db' = db /\ pc' = "commit" /\ db.perp.quantity = 0
    BY <1>3 DEF EnterSpot, LInv
  <2>3. order.contracts \in Nat \ {0} /\ order.mark \in Nat \ {0}
    BY <1>1, <2>1
  <2>4. GoodRow(work'.spot) /\ work'.spot.quantity = order.contracts
        /\ work'.spot.side = "buy"
    BY <2>1, <2>3, SpotRowsGood
  <2>5. Costed(work') /\ Hedged(work')
    BY <2>1, <2>4 DEF LInv, Costed, Hedged
  <2>6. Grown'
    BY <2>1, <2>2 DEF LInv, Grown
  <2> QED
    BY <2>2, <2>5, <2>6 DEF LInv
<1>4. ASSUME EnterSpotFails PROVE LInv'
  BY <1>4 DEF EnterSpotFails, LInv, Hedged, Grown
<1>5. ASSUME NEW mark \in Marks, ExitPerp(mark) PROVE LInv'
  <2>1. /\ work'.spot = work.spot /\ work'.perp.quantity = 0
        /\ work'.perp.margin_posted = work'.perp.quantity * work'.perp.avg_entry_price
        /\ Hedged(work) /\ work'.realized = work.realized /\ work.perp.quantity > 0
    BY <1>5, ExitPerpMoves
  <2>2. /\ db' = db /\ order'.mark = mark /\ work = db
        /\ pc' = IF work.spot.quantity > 0 THEN "exit_spot" ELSE "commit"
    BY <1>5 DEF ExitPerp, NoOrder, IInv
  <2>4. Costed(work')
    <3>1. 0 \in Contracts \union {0} /\ 0 <= 0
      OBVIOUS
    <3> QED
      BY <2>1, <3>1 DEF LInv, Costed
  <2>7. Grown'
    BY <1>0, <2>1, <2>2 DEF LInv, Grown
  <2>5. CASE work.spot.quantity > 0
    <3>1. db.spot # NoRow
      BY <2>2, <2>5 DEF NoRow
    <3> QED
      BY <1>0, <2>1, <2>2, <2>4, <2>5, <2>7, <3>1 DEF LInv, Hedged
  <2>6. CASE work.spot.quantity = 0
    BY <2>1, <2>2, <2>4, <2>6, <2>7 DEF LInv, Hedged
  <2> QED
    BY <1>0, <2>5, <2>6
<1>6. ASSUME ExitSpot PROVE LInv'
  <2>1. /\ work'.perp = work.perp
        /\ work'.spot = [side |-> "sell", quantity |-> 0, avg_entry_price |-> 0]
    BY <1>6, ExitSpotMoves
  <2>2. db' = db /\ pc' = "commit" /\ db.spot # NoRow /\ db.perp.quantity > 0
    BY <1>6 DEF ExitSpot, LInv
  <2>3. GoodRow(work'.spot) /\ work'.spot.quantity = 0
    BY <2>1, SpotRowsGood DEF Sides
  <2>4. Costed(work') /\ Hedged(work')
    BY <2>1, <2>3 DEF LInv, Costed, Hedged
  <2>5. Grown'
    BY <1>0, <2>2, <2>3 DEF Grown
  <2> QED
    BY <2>2, <2>4, <2>5 DEF LInv
<1>7. ASSUME NEW mark \in Marks, _handle_rebalance(mark) PROVE LInv'
  <2>1. /\ work'.spot = work.spot /\ work.spot.quantity = 0 /\ work.perp.quantity > 0
        /\ work'.perp.quantity = work.perp.quantity - 1
        /\ work'.perp.margin_posted = work'.perp.quantity * work'.perp.avg_entry_price
        /\ work'.realized = work.realized
    BY <1>7, RebalanceMoves
  <2>2. db' = db /\ pc' = "commit" /\ work = db
    BY <1>7 DEF _handle_rebalance, IInv
  <2>3. \E c \in Contracts \union {0} : work'.perp.quantity <= c
    <3>1. PICK c \in Contracts \union {0} : work.perp.quantity <= c
      BY DEF LInv, Costed
    <3>2. c \in Nat /\ work.perp.quantity \in Nat
      BY <1>1 DEF IInv, Accounts, Shorts
    <3>3. work'.perp.quantity <= c
      BY <2>1, <3>1, <3>2
    <3> QED
      BY <3>3
  <2>4. Costed(work') /\ Hedged(work')
    BY <2>1, <2>3 DEF LInv, Costed, Hedged
  <2>5. Grown'
    BY <1>0, <2>1, <2>2 DEF Grown
  <2> QED
    BY <2>2, <2>4, <2>5 DEF LInv
<1>8. ASSUME Settle \/ \E rate \in Rates : Accrue(rate) PROVE LInv'
  <2>1. work'.spot = work.spot /\ work'.perp = work.perp /\ work'.realized = work.realized
    BY <1>8, HoldMoves
  <2>2. db' = db /\ pc \in {"accrue", "settle"} /\ pc' \in {"settle", "commit"}
    BY <1>8 DEF Settle, Accrue
  <2>3. Costed(work') /\ Hedged(work')
    BY <2>1, <2>2 DEF LInv, Costed, Hedged
  <2>4. Grown'
    BY <2>1, <2>2 DEF LInv, Grown
  <2> QED
    BY <2>2, <2>3, <2>4 DEF LInv
<1>9. ASSUME Commit \/ Rollback \/ Restart \/ FlushFails PROVE LInv'
  <2>1. work' = db' /\ pc' = "idle" /\ (db' = db \/ (db' = work /\ pc = "commit"))
    BY <1>9 DEF Commit, Rollback, Restart, FlushFails
  <2>2. Grown'
    BY <1>0, <2>1 DEF Grown
  <2> QED
    BY <2>1, <2>2 DEF LInv
<1>10. ASSUME Hold PROVE LInv'
  BY <1>10 DEF Hold, LInv, Grown
<1>11. ASSUME UNCHANGED <<db, work, pc, order>> PROVE LInv'
  BY <1>11 DEF LInv, Grown
<1> QED
  BY <1>2, <1>3, <1>4, <1>5, <1>6, <1>7, <1>8, <1>9, <1>10, <1>11, ResetHedged, AcrossHedged
     DEF Next, Tick, vars

(* Through entries, failed entries, partial closes, exits, rollbacks and    *)
(* resets of any size, at any marks, the margin posted is that of the       *)
(* contracts still held (perp_execution.py:49-145, 180-248).                *)
THEOREM MarginIsCost == Spec => []MarginMatchesCost
<1>1. LInv => MarginMatchesCost
  BY DEF LInv, Costed, MarginMatchesCost
<1> QED
  BY <1>1, InitConserves, StepConserves, InitHedged, StepHedged, PTL DEF Spec

(* What is committed is never a spot leg alone: it is as large as its short *)
(* (delta_neutral_runner.py:393-430, 435-465, 547-611).                     *)
THEOREM SpotIsHedged ==
  Spec => [](db.spot.quantity > 0 => db.perp.quantity = db.spot.quantity)
<1>1. IInv /\ LInv => (db.spot.quantity > 0 => db.perp.quantity = db.spot.quantity)
  BY DEF LInv, Hedged
<1> QED
  BY <1>1, InitConserves, StepConserves, InitHedged, StepHedged, PTL DEF Spec

\* What a rebalance may do.
RebalanceOnlyCloses ==
  \A mark \in Marks :
    _handle_rebalance(mark) => work'.perp.quantity = work.perp.quantity - 1

(* The branch of a rebalance that adds to the short is never taken: no      *)
(* sequence of entries, failures, rollbacks and resets leaves more spot     *)
(* than short (delta_neutral_runner.py:471-521).                            *)
THEOREM NothingIsAdded == Spec => [][RebalanceOnlyCloses]_vars
<1>1. IInv /\ LInv => [RebalanceOnlyCloses]_vars
  BY RebalanceMoves DEF RebalanceOnlyCloses
<1> QED
  BY <1>1, InitConserves, StepConserves, InitHedged, StepHedged, PTL DEF Spec

-----------------------------------------------------------------------------
(* Types: those of the rows from the first part, the bounds of the rest.    *)

Bounded ==
  /\ pc \in {"idle", "enter_spot", "exit_spot", "accrue", "settle", "commit", "stale"}
  /\ last_accrual \in {Never} \union 0..MaxTime /\ now \in 0..MaxTime
  /\ trades \in 0..MaxTrades
  /\ faults \in 0..MaxFaults /\ restarts \in 0..MaxRestarts /\ resets \in 0..MaxResets

LEMMA InitBounded == ASSUME Init PROVE Bounded
<1>1. \A n \in Nat : 0 \in 0..n
  OBVIOUS
<1>2. /\ MaxTime \in Nat /\ MaxTrades \in Nat /\ MaxFaults \in Nat
      /\ MaxRestarts \in Nat /\ MaxResets \in Nat
  BY PerpBooksAssumption DEF PerpBooksAssumption
<1> QED
  BY <1>1, <1>2 DEF Init, Bounded

\* Every counter is bounded by the guard of the action that moves it.
LEMMA StepBounded == ASSUME Bounded, [Next]_vars PROVE Bounded'
<1>1. /\ MaxTime \in Nat /\ MaxTrades \in Nat /\ MaxFaults \in Nat
      /\ MaxRestarts \in Nat /\ MaxResets \in Nat
  BY PerpBooksAssumption DEF PerpBooksAssumption
<1>2. \A n \in Nat : \A i \in 0..n : i < n => i + 1 \in 0..n
  OBVIOUS
<1>3. Trades => trades' \in 0..MaxTrades
  BY <1>1, <1>2 DEF Trades, Bounded
<1>4. ASSUME NEW q, NEW mark, EnterPerp(q, mark) PROVE Bounded'
  BY <1>3, <1>4 DEF EnterPerp, Bounded, outside
<1>5. ASSUME NEW mark, ExitPerp(mark) \/ _handle_rebalance(mark) PROVE Bounded'
  BY <1>3, <1>5 DEF ExitPerp, _handle_rebalance, Bounded, outside
<1>6. ASSUME EnterSpot \/ ExitSpot \/ Hold \/ Settle \/ Commit \/ FlushFails PROVE Bounded'
  BY <1>6 DEF EnterSpot, ExitSpot, Hold, Settle, Commit, FlushFails, Bounded, outside
<1>7. ASSUME EnterSpotFails \/ Rollback PROVE Bounded'
  BY <1>1, <1>2, <1>7 DEF EnterSpotFails, Rollback, Bounded, outside
<1>8. ASSUME NEW rate, Accrue(rate) PROVE Bounded'
  BY <1>8 DEF Accrue, Bounded, outside
<1>9. ASSUME Restart \/ reset_run_history \/ ResetAcrossCommit \/ Tick PROVE Bounded'
  BY <1>1, <1>2, <1>9 DEF Restart, reset_run_history, ResetAcrossCommit, Tick, Bounded
<1>10. ASSUME UNCHANGED vars PROVE Bounded'
  BY <1>10 DEF Bounded, vars
<1> QED
  BY <1>4, <1>5, <1>6, <1>7, <1>8, <1>9, <1>10 DEF Next

(* The rows stay rows of natural quantities, prices and margins whatever is *)
(* traded, closed in part, settled, rolled back or erased                   *)
(* (perp_execution.py:22-234, delta_neutral_runner.py:757-800).             *)
THEOREM TypeCorrect == Spec => []TypeOK
<1>1. IInv /\ Bounded => TypeOK
  BY DEF IInv, Orders, Bounded, TypeOK
<1> QED
  BY <1>1, InitConserves, StepConserves, InitBounded, StepBounded, PTL DEF Spec

-----------------------------------------------------------------------------
(* The refinement: what each step does to the books of the plain ledger.    *)

Legs == {"spot", "perp"}

LEMMA BooksByLeg ==
  ASSUME NEW w
  PROVE  /\ BooksOf(w) = [s \in Legs |-> BooksOf(w)[s]]
         /\ BooksOf(w)["spot"]
              = [net |-> Net(w.spot),
                 cash |-> w.realized - Net(w.spot) * w.spot.avg_entry_price]
         /\ BooksOf(w)["perp"] = [net |-> -w.perp.quantity, cash |-> Proceeds(w.perp)]
         /\ BooksOf(w)["spot"].net = Net(w.spot)
         /\ BooksOf(w)["spot"].cash = w.realized - Net(w.spot) * w.spot.avg_entry_price
         /\ BooksOf(w)["perp"].net = -w.perp.quantity
         /\ BooksOf(w)["perp"].cash = Proceeds(w.perp)
<1>1. "spot" \in Legs /\ "perp" \in Legs /\ "spot" # "perp"
  BY DEF Legs
<1> QED
  BY <1>1 DEF BooksOf, Legs, Proceeds

\* The books do not see what accrues and settles.
LEMMA SameBooks ==
  ASSUME NEW w, NEW v, v.spot = w.spot, v.perp = w.perp, v.realized = w.realized
  PROVE  BooksOf(v) = BooksOf(w)
<1> QED
  BY Zenon DEF BooksOf

\* Moving one leg is a trade of the ledger.
LEMMA LegIsTrade ==
  ASSUME NEW s \in Legs, NEW q, NEW p, db' = db,
         BooksOf(work')[s] = [net |-> BooksOf(work)[s].net + q,
                              cash |-> BooksOf(work)[s].cash - q * p],
         \A r \in Legs \ {s} : BooksOf(work')[r] = BooksOf(work)[r]
  PROVE  Ledger!Moves(s, q) /\ Ledger!Trade(s, q, p)
<1> DEFINE old == BooksOf(work)
           new == BooksOf(work')
           entry == [net |-> old[s].net + q, cash |-> old[s].cash - q * p]
<1>1. BooksOf(db)' = BooksOf(db) /\ BooksOf(work)' = new
  BY DEF BooksOf
<1>2. old = [r \in Legs |-> old[r]] /\ new = [r \in Legs |-> new[r]]
  BY BooksByLeg
<1>3. entry.net = old[s].net + q
  OBVIOUS
<1>4. new[s] = entry /\ \A r \in Legs \ {s} : new[r] = old[r]
  OBVIOUS
<1> HIDE DEF old, new, entry
<1>5. new = [old EXCEPT ![s] = entry] /\ new[s].net = old[s].net + q
  BY <1>2, <1>3, <1>4
<1> QED
  BY <1>1, <1>5 DEF Ledger!Moves, Ledger!Trade, old, entry

\* A trade of no more than some entry is one of the ledger's.
LEMMA QuantityInRange ==
  ASSUME NEW c \in Contracts \union {0}, NEW q \in Nat, q <= c, q > 0
  PROVE  /\ q \in UNION {-k..k : k \in Contracts}
         /\ -q \in UNION {-k..k : k \in Contracts}
<1>1. c \in Contracts /\ c \in Nat
  <2>1. c \in Nat /\ c # 0
    BY PerpBooksAssumption DEF PerpBooksAssumption
  <2> QED
    BY <2>1
<1>2. q \in -c..c /\ -q \in -c..c
  BY <1>1
<1> QED
  BY <1>1, <1>2

LEMMA EnterPerpTrades ==
  ASSUME IInv, LInv, NEW q \in Contracts, NEW mark \in Marks, EnterPerp(q, mark)
  PROVE  Ledger!Next
<1>1. q \in Nat /\ q > 0 /\ mark \in Nat
  BY PerpBooksAssumption DEF PerpBooksAssumption
<1>2. /\ work'.spot = work.spot /\ work'.realized = work.realized /\ work.perp.quantity = 0
      /\ work'.perp.quantity = q /\ Proceeds(work'.perp) = Proceeds(work.perp) + q * mark
  BY EnterPerpMoves
<1>3. db' = db
  BY DEF EnterPerp
<1>4. Proceeds(work.perp) \in Int
  <2>1. work.perp.realized_pnl \in Int /\ work.perp.quantity * work.perp.avg_entry_price \in Int
    BY DEF IInv, Accounts, Shorts
  <2> QED
    BY <2>1 DEF Proceeds
<1>5. -q = -work.perp.quantity + -q
      /\ Proceeds(work'.perp) = Proceeds(work.perp) - (-q) * mark
  <2>1. -q = -0 + -q /\ q * mark \in Int /\ (-q) * mark = -(q * mark)
    BY <1>1
  <2> QED
    BY <1>2, <1>4, <2>1
<1>6. /\ BooksOf(work')["perp"] = [net |-> BooksOf(work)["perp"].net + -q,
                                   cash |-> BooksOf(work)["perp"].cash - (-q) * mark]
      /\ BooksOf(work')["spot"] = BooksOf(work)["spot"]
  BY <1>2, <1>5, BooksByLeg, Zenon
<1>7. Ledger!Moves("perp", -q) /\ Ledger!Trade("perp", -q, mark)
  BY <1>3, <1>6, LegIsTrade DEF Legs
<1>8. -q \in UNION {-k..k : k \in Contracts}
  BY <1>1, QuantityInRange
<1> QED
  BY <1>7, <1>8 DEF Ledger!Next

LEMMA PerpBoughtBack ==
  ASSUME IInv, NEW q \in Nat, NEW mark \in Marks, db' = db,
         q \in UNION {-k..k : k \in Contracts},
         work'.spot = work.spot, work'.realized = work.realized,
         work'.perp.quantity = work.perp.quantity - q,
         Proceeds(work'.perp) = Proceeds(work.perp) - q * mark
  PROVE  Ledger!Next
<1>1. work.perp.quantity \in Nat
  BY DEF IInv, Accounts, Shorts
<1>2. -work'.perp.quantity = -work.perp.quantity + q
  BY <1>1
<1>3. /\ BooksOf(work')["perp"] = [net |-> BooksOf(work)["perp"].net + q,
                                   cash |-> BooksOf(work)["perp"].cash - q * mark]
      /\ BooksOf(work')["spot"] = BooksOf(work)["spot"]
  BY <1>2, BooksByLeg, Zenon
<1>4. Ledger!Moves("perp", q) /\ Ledger!Trade("perp", q, mark)
  BY <1>3, LegIsTrade DEF Legs
<1> QED
  BY <1>4 DEF Ledger!Next

LEMMA ExitPerpTrades ==
  ASSUME IInv, LInv, NEW mark \in Marks, ExitPerp(mark)
  PROVE  Ledger!Next
<1> DEFINE q == work.perp.quantity
<1>1. q \in Nat
  BY DEF IInv, Accounts, Shorts
<1>2. /\ work'.spot = work.spot /\ work'.realized = work.realized
      /\ q > 0 /\ work'.perp.quantity = 0
      /\ Proceeds(work'.perp) = Proceeds(work.perp) - q * mark
  BY ExitPerpMoves
<1>3. q \in UNION {-k..k : k \in Contracts}
  <2>1. PICK c \in Contracts \union {0} : q <= c
    BY DEF LInv, Costed
  <2> QED
    BY <1>1, <1>2, <2>1, QuantityInRange
<1>4. db' = db
  BY DEF ExitPerp
<1>5. work'.perp.quantity = work.perp.quantity - q
  BY <1>1, <1>2
<1> QED
  BY <1>1, <1>2, <1>3, <1>4, <1>5, PerpBoughtBack

LEMMA RebalanceTrades ==
  ASSUME IInv, LInv, NEW mark \in Marks, _handle_rebalance(mark)
  PROVE  Ledger!Next
<1>1. /\ work'.spot = work.spot /\ work'.realized = work.realized
      /\ work.perp.quantity > 0 /\ work'.perp.quantity = work.perp.quantity - 1
      /\ Proceeds(work'.perp) = Proceeds(work.perp) - 1 * mark
  BY RebalanceMoves
<1>2. 1 \in UNION {-k..k : k \in Contracts}
  <2>1. PICK c \in Contracts \union {0} : work.perp.quantity <= c
    BY DEF LInv, Costed
  <2>2. c \in Nat /\ work.perp.quantity \in Nat
    BY PerpBooksAssumption DEF PerpBooksAssumption, IInv, Accounts, Shorts
  <2>3. 1 \in Nat /\ 1 > 0 /\ 1 <= c
    BY <1>1, <2>1, <2>2
  <2> QED
    BY <2>3, QuantityInRange
<1>3. db' = db
  BY DEF _handle_rebalance
<1> QED
  BY <1>1, <1>2, <1>3, PerpBoughtBack

LEMMA EnterSpotTrades ==
  ASSUME IInv, LInv, EnterSpot
  PROVE  Ledger!Next
<1> DEFINE q == order.contracts
           mark == order.mark
<1>1. /\ q \in Contracts /\ mark \in Marks /\ work.spot.quantity = 0
      /\ work'.perp = work.perp /\ work'.realized = work.realized
      /\ work'.spot = [side |-> "buy", quantity |-> q, avg_entry_price |-> mark]
  BY EnterSpotMoves
<1>2. q \in Nat /\ q > 0 /\ mark \in Nat
  <2>1. \A c \in Contracts : c \in Nat /\ c > 0
    BY PerpBooksAssumption DEF PerpBooksAssumption
  <2>2. \A m \in Marks : m \in Nat
    BY PerpBooksAssumption DEF PerpBooksAssumption
  <2> QED
    BY <1>1, <2>1, <2>2, Zenon
<1>3. db' = db
  BY DEF EnterSpot
<1>4. GoodRow(work.spot) /\ work.realized \in Int
  BY DEF IInv, LInv, Costed, Accounts
<1> HIDE DEF q, mark
<1>5. /\ Net(work.spot) = 0 /\ work.spot.avg_entry_price \in Nat
      /\ Net(work'.spot) = q /\ work'.spot.avg_entry_price = mark
  <2>1. Net(work.spot) = 0
    BY <1>1, <1>4, NetOfEmpty
  <2> QED
    BY <1>1, <1>4, <2>1 DEF GoodRow, Rows, Net, _signed_qty
<1>6. /\ q = 0 + q
      /\ work.realized - q * mark
           = (work.realized - 0 * work.spot.avg_entry_price) - q * mark
  <2>1. 0 * work.spot.avg_entry_price = 0 /\ q * mark \in Int
    BY <1>2, <1>5
  <2> QED
    BY <1>2, <1>4, <2>1
<1>7. /\ BooksOf(work')["spot"] = [net |-> BooksOf(work)["spot"].net + q,
                                   cash |-> BooksOf(work)["spot"].cash - q * mark]
      /\ BooksOf(work')["perp"] = BooksOf(work)["perp"]
  <2>1. BooksOf(work')["perp"] = BooksOf(work)["perp"]
    BY <1>1, BooksByLeg, Zenon
  <2>2. /\ Net(work'.spot) = Net(work.spot) + q
        /\ work'.realized - Net(work'.spot) * work'.spot.avg_entry_price
             = (work.realized - Net(work.spot) * work.spot.avg_entry_price) - q * mark
    BY <1>1, <1>5, <1>6, Zenon
  <2> QED
    BY <2>1, <2>2, BooksByLeg, Zenon
<1>8. Ledger!Moves("spot", q) /\ Ledger!Trade("spot", q, mark)
  BY <1>3, <1>7, LegIsTrade DEF Legs
<1>9. q \in UNION {-k..k : k \in Contracts}
  BY <1>1, <1>2, QuantityInRange
<1> QED
  BY <1>1, <1>8, <1>9 DEF Ledger!Next

LEMMA ExitSpotTrades ==
  ASSUME IInv, LInv, ExitSpot
  PROVE  Ledger!Next
<1> DEFINE q == work.spot.quantity
           A == work.spot.avg_entry_price
           R == work.realized
           mark == order.mark
<1>1. /\ mark \in Marks /\ q > 0 /\ work.spot.side = "buy" /\ work'.perp = work.perp
      /\ work'.spot = [side |-> "sell", quantity |-> 0, avg_entry_price |-> 0]
      /\ work'.realized = R + (mark - A) * q
  BY ExitSpotMoves
<1>2. mark \in Nat
  BY <1>1, PerpBooksAssumption DEF PerpBooksAssumption
<1>3. q \in Nat /\ A \in Nat /\ R \in Int /\ q \in Contracts \union {0}
  BY DEF IInv, LInv, Costed, Accounts, Rows
<1>4. db' = db
  BY DEF ExitSpot
<1>5. /\ Net(work.spot) = q /\ Net(work'.spot) = 0 /\ work'.spot.avg_entry_price = 0
  <2>1. GoodRow(work'.spot) /\ work'.spot.quantity = 0
    BY <1>1, SpotRowsGood DEF Sides
  <2>2. Net(work'.spot) = 0
    BY <2>1, NetOfEmpty
  <2>3. Net(work.spot) = q
    BY <1>1 DEF Net, _signed_qty
  <2> QED
    BY <1>1, <2>2, <2>3
<1> HIDE DEF q, A, R, mark
<1>6. 0 = q + -q /\ (R + (mark - A) * q) - 0 * 0 = (R - q * A) - (-q) * mark
  <2>1. /\ (mark - A) * q = q * mark - q * A /\ (-q) * mark = -(q * mark)
        /\ q * mark \in Int /\ q * A \in Int /\ 0 * 0 = 0
    BY <1>2, <1>3
  <2> QED
    BY <1>3, <2>1
<1>7. /\ BooksOf(work')["spot"] = [net |-> BooksOf(work)["spot"].net + -q,
                                   cash |-> BooksOf(work)["spot"].cash - (-q) * mark]
      /\ BooksOf(work')["perp"] = BooksOf(work)["perp"]
  <2>1. BooksOf(work')["perp"] = BooksOf(work)["perp"]
    BY <1>1, BooksByLeg, Zenon
  <2>2. /\ Net(work'.spot) = Net(work.spot) + -q
        /\ work'.realized - Net(work'.spot) * work'.spot.avg_entry_price
             = (work.realized - Net(work.spot) * work.spot.avg_entry_price) - (-q) * mark
    BY <1>1, <1>5, <1>6, Zenon DEF A, R
  <2> QED
    BY <2>1, <2>2, BooksByLeg, Zenon
<1>8. Ledger!Moves("spot", -q) /\ Ledger!Trade("spot", -q, mark)
  BY <1>4, <1>7, LegIsTrade DEF Legs
<1>9. -q \in UNION {-k..k : k \in Contracts}
  <2>1. q <= q
    BY <1>3
  <2> QED
    BY <1>1, <1>3, <2>1, QuantityInRange
<1> QED
  BY <1>1, <1>8, <1>9 DEF Ledger!Next

LEMMA NoRowIsEmpty == Net(NoRow) = 0 /\ NoRow.avg_entry_price = 0
<1>1. GoodRow(NoRow) /\ NoRow.quantity = 0 /\ NoRow.avg_entry_price = 0
  BY DEF NoRow, GoodRow, Rows, Sides
<1> QED
  BY <1>1, NetOfEmpty

LEMMA NoShortIsFlat ==
  ASSUME NEW w, w.perp = NoShort
  PROVE  BooksOf(w)["perp"] = [net |-> 0, cash |-> 0]
<1>1. /\ w.perp.quantity = 0 /\ w.perp.avg_entry_price = 0 /\ w.perp.realized_pnl = 0
      /\ w.perp.quantity \in Int
  BY DEF NoShort
<1>2. 0 + 0 * 0 = 0 /\ -w.perp.quantity = 0
  <2>1. \A m, n \in Int : n = -m /\ m <= 0 /\ m >= 0 => n = 0
    OBVIOUS
  <2>2. w.perp.quantity <= 0 /\ w.perp.quantity >= 0 /\ -w.perp.quantity \in Int
    BY <1>1
  <2>3. -w.perp.quantity = 0
    BY <1>1, <2>1, <2>2
  <2>4. 0 + 0 * 0 = 0
    OBVIOUS
  <2> QED
    BY <2>3, <2>4, Zenon
<1>3. Proceeds(w.perp) = 0
  BY <1>1, <1>2, Zenon DEF Proceeds
<1> QED
  BY <1>2, <1>3, BooksByLeg, Zenon

LEMMA OpenedIsFlat ==
  ASSUME NEW w, w.spot = NoRow, w.perp = NoShort, w.realized = 0
  PROVE  BooksOf(w) = Ledger!Flat
<1>1. /\ BooksOf(w)["spot"] = [net |-> 0, cash |-> 0]
      /\ BooksOf(w)["perp"] = [net |-> 0, cash |-> 0]
  <2>1. 0 - 0 * 0 = 0
    OBVIOUS
  <2>2. w.realized - Net(w.spot) * w.spot.avg_entry_price = 0 /\ Net(w.spot) = 0
    BY <2>1, NoRowIsEmpty, Zenon
  <2>3. BooksOf(w)["spot"] = [net |-> 0, cash |-> 0]
    BY <2>2, BooksByLeg, Zenon
  <2> QED
    BY <2>3, NoShortIsFlat
<1>2. BooksOf(w) = [s \in Legs |-> BooksOf(w)[s]]
  BY BooksByLeg
<1> QED
  BY <1>1, <1>2 DEF Ledger!Flat, Legs

LEMMA InitIsFlat == ASSUME Init PROVE Ledger!Init
<1>1. Opened.spot = NoRow /\ Opened.perp = NoShort /\ Opened.realized = 0
  BY DEF Opened
<1>2. BooksOf(Opened) = Ledger!Flat
  BY <1>1, OpenedIsFlat
<1> QED
  BY <1>2 DEF Init, Ledger!Init

\* The books of what an iteration keeps through a reset: its own trades.
LEMMA OwnBooks ==
  ASSUME IInv, LInv, NEW v,
         v.perp = OwnRows.perp, v.spot = OwnRows.spot, v.realized = 0
  PROVE  \E kept \in SUBSET Legs : BooksOf(v) = Ledger!Since(kept)
<1> DEFINE kept == {s \in Legs : IF s = "spot" THEN db.spot = NoRow ELSE OpensShort}
           old == BooksOf(db)
           new == BooksOf(work)
           since == Ledger!Since(kept)
<1>1. /\ db \in Accounts /\ work \in Accounts
      /\ work.perp \in Shorts /\ db.perp \in Shorts
      /\ work.realized \in Int /\ work.spot \in Rows
  BY DEF IInv, Accounts
<1>2. /\ v.perp = IF OpensShort THEN [work.perp EXCEPT !.realized_pnl = 0] ELSE NoShort
      /\ v.spot = IF db.spot = NoRow THEN work.spot ELSE NoRow
  BY <1>1, OwnRowsIs
<1>3. /\ \A s \in kept : since[s] = [net |-> new[s].net - old[s].net,
                                    cash |-> new[s].cash - old[s].cash]
      /\ \A s \in Legs \ kept : since[s] = [net |-> 0, cash |-> 0]
      /\ since = [s \in Legs |-> since[s]]
  BY DEF Ledger!Since, Ledger!Flat, Legs
<1>4. /\ "spot" \in kept <=> db.spot = NoRow
      /\ "perp" \in kept <=> OpensShort
      /\ "spot" \in Legs /\ "perp" \in Legs /\ kept \in SUBSET Legs
  BY DEF Legs
<1> HIDE DEF since, kept
<1>5. Net(NoRow) = 0 /\ NoRow.avg_entry_price = 0
  BY NoRowIsEmpty
<1>6. BooksOf(v)["spot"] = since["spot"]
  <2> DEFINE n == Net(work.spot)
             c == n * work.spot.avg_entry_price
  <2>1. n \in Int /\ c \in Int
    <3>1. n \in Int /\ work.spot.avg_entry_price \in Int
      BY <1>1 DEF Net, _signed_qty, Rows
    <3> QED
      BY <3>1
  <2>2. CASE db.spot = NoRow
    <3>1. /\ v.spot = work.spot /\ work.realized = db.realized
      BY <1>2, <2>2 DEF LInv, Grown
    <3>2. /\ old["spot"].net = 0 /\ old["spot"].cash = work.realized - 0 * 0
          /\ new["spot"].net = n /\ new["spot"].cash = work.realized - c
      BY <1>5, <2>2, <3>1, BooksByLeg, Zenon
    <3>3. BooksOf(v)["spot"] = [net |-> n, cash |-> 0 - c]
      BY <3>1, BooksByLeg, Zenon
    <3>4. since["spot"] = [net |-> new["spot"].net - old["spot"].net,
                           cash |-> new["spot"].cash - old["spot"].cash]
      BY <1>3, <1>4, <2>2
    <3> HIDE DEF n, c, old, new
    <3>5. /\ n - 0 = n /\ (work.realized - c) - (work.realized - 0 * 0) = 0 - c
      BY <1>1, <2>1
    <3> QED
      BY <3>2, <3>3, <3>4, <3>5, Zenon
  <2>3. CASE db.spot # NoRow
    <3>1. v.spot = NoRow
      BY <1>2, <2>3
    <3>2. BooksOf(v)["spot"] = [net |-> 0, cash |-> 0 - 0 * 0] /\ 0 - 0 * 0 = 0
      <4>1. 0 - 0 * 0 = 0
        OBVIOUS
      <4> QED
        BY <1>5, <3>1, <4>1, BooksByLeg, Zenon
    <3>3. since["spot"] = [net |-> 0, cash |-> 0]
      BY <1>3, <1>4, <2>3
    <3> QED
      BY <3>2, <3>3
  <2> QED
    BY <2>2, <2>3
<1>7. BooksOf(v)["perp"] = since["perp"]
  <2> DEFINE q == work.perp.quantity
             c == q * work.perp.avg_entry_price
             r == work.perp.realized_pnl
  <2>1. q \in Int /\ c \in Int /\ r \in Int
    <3>1. q \in Int /\ work.perp.avg_entry_price \in Int /\ r \in Int
      BY <1>1 DEF Shorts
    <3> QED
      BY <3>1
  <2>2. CASE OpensShort
    <3>1. /\ v.perp = [work.perp EXCEPT !.realized_pnl = 0]
          /\ db.perp.quantity = 0 /\ db.perp.realized_pnl = r
      BY <1>2, <2>2 DEF LInv, Grown, OpensShort
    <3>2. /\ v.perp.quantity = q /\ v.perp.realized_pnl = 0
          /\ v.perp.avg_entry_price = work.perp.avg_entry_price
      BY <1>1, <3>1 DEF Shorts
    <3>3. db.perp.avg_entry_price \in Int
      BY <1>1 DEF Shorts
    <3>4. /\ Proceeds(v.perp) = 0 + c /\ Proceeds(work.perp) = r + c
          /\ Proceeds(db.perp) = r + 0 * db.perp.avg_entry_price
      BY <3>1, <3>2, Zenon DEF Proceeds
    <3>5. /\ BooksOf(v)["perp"] = [net |-> -q, cash |-> 0 + c]
          /\ old["perp"].net = -(db.perp.quantity)
          /\ old["perp"].cash = r + 0 * db.perp.avg_entry_price
          /\ new["perp"].net = -q /\ new["perp"].cash = r + c
      BY <3>2, <3>4, BooksByLeg, Zenon
    <3>6. since["perp"] = [net |-> new["perp"].net - old["perp"].net,
                           cash |-> new["perp"].cash - old["perp"].cash]
      BY <1>3, <1>4, <2>2
    <3> HIDE DEF q, c, r, old, new
    <3>7. /\ -q - (-(db.perp.quantity)) = -q
          /\ (r + c) - (r + 0 * db.perp.avg_entry_price) = 0 + c
      <4>1. 0 * db.perp.avg_entry_price = 0
        BY <3>3
      <4> QED
        BY <2>1, <3>1, <4>1
    <3> QED
      BY <3>5, <3>6, <3>7, Zenon
  <2>3. CASE ~OpensShort
    <3>1. v.perp = NoShort
      BY <1>2, <2>3
    <3>2. BooksOf(v)["perp"] = [net |-> 0, cash |-> 0]
      BY <3>1, NoShortIsFlat
    <3>3. since["perp"] = [net |-> 0, cash |-> 0]
      BY <1>3, <1>4, <2>3
    <3> QED
      BY <3>2, <3>3
  <2> QED
    BY <2>2, <2>3
<1>8. BooksOf(v) = since
  <2>1. BooksOf(v) = [s \in Legs |-> BooksOf(v)[s]]
    BY BooksByLeg
  <2>2. \A s \in Legs : BooksOf(v)[s] = since[s]
    BY <1>6, <1>7 DEF Legs
  <2> QED
    BY <1>3, <2>1, <2>2
<1> QED
  BY <1>4, <1>8 DEF since

LEMMA ResetErases ==
  ASSUME IInv, LInv, reset_run_history
  PROVE  Ledger!Erase
<1>1. BooksOf(db)' = BooksOf(db') /\ BooksOf(work)' = BooksOf(work')
  BY DEF BooksOf
<1>2. db \in Accounts /\ work \in Accounts
  BY DEF IInv
<1>3. db'.spot = NoRow /\ db'.perp = NoShort /\ db'.realized = 0
  BY <1>2, ErasedIs DEF reset_run_history
<1>4. BooksOf(db') = Ledger!Flat
  BY <1>3, OpenedIsFlat
<1>5. \E kept \in SUBSET Legs : BooksOf(work') = Ledger!Since(kept)
  <2>1. CASE Changed
    <3>1. BooksOf(work') = Ledger!Flat
      BY <1>4, <2>1 DEF reset_run_history
    <3>2. Ledger!Since({}) = Ledger!Flat
      BY DEF Ledger!Since, Ledger!Flat
    <3> QED
      BY <3>1, <3>2
  <2>2. CASE ~Changed
    <3> DEFINE b == work.spot # db.spot
    <3>1. work' = [OwnRows EXCEPT !.snapshot = b] /\ b \in BOOLEAN
      BY <2>2 DEF reset_run_history
    <3> HIDE DEF b
    <3>2. work'.perp = OwnRows.perp /\ work'.spot = OwnRows.spot /\ work'.realized = 0
      BY <1>2, <3>1, OwnRowsIs
    <3> QED
      BY <3>2, OwnBooks
  <2> QED
    BY <2>1, <2>2
<1> QED
  BY <1>1, <1>4, <1>5 DEF Ledger!Erase, Legs

LEMMA AcrossErases ==
  ASSUME IInv, LInv, ResetAcrossCommit
  PROVE  Ledger!Erase
<1>1. BooksOf(db)' = BooksOf(db') /\ BooksOf(work)' = BooksOf(work')
  BY DEF BooksOf
<1>2. db' = OwnRows /\ work' = db'
  BY DEF ResetAcrossCommit
<1>3. OwnRows.realized = 0
  BY OwnRowsIs DEF IInv
<1>4. \E kept \in SUBSET Legs : BooksOf(OwnRows) = Ledger!Since(kept)
  BY <1>3, OwnBooks
<1> QED
  BY <1>1, <1>2, <1>4 DEF Ledger!Erase, Legs

\* Every step of the account is one of the ledger, or leaves its books alone.
LEMMA StepIsLedger ==
  ASSUME IInv, LInv, [Next]_vars
  PROVE  [Ledger!Next]_(Ledger!books)
<1>1. BooksOf(db)' = BooksOf(db') /\ BooksOf(work)' = BooksOf(work')
  BY DEF BooksOf
<1>2. ASSUME Settle \/ \E rate \in Rates : Accrue(rate) PROVE UNCHANGED Ledger!books
  <2>1. work'.spot = work.spot /\ work'.perp = work.perp /\ work'.realized = work.realized
    BY <1>2, HoldMoves
  <2>2. db' = db
    BY <1>2 DEF Settle, Accrue
  <2> QED
    BY <1>1, <2>1, <2>2, SameBooks DEF Ledger!books
<1>3. ASSUME Commit PROVE Ledger!Settle
  BY <1>1, <1>3 DEF Commit, Ledger!Settle
<1>4. ASSUME Rollback \/ Restart \/ FlushFails PROVE Ledger!Drop
  BY <1>1, <1>4 DEF Rollback, Restart, FlushFails, Ledger!Drop
<1>5. ASSUME reset_run_history \/ ResetAcrossCommit PROVE Ledger!Erase
  BY <1>5, ResetErases, AcrossErases
<1>6. ASSUME UNCHANGED <<db, work>> PROVE UNCHANGED Ledger!books
  BY <1>1, <1>6 DEF Ledger!books
<1>7. Ledger!Settle \/ Ledger!Drop \/ Ledger!Erase => Ledger!Next
  BY DEF Ledger!Next
<1> QED
  BY <1>2, <1>3, <1>4, <1>5, <1>6, <1>7, EnterPerpTrades, EnterSpotTrades,
     ExitPerpTrades, ExitSpotTrades, RebalanceTrades
     DEF Next, EnterSpotFails, Hold, Tick, vars

(* The rows of the short and of the spot leg implement the plain ledger, at *)
(* any sizes and marks: no average is ever rounded, each fill moves a leg's *)
(* realized PnL less the cost of its position by exactly its money, and the *)
(* legs of an iteration settle together or not at all                       *)
(* (perp_execution.py:84-234, delta_neutral_runner.py:757-800).             *)
THEOREM LedgerIsKept == Spec => KeepsPerpLedger
<1>1. IInv /\ LInv /\ [Next]_vars => [Ledger!Next]_(Ledger!books)
  BY StepIsLedger
<1>2. Init => Ledger!Init
  BY InitIsFlat
<1> QED
  BY <1>1, <1>2, InitConserves, StepConserves, InitHedged, StepHedged, PTL
     DEF Spec, KeepsPerpLedger, Ledger!Spec

=============================================================================
