------------------------------- MODULE PerpBooks -------------------------------
(***************************************************************************)
(* The money of the delta-neutral account: the perpetual's row             *)
(* (core/paper/perp_execution.py), the spot leg's row and PnL snapshots    *)
(* (delta_neutral_runner.py over PaperAccount), the hourly accruals and    *)
(* their settlement (core/paper/funding_accrual.py), and the reset of the  *)
(* account by the dashboard (apps/dashboard/routes.py).  When the runner   *)
(* enters, exits, rebalances or holds is the subject of DeltaNeutral; here *)
(* each may happen whenever the legs allow.                                *)
(*                                                                         *)
(* An iteration is one transaction: `work` is what its session would read  *)
(* and write, `db` what is committed.  The dashboard is another process:   *)
(* its reset may fall between any two steps of an iteration, or its DELETE *)
(* statements on both sides of the iteration's commit.  Quantities are     *)
(* contracts; money is in units of a contract's margin at a mark of 1, so  *)
(* a contract's margin is its mark.                                        *)
(***************************************************************************)
EXTENDS PaperAccount

CONSTANTS
  Contracts,         (* sizes an entry may have                            *)
  Marks, Rates,
  AccrualPeriod,     (* the hour of _handle_hold, in time steps            *)
  SettlementPeriod,  (* from one settlement window to the next             *)
  MaxTime, MaxTrades, MaxFaults, MaxRestarts, MaxResets  (* bounds         *)

ASSUME PerpBooksAssumption ==
  /\ Contracts \subseteq Nat \ {0} /\ Marks \subseteq Nat \ {0} /\ Rates \subseteq Int
  /\ AccrualPeriod \in Nat \ {0} /\ SettlementPeriod \in Nat \ {0}
  /\ {MaxTime, MaxTrades, MaxFaults, MaxRestarts, MaxResets} \subseteq Nat

VARIABLES
  db, work,        (* committed rows; rows as the session holds them       *)
  pc, order,       (* where an iteration stands; its [contracts, mark]     *)
  last_accrual,    (* _last_accrual_ts, in memory                          *)
  now,
  erased,          (* history: funding_pnl deleted by resets               *)
  torn,            (* history: a reset met a hold, or an entry's commit    *)
  trades,          (* iterations that traded                               *)
  faults, restarts, resets

vars == <<db, work, pc, order, last_accrual, now, erased, torn, trades, faults, restarts, resets>>
outside == <<now, erased, torn, restarts, resets>>

Never == -1
NoOrder == [contracts |-> 0, mark |-> 0]

\* position_snapshots of the short; realized_pnl over its rows, closed ones too.
Shorts == [quantity : Nat, avg_entry_price : Nat, mark_price : Nat,
           margin_posted : Nat, realized_pnl : Int]
NoShort == [quantity |-> 0, avg_entry_price |-> 0, mark_price |-> 0,
            margin_posted |-> 0, realized_pnl |-> 0]

\* pnl_snapshots: whether there is one, the sums of realized and funding PnL;
\* funding_accruals: their number, the sums of the open, the settled and, for
\* the properties, of those settled when there was no snapshot to book them on.
Accounts == [perp : Shorts, spot : Rows, snapshot : BOOLEAN, realized : Int, funding : Int,
             accruals : Nat, unsettled : Int, settled : Int, dropped : Int]
Opened == [perp |-> NoShort, spot |-> NoRow, snapshot |-> FALSE, realized |-> 0, funding |-> 0,
           accruals |-> 0, unsettled |-> 0, settled |-> 0, dropped |-> 0]

TypeOK ==
  /\ db \in Accounts /\ work \in Accounts
  /\ pc \in {"idle", "enter_spot", "exit_spot", "accrue", "settle", "commit", "stale"}
  /\ order \in [contracts : Contracts \union {0}, mark : Marks \union {0}]
  /\ last_accrual \in {Never} \union 0..MaxTime /\ now \in 0..MaxTime
  /\ erased \in Int /\ torn \in BOOLEAN /\ trades \in 0..MaxTrades
  /\ faults \in 0..MaxFaults /\ restarts \in 0..MaxRestarts /\ resets \in 0..MaxResets

Init ==
  /\ db = Opened /\ work = Opened
  /\ pc = "idle" /\ order = NoOrder
  /\ last_accrual = Never /\ now = 0 /\ erased = 0 /\ torn = FALSE
  /\ trades = 0 /\ faults = 0 /\ restarts = 0 /\ resets = 0

-----------------------------------------------------------------------------
(* perp_execution *)

open_perp_short(short, q, mark) ==
  [short EXCEPT
     !.quantity = @ + q,
     !.avg_entry_price = (short.quantity * @ + q * mark) \div (short.quantity + q),
     !.mark_price = mark,
     !.margin_posted = @ + q * mark]

\* Seeded fault: the whole margin is returned with any part of the position.
MarginReturnedWhole(short, closed) == short.margin_posted

\* Seeded fault: each contract closed returns the whole margin.
MarginReturnedEach(short, closed) == closed * short.margin_posted

MarginReturned(short, closed) == (closed * short.margin_posted) \div short.quantity

\* Seeded fault: a loss is booked as a gain.
RealizedReversed(short, closed, mark) == (mark - short.avg_entry_price) * closed

Realized(short, closed, mark) == (short.avg_entry_price - mark) * closed

close_perp_short(short, q, mark) ==
  LET closed == Lesser(q, short.quantity)
  IN IF short.quantity = 0 THEN short
     ELSE [quantity |-> short.quantity - closed,
           avg_entry_price |-> IF closed = short.quantity THEN 0 ELSE short.avg_entry_price,
           mark_price |-> mark,
           margin_posted |-> short.margin_posted - MarginReturned(short, closed),
           realized_pnl |-> short.realized_pnl + Realized(short, closed, mark)]

-----------------------------------------------------------------------------
(* The legs *)

\* The row's side becomes that of the fill, whatever it leaves.
_simulate_spot_fill(w, fill) ==
  [w EXCEPT !.spot = [update_position_from_fill(@, fill) EXCEPT !.side = fill.side],
            !.realized = @ + _compute_realized_pnl(w.spot, fill),
            !.snapshot = TRUE]

Flat(w) == w.perp.quantity = 0 /\ w.spot.quantity = 0

is_balanced(w) ==
  /\ w.perp.quantity > 0
  /\ 9 * w.perp.quantity <= 10 * w.spot.quantity
  /\ 10 * w.spot.quantity <= 11 * w.perp.quantity

\* Bound: the iterations that trade are counted.
Trades == trades < MaxTrades /\ trades' = trades + 1

\* _handle_enter: the short, then the spot it hedges.
EnterPerp(q, mark) ==
  /\ pc = "idle" /\ Flat(work) /\ Trades
  /\ work' = [work EXCEPT !.perp = open_perp_short(@, q, mark)]
  /\ order' = [contracts |-> q, mark |-> mark]
  /\ pc' = "enter_spot"
  /\ UNCHANGED <<db, last_accrual, faults, outside>>

EnterSpot ==
  /\ pc = "enter_spot"
  /\ work' = _simulate_spot_fill(work,
               [side |-> "buy", quantity |-> order.contracts, price |-> order.mark])
  /\ pc' = "commit"
  /\ UNCHANGED <<db, order, last_accrual, faults, trades, outside>>

\* It raises before it writes: the handler catches, and the short is committed.
EnterSpotFails ==
  /\ pc = "enter_spot" /\ faults < MaxFaults
  /\ faults' = faults + 1
  /\ pc' = "commit"
  /\ UNCHANGED <<db, work, order, last_accrual, trades, outside>>

\* _handle_exit, and the two closes of emergency_flatten.
ExitPerp(mark) ==
  /\ pc = "idle" /\ ~Flat(work) /\ Trades
  /\ work' = [work EXCEPT !.perp = close_perp_short(@, @.quantity, mark)]
  /\ order' = [NoOrder EXCEPT !.mark = mark]
  /\ pc' = IF work.spot.quantity > 0 THEN "exit_spot" ELSE "commit"
  /\ UNCHANGED <<db, last_accrual, faults, outside>>

ExitSpot ==
  /\ pc = "exit_spot"
  /\ work' = _simulate_spot_fill(work,
               [side |-> "sell", quantity |-> work.spot.quantity, price |-> order.mark])
  /\ pc' = "commit"
  /\ UNCHANGED <<db, order, last_accrual, faults, trades, outside>>

_handle_rebalance(mark) ==
  /\ pc = "idle" /\ ~Flat(work) /\ ~is_balanced(work) /\ Trades
  /\ work' = [work EXCEPT !.perp =
                IF work.spot.quantity > @.quantity THEN open_perp_short(@, 1, mark)
                ELSE close_perp_short(@, 1, mark)]
  /\ order' = [NoOrder EXCEPT !.mark = mark]
  /\ pc' = "commit"
  /\ UNCHANGED <<db, last_accrual, faults, outside>>

-----------------------------------------------------------------------------
(* _handle_hold and FundingAccrualEngine *)

\* On the mark of the last fill.  A positive rate is income of the short.
Accrual(short, rate) == short.quantity * short.mark_price * rate

\* It looks for the short again, which a reset may have deleted.
accrue_hourly(w, rate) ==
  IF w.perp.quantity = 0 THEN w
  ELSE [w EXCEPT !.accruals = @ + 1, !.unsettled = @ + Accrual(w.perp, rate)]

\* Seeded fault: the accruals settled are not marked.
MarkSettledLost(w, total) == w

MarkSettled(w, total) == [w EXCEPT !.unsettled = @ - total, !.settled = @ + total]

\* Onto the latest PnL snapshot, if there is one.  `total` is what its query
\* finds: not the accrual just added, which has not been flushed.
settle(w, total) ==
  MarkSettled(IF w.snapshot THEN [w EXCEPT !.funding = @ + total]
              ELSE [w EXCEPT !.dropped = @ + total],
              total)

should_settle == now % SettlementPeriod = 0

\* Seeded fault: the hour is measured from the start of the process.
DueFromStart == TRUE

AccrualDue == last_accrual = Never \/ now - last_accrual >= AccrualPeriod

\* The legs have been read, and are balanced.
Hold ==
  /\ pc = "idle" /\ is_balanced(work)
  /\ pc' = "accrue"
  /\ UNCHANGED <<db, work, order, last_accrual, faults, trades, outside>>

\* _last_accrual_ts is set here, not at the commit, and without an accrual too.
Accrue(rate) ==
  /\ pc = "accrue"
  /\ work' = IF AccrualDue THEN accrue_hourly(work, rate) ELSE work
  /\ last_accrual' = IF AccrualDue THEN now ELSE last_accrual
  /\ pc' = IF should_settle THEN "settle" ELSE "commit"
  /\ UNCHANGED <<db, order, faults, trades, outside>>

Settle ==
  /\ pc = "settle"
  /\ work' = settle(work, db.unsettled)
  /\ pc' = "commit"
  /\ UNCHANGED <<db, order, last_accrual, faults, trades, outside>>

-----------------------------------------------------------------------------
(* Transactions, the process, the operator, time *)

Commit ==
  /\ pc = "commit"
  /\ db' = work
  /\ pc' = "idle" /\ order' = NoOrder
  /\ UNCHANGED <<work, last_accrual, faults, trades, outside>>

Rollback ==
  /\ pc # "idle" /\ faults < MaxFaults
  /\ faults' = faults + 1
  /\ work' = db
  /\ pc' = "idle" /\ order' = NoOrder
  /\ UNCHANGED <<db, last_accrual, trades, outside>>

Restart ==
  /\ restarts < MaxRestarts
  /\ restarts' = restarts + 1
  /\ work' = db
  /\ pc' = "idle" /\ order' = NoOrder
  /\ last_accrual' = Never
  /\ UNCHANGED <<db, now, erased, torn, trades, faults, resets>>

\* The accruals are not deleted.
Erased(w) ==
  [Opened EXCEPT !.accruals = w.accruals, !.unsettled = w.unsettled,
                 !.settled = w.settled, !.dropped = w.dropped]

\* A short is opened in a row of its own, a spot leg in one only if it is the
\* account's first.
OpensShort == db.perp.quantity = 0 /\ work.perp.quantity > 0
OwnRows ==
  [Erased(work) EXCEPT
     !.perp = IF OpensShort THEN [work.perp EXCEPT !.realized_pnl = 0] ELSE NoShort,
     !.spot = IF db.spot = NoRow THEN work.spot ELSE NoRow]

\* The iteration has changed a committed row, of which its flush is to come ...
Changed ==
  \/ db.perp.quantity > 0 /\ work.perp # db.perp
  \/ db.spot # NoRow /\ work.spot # db.spot
  \/ db.snapshot /\ work.funding # db.funding

\* ... or has been: the sale of the spot leg has flushed the close of the short.
Locked ==
  pc = "commit" /\ db.perp.quantity > 0 /\ work.spot.quantity < db.spot.quantity

\* Between two iterations, or within one: that sees it from its next query on,
\* keeps the rows it inserted, and fails on one it changed.  A reset that meets
\* a locked row waits for the commit, or the rollback, and comes after it.
reset_run_history ==
  /\ resets < MaxResets /\ ~Locked
  /\ resets' = resets + 1
  /\ erased' = erased + db.funding
  /\ db' = Erased(db)
  /\ IF Changed THEN work' = db' /\ pc' = "stale"
     ELSE work' = [OwnRows EXCEPT !.snapshot = work.spot # db.spot] /\ pc' = pc
  /\ torn' = (torn \/ pc \in {"accrue", "settle"})
  /\ UNCHANGED <<order, last_accrual, now, trades, faults, restarts>>

\* It deletes the positions there are before the commit of an entry, waiting
\* for that if need be, and the snapshots there are after it.  Bound: only one
\* commit falls between its statements.
ResetAcrossCommit ==
  /\ resets < MaxResets /\ pc = "commit" /\ OpensShort
  /\ resets' = resets + 1
  /\ erased' = erased + work.funding
  /\ db' = OwnRows /\ work' = db'
  /\ pc' = "idle" /\ order' = NoOrder
  /\ torn' = TRUE
  /\ UNCHANGED <<last_accrual, now, trades, faults, restarts>>

\* StaleDataError, of an update whose row is gone: the iteration is rolled back.
FlushFails ==
  /\ pc = "stale"
  /\ work' = db
  /\ pc' = "idle" /\ order' = NoOrder
  /\ UNCHANGED <<db, last_accrual, faults, trades, outside>>

Tick ==
  /\ pc = "idle" /\ now < MaxTime
  /\ now' = now + 1
  /\ UNCHANGED <<db, work, pc, order, last_accrual, erased, torn, trades, faults, restarts, resets>>

\* Bound: there is nothing to hold once time has run out.
Trading == now < MaxTime

Next ==
  \/ Trading /\ \E q \in Contracts, mark \in Marks : EnterPerp(q, mark)
  \/ EnterSpot \/ EnterSpotFails
  \/ Trading /\ \E mark \in Marks : ExitPerp(mark) \/ _handle_rebalance(mark)
  \/ ExitSpot
  \/ Trading /\ Hold
  \/ \E rate \in Rates : Accrue(rate)
  \/ Settle \/ Commit \/ FlushFails \/ Rollback \/ Restart
  \/ reset_run_history \/ ResetAcrossCommit \/ Tick
  \/ now = MaxTime /\ pc = "idle" /\ UNCHANGED vars

Spec == Init /\ [][Next]_vars

-----------------------------------------------------------------------------
(* Properties *)

(* Through entries, partial closes, additions and exits the margin posted   *)
(* is that of the contracts still held at their average entry               *)
(* (perp_execution.py:49-145, 180-248).                                     *)
MarginMatchesCost ==
  \A w \in {db, work} : w.perp.margin_posted = w.perp.quantity * w.perp.avg_entry_price

(* What the accruals marked as settled add up to is in the funding PnL of   *)
(* the snapshots, was deleted with them, or was dropped for want of one;    *)
(* and only a reset that met an iteration, between its read of the legs and *)
(* the settlement or around the commit of an entry, can have left a         *)
(* settlement without a snapshot (funding_accrual.py:132-175,               *)
(* routes.py:273-334).                                                      *)
FundingConserved ==
  \A w \in {db, work} :
    /\ w.settled = w.funding + erased + w.dropped
    /\ w.dropped # 0 => torn

(* The hour of an accrual is kept in memory and set before its commit: a    *)
(* rollback can lose an accrual, and only a restart can repeat one          *)
(* (delta_neutral_runner.py:523-536).                                       *)
RestartRepeatsOneHour ==
  db.accruals <= now \div AccrualPeriod + 1 + restarts

BooksOf(w) ==
  [s \in {"spot", "perp"} |->
     IF s = "spot"
     THEN [net |-> Net(w.spot), cash |-> w.realized - Net(w.spot) * w.spot.avg_entry_price]
     ELSE [net |-> -w.perp.quantity,
           cash |-> w.perp.realized_pnl + w.perp.quantity * w.perp.avg_entry_price]]

Ledger == INSTANCE TradingLedger WITH
  Symbols <- {"spot", "perp"},
  Quantities <- UNION {-c..c : c \in Contracts}, Prices <- Marks, Erasable <- TRUE,
  settled <- BooksOf(db), working <- BooksOf(work)

(* The short's row and the spot's rows together keep the books of a plain   *)
(* ledger: each leg's fill moves its quantity and, net of the position's    *)
(* cost, its realized PnL by exactly the money of the fill, and the legs of *)
(* an iteration settle together, unless a reset takes the spot leg away     *)
(* (perp_execution.py:84-234, delta_neutral_runner.py:757-800).             *)
KeepsPerpLedger == Ledger!Spec

=============================================================================
