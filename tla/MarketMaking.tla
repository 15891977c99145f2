----------------------------- MODULE MarketMaking -----------------------------
(***************************************************************************)
(* The market-making loop of the paper trader: the strategy                *)
(* (core/strategy/market_making.py), the loop that fills, cancels and      *)
(* requotes (apps/paper_trader/main.py), the limit orders of               *)
(* core/paper/execution_flow.py, the account behind percentage sizing      *)
(* (core/reporting/account.py), and the account reset, the deposit and the *)
(* TWAP window of the dashboard, which commit between any two steps of an  *)
(* iteration.                                                              *)
(*                                                                         *)
(* An iteration is one READ COMMITTED transaction: `work` is what its      *)
(* session sees, `db` what is committed.  Time passes in iterations.       *)
(* Prices are integers of the strategy's price step (0.1 USD), quantities  *)
(* integers of its size step; fees and averages are cut to the price step. *)
(* The gates before an iteration (StrategyGates) have seen a recent tick.  *)
(***************************************************************************)
EXTENDS PaperAccount, Sequences, FiniteSets

CONSTANTS
  Capital,                         (* PAPER_STARTING_CAPITAL               *)
  QuoteSizePct, MaxInventoryPct,   (* MarketMakingConfig, of account value *)
  MinOrderSize,                    (* .min_order_size_btc                  *)
  FeeBps, TargetProfitBps, BidOffsetBps, MinSpreadBps,
  NearBps, FarBps,                 (* .ask_sg_near_bps, .ask_sg_far_bps    *)
  MildSlope, SteepSlope,           (* slope thresholds, bps per iteration  *)
  StaleAfter,                      (* .stale_book_seconds, in iterations   *)
  Lookbacks, LeastLookback,        (* TWAP windows, in iterations          *)
  FirstLookback,                   (* .twap_lookback_hours                 *)
  Concavities,                     (* modifiers (percent) the filter gives *)
  Quotes,                          (* [bid, ask] of the order books        *)
  DryRuns,                         (* whether the process may run live and dry *)
  Deposit,                         (* an amount the operator deposits      *)
  MaxIterations, MaxBooks,         (* bounds: iterations, books after the first *)
  MaxFaults, MaxResets, MaxDeposits (* bounds: failures, resets, deposits  *)

ASSUME MarketMakingAssumption ==
  /\ {Capital, QuoteSizePct, MaxInventoryPct, MinOrderSize} \subseteq Nat \ {0}
  /\ {FeeBps, TargetProfitBps, BidOffsetBps, MinSpreadBps} \subseteq Nat
  /\ {NearBps, FarBps, MildSlope, SteepSlope} \subseteq Nat
  /\ BidOffsetBps < 10000
  /\ StaleAfter \in Nat /\ Lookbacks \subseteq Nat \ {0} /\ LeastLookback \in Nat
  /\ FirstLookback \in Lookbacks
  /\ Concavities \subseteq Nat /\ Deposit \in Nat
  /\ DryRuns \in BOOLEAN
  /\ Quotes \subseteq [bid : Nat \ {0}, ask : Nat \ {0}]
  /\ {MaxIterations, MaxBooks, MaxFaults, MaxResets, MaxDeposits} \subseteq Nat

VARIABLES
  db, work,    (* committed rows, and the rows the session sees            *)
  books,       (* order_book_snapshots, oldest first                       *)
  pc, it,      (* where the iteration stands; its local variables          *)
  now,         (* iterations begun                                         *)
  deposited, lookback, override, (* deposits; the window in use, the window asked for *)
  torn,        (* history: a reset fell between a read and its commit      *)
  unified_sizing_enabled, (* of the process's configuration               *)
  faults, resets

vars == <<db, work, books, pc, it, now, deposited, lookback, override, torn,
          unified_sizing_enabled, faults, resets>>
outside == <<deposited, override, resets, unified_sizing_enabled>>

\* `cap` is a history field: the max_inventory of the quote's own sizing.
Intents == [side : Sides, quantity : Nat, limit_price : Nat, created : Nat, cap : Int]

\* order_intents still pending, the position_snapshots row, sums of
\* pnl_snapshots.realized_pnl and fill_records.fee_paid.
Rests == [pending : SUBSET Intents, position : Rows, realized : Int, fees : Int]
Empty == [pending |-> {}, position |-> NoRow, realized |-> 0, fees |-> 0]

NoBook == [bid |-> 0, ask |-> 0, ts |-> 0]
NotRunning == [book |-> NoBook, list |-> <<>>, cancelled |-> {}, allowed |-> {},
               seen |-> 0, last |-> FALSE, dirty |-> FALSE, torn |-> FALSE]

TypeOK ==
  /\ \A w \in {db, work} :
       /\ w.pending \subseteq Intents /\ w.position \in Rows
       /\ w.realized \in Int /\ w.fees \in Nat
  /\ books \in Seq([bid : Nat, ask : Nat, ts : Nat])
  /\ pc \in {"idle", "check", "reconcile", "position", "quote", "commit"}
  /\ \A k \in DOMAIN it.list : it.list[k] \in Intents
  /\ it.cancelled \subseteq Intents /\ it.allowed \subseteq Sides /\ it.seen \in Int
  /\ it.last \in BOOLEAN /\ it.dirty \in BOOLEAN /\ it.torn \in BOOLEAN
  /\ now \in 0..MaxIterations /\ deposited \in 0..MaxDeposits
  /\ lookback \in Lookbacks /\ override \in Lookbacks
  /\ torn \in BOOLEAN /\ unified_sizing_enabled \in BOOLEAN
  /\ faults \in 0..MaxFaults /\ resets \in 0..MaxResets

Init ==
  /\ db = Empty /\ work = Empty
  /\ \E q \in Quotes : books = <<[bid |-> q.bid, ask |-> q.ask, ts |-> 0]>>
  /\ pc = "idle" /\ it = NotRunning /\ now = 0
  /\ deposited = 0 /\ lookback = FirstLookback /\ override = lookback
  /\ torn = FALSE /\ unified_sizing_enabled \in BOOLEAN
  /\ faults = 0 /\ resets = 0

-----------------------------------------------------------------------------
(* Arithmetic *)

Larger(a, b) == IF a < b THEN b ELSE a

\* quantize(..., ROUND_HALF_UP) of n / d.
Rounded(n, d) == (2 * n + d) \div (2 * d)

mid_price(book) == (book.bid + book.ask) \div 2
spread_bps(book) == ((book.ask - book.bid) * 10000) \div mid_price(book)
Latest == books[Len(books)]

-----------------------------------------------------------------------------
(* What the strategy is given *)

\* x[1] + ... + x[n].
SumTo(x, n) ==
  LET sum[k \in 0..n] == IF k = 0 THEN 0 ELSE sum[k - 1] + x[k]
  IN sum[n]

\* 0 where the code returns None.
_latest_twap_snapshot ==
  LET window == {k \in DOMAIN books : books[k].ts > now - Larger(LeastLookback, lookback)}
      counted == [k \in 1..Len(books) |-> IF k \in window THEN mid_price(books[k]) ELSE 0]
  IN IF Cardinality(window) < 2 THEN 0
     ELSE SumTo(counted, Len(books)) \div Cardinality(window)

\* It matters only where the wider window above holds fewer than two books,
\* and then its own holds fewer than two.
_calculate_twap(book) == mid_price(book)

\* 0 where the code returns None.
_latest_avg_entry_price(w) == w.position.avg_entry_price

\* Of the newest book against the oldest of the last ten.
_compute_twap_slope ==
  LET oldest == books[Larger(1, Len(books) - 9)]
      elapsed == Latest.ts - oldest.ts
      rise == (mid_price(Latest) - mid_price(oldest)) * 10000
      unit == mid_price(oldest) * elapsed
  IN IF elapsed <= 0 THEN "neutral"
     ELSE IF rise < -SteepSlope * unit THEN "steep_falling"
     ELSE IF rise < -MildSlope * unit THEN "mild_falling"
     ELSE IF rise <= MildSlope * unit THEN "neutral"
     ELSE IF rise <= SteepSlope * unit THEN "mild_rising"
     ELSE "steep_rising"

\* unrealized_pnl of a spot row is 0 from its creation on.
account_value(w) == Capital + Deposit * deposited + w.realized - w.fees

account_value_for_limits(w, book, seen) ==
  account_value(w) - Net(w.position) * mid_price(Latest) + seen * mid_price(book)

-----------------------------------------------------------------------------
(* MarketMakingStrategy.evaluate *)

TotalMarkup == 2 * FeeBps + TargetProfitBps

\* Seeded fault: the reference is the TWAP also while there is a position.
AskReferenceTwap(avg_entry_price, twap, calculated) ==
  IF twap > 0 THEN twap ELSE calculated

AskReference(avg_entry_price, twap, calculated) ==
  IF avg_entry_price > 0 THEN avg_entry_price
  ELSE IF twap > 0 THEN twap ELSE calculated

AskPrice(reference) == Rounded(reference * (10000 + TotalMarkup), 10000)

\* Seeded fault: the offset is taken for a percentage.
BidPricePct(ask) == Rounded(ask * (100 - BidOffsetBps), 100)

BidPrice(ask) == Rounded(ask * (10000 - BidOffsetBps), 10000)

\* The multiplier in percent, by slope of the TWAP and distance of the market.
Row(near, mid, far) == [near |-> near, mid |-> mid, far |-> far]

Matrix ==
  [buy  |-> [steep_falling |-> Row(10, 25, 50),  mild_falling |-> Row(25, 50, 75),
             neutral |-> Row(50, 100, 150),      mild_rising |-> Row(75, 125, 150),
             steep_rising |-> Row(75, 125, 150)],
   sell |-> [steep_falling |-> Row(50, 125, 150), mild_falling |-> Row(25, 100, 125),
             neutral |-> Row(50, 100, 150),       mild_rising |-> Row(25, 50, 75),
             steep_rising |-> Row(10, 25, 50)]]

_compute_unified_size_multiplier(side, ask, market, slope, concavity) ==
  LET ahead == IF side = "buy" THEN ask - market ELSE market - ask
      distance == ahead * 10000
      zone == IF distance < NearBps * ask THEN "near"
              ELSE IF distance < FarBps * ask THEN "mid" ELSE "far"
  IN IF ~unified_sizing_enabled THEN 100 * 100
     ELSE IF ahead <= 0 THEN 0 ELSE Matrix[side][slope][zone] * concavity

PctOf(value, pct, mid) == Rounded(value * pct, 100 * mid)

\* Seeded fault: the size is not cut to what the inventory still takes.
BuySizeUncut(size, room) == IF size < MinOrderSize THEN 0 ELSE size

BuySize(size, room) ==
  IF Lesser(size, Larger(0, room)) < MinOrderSize THEN 0 ELSE Lesser(size, Larger(0, room))

SellSize(size, position) ==
  IF position <= 0 \/ Lesser(size, position) < MinOrderSize THEN 0 ELSE Lesser(size, position)

\* A sell multiplied down to nothing keeps the plain size.
Scaled(side, size, multiplier) ==
  LET scaled == Rounded(size * multiplier, 10000)
  IN IF side = "sell" /\ scaled <= 0 THEN size ELSE scaled

Quotable(book) == now - book.ts <= StaleAfter /\ spread_bps(book) >= MinSpreadBps

_build_intent(side, price, quantity, max_inventory) ==
  [side |-> side, quantity |-> quantity, limit_price |-> price, created |-> now,
   cap |-> max_inventory]

\* The quotes for the allowed sides: `seen` is the position as it was read.
evaluate(w, book, seen, allowed, concavity) ==
  LET mid == mid_price(book)
      ask == AskPrice(AskReference(_latest_avg_entry_price(w), _latest_twap_snapshot,
                                   _calculate_twap(book)))
      value == account_value_for_limits(w, book, seen)
      max_inventory == PctOf(value, MaxInventoryPct, mid)
      Size(side) == Scaled(side, PctOf(value, QuoteSizePct, mid),
        _compute_unified_size_multiplier(side, ask, mid, _compute_twap_slope, concavity))
      bid == _build_intent("buy", BidPrice(ask), BuySize(Size("buy"), max_inventory - seen),
                           max_inventory)
      offer == _build_intent("sell", ask, SellSize(Size("sell"), seen), max_inventory)
  IN IF ~Quotable(book) THEN {}
     ELSE {quote \in {bid, offer} : quote.side \in allowed /\ quote.quantity > 0}

-----------------------------------------------------------------------------
(* Execution of a limit order *)

Touched(intent, book) ==
  IF intent.side = "buy" THEN book.ask <= intent.limit_price
  ELSE book.bid >= intent.limit_price

\* The maker's fill: the whole quantity, at the limit.
FillAt(intent) ==
  [side |-> intent.side, quantity |-> intent.quantity, price |-> intent.limit_price]

compute_fee(fill) == (fill.quantity * fill.price * FeeBps) \div 10000

Filled(w, intent) ==
  LET fill == FillAt(intent)
  IN [pending  |-> w.pending \ {intent},
      position |-> update_position_from_fill(w.position, fill),
      realized |-> w.realized + _compute_realized_pnl(w.position, fill),
      fees     |-> w.fees + compute_fee(fill)]

-----------------------------------------------------------------------------
(* One iteration *)

\* The intents the session loaded, in order of creation.
Listing(w) ==
  {list \in [1..Cardinality(w.pending) -> w.pending] :
     /\ \A intent \in w.pending : \E k \in DOMAIN list : list[k] = intent
     /\ \A j, k \in DOMAIN list : j < k => list[j].created <= list[k].created}

\* A window asked for at the dashboard is taken over.
_apply_twap_lookback_override == lookback' = override

\* The latest book and all the pending intents are read.
Begin ==
  /\ pc = "idle" /\ now < MaxIterations
  /\ now' = now + 1
  /\ _apply_twap_lookback_override
  /\ \E list \in Listing(work) : it' = [NotRunning EXCEPT !.book = Latest, !.list = list]
  /\ pc' = "check"
  /\ UNCHANGED <<db, work, books, torn, faults, outside>>

\* Live mode without live orders: quotes are computed and thrown away.
_run_market_making_dry_run ==
  /\ DryRuns /\ pc = "idle" /\ now < MaxIterations
  /\ now' = now + 1
  /\ _apply_twap_lookback_override
  /\ UNCHANGED <<db, work, books, pc, it, torn, faults, outside>>

\* intent.status = "pending", of the object in the session.
IsPending(intent) == intent \notin it.cancelled

Executes(intent) == IsPending(intent) /\ Touched(intent, it.book)

\* The dashboard's reset has deleted the row behind the object.
Deleted(intent) == intent \notin work.pending /\ intent \notin it.cancelled

CheckIntent ==
  /\ pc = "check" /\ it.list # <<>>
  /\ Executes(Head(it.list)) => ~Deleted(Head(it.list))
  /\ IF Executes(Head(it.list))
     THEN /\ work' = Filled(work, Head(it.list))
          /\ it' = [it EXCEPT !.list = Tail(@), !.dirty = TRUE]
          /\ pc' = "reconcile"
     ELSE /\ it' = [it EXCEPT !.list = Tail(@)]
          /\ UNCHANGED <<work, pc>>
  /\ UNCHANGED <<db, books, now, lookback, torn, faults, outside>>

ListChecked ==
  /\ pc = "check" /\ it.list = <<>>
  /\ it' = [it EXCEPT !.last = TRUE]
  /\ pc' = "reconcile"
  /\ UNCHANGED <<db, work, books, now, lookback, torn, faults, outside>>

AfterReconcile == IF it.last THEN "commit" ELSE "check"

\* Seeded fault: a quote is stale one iteration late.
StaleQuotesLate(w) == {intent \in w.pending : now - intent.created > StaleAfter + 1}

StaleQuotes(w) == {intent \in w.pending : now - intent.created > StaleAfter}

\* Seeded fault: when one side is free, both are quoted.
FreeSidesAny(pending) ==
  IF Sides = {intent.side : intent \in pending} THEN {} ELSE Sides

FreeSides(pending) == Sides \ {intent.side : intent \in pending}

\* Cancels what is stale, then counts what is left on each side.
_reconcile_market_making_quotes ==
  LET stale == StaleQuotes(work)
      allowed == FreeSides(work.pending \ stale)
  IN /\ pc = "reconcile"
     /\ work' = [work EXCEPT !.pending = @ \ stale]
     /\ it' = [it EXCEPT !.cancelled = @ \union stale, !.allowed = allowed]
     /\ pc' = IF allowed = {} THEN AfterReconcile ELSE "position"
     /\ UNCHANGED <<db, books, now, lookback, torn, faults, outside>>

_current_position ==
  /\ pc = "position"
  /\ it' = [it EXCEPT !.seen = Net(work.position)]
  /\ pc' = "quote"
  /\ UNCHANGED <<db, work, books, now, lookback, torn, faults, outside>>

_generate_and_persist_quotes(concavity) ==
  /\ pc = "quote"
  /\ work' = [work EXCEPT !.pending =
                @ \union evaluate(work, it.book, it.seen, it.allowed, concavity)]
  /\ pc' = AfterReconcile
  /\ UNCHANGED <<db, books, it, now, lookback, torn, faults, outside>>

Commit ==
  /\ pc = "commit"
  /\ db' = work
  /\ torn' = (torn \/ it.torn)
  /\ pc' = "idle" /\ it' = NotRunning
  /\ UNCHANGED <<work, books, now, lookback, faults, outside>>

Rollback ==
  /\ work' = db
  /\ pc' = "idle" /\ it' = NotRunning
  /\ UNCHANGED <<db, books, now, lookback, torn, outside>>

\* Inserting the order record of a deleted intent violates its foreign key.
FillOfDeletedIntent ==
  /\ pc = "check" /\ it.list # <<>>
  /\ Executes(Head(it.list)) /\ Deleted(Head(it.list))
  /\ Rollback
  /\ UNCHANGED faults

\* Any other exception of the iteration, and the end of the process.
IterationFails ==
  /\ pc # "idle" /\ faults < MaxFaults
  /\ faults' = faults + 1
  /\ Rollback

-----------------------------------------------------------------------------
(* The collector and the dashboard *)

OrderBookArrives(quote) ==
  /\ Len(books) <= MaxBooks
  /\ books' = Append(books, [bid |-> quote.bid, ask |-> quote.ask, ts |-> now])
  /\ UNCHANGED <<db, work, pc, it, now, lookback, torn, faults, outside>>

\* Bound: the window is changed once.
twap_lookback_set(hours) ==
  /\ override = FirstLookback /\ hours # override
  /\ override' = hours
  /\ UNCHANGED <<db, work, books, pc, it, now, deposited, lookback, torn,
                 unified_sizing_enabled, faults, resets>>

deposit_create ==
  /\ deposited < MaxDeposits
  /\ deposited' = deposited + 1
  /\ UNCHANGED <<db, work, books, pc, it, now, lookback, override, torn,
                 unified_sizing_enabled, faults, resets>>

ReadPosition == pc = "quote" \/ \E intent \in work.pending \ db.pending : TRUE

\* Deletes the committed rows of the account.  The iteration sees that from
\* its next query on, and keeps what it has added and not committed.  Behind
\* an iteration that has filled an intent the reset waits for its commit and
\* then fails on the order record, or for its rollback and then is a reset
\* between two iterations.
reset_run_history ==
  /\ resets < MaxResets
  /\ ~it.dirty
  /\ db' = Empty
  /\ work' = [Empty EXCEPT !.pending = work.pending \ db.pending]
  /\ it' = [it EXCEPT !.torn = @ \/ ReadPosition]
  /\ torn' = FALSE
  /\ resets' = resets + 1
  /\ UNCHANGED <<books, pc, now, deposited, lookback, override, unified_sizing_enabled, faults>>

Done == now = MaxIterations /\ pc = "idle" /\ UNCHANGED vars

Next ==
  \/ Begin \/ _run_market_making_dry_run \/ CheckIntent \/ ListChecked \/ _reconcile_market_making_quotes
  \/ _current_position \/ \E c \in Concavities : _generate_and_persist_quotes(c)
  \/ Commit \/ FillOfDeletedIntent \/ IterationFails
  \/ \E quote \in Quotes : OrderBookArrives(quote)
  \/ \E hours \in Lookbacks : twap_lookback_set(hours)
  \/ deposit_create \/ reset_run_history \/ Done

Spec == Init /\ [][Next]_vars

-----------------------------------------------------------------------------
(* Properties *)

(* An account never has two quotes resting on one side: what a fill, a      *)
(* cancellation or a reset leaves is counted before a side is quoted again  *)
(* (main.py:599-625).                                                       *)
OnePerSide ==
  \A w \in {db, work} : \A i, j \in w.pending : i.side = j.side => i = j

\* The rows, and whether a reset has come between them and their reads.
Views == {<<db, torn>>, <<work, torn \/ it.torn>>}

(* The account is never short, and whatever rests can be filled at any      *)
(* time: a resting sell is covered by the position, a resting buy fits      *)
(* under the maximum inventory it was sized by.  A reset that falls between *)
(* the read of the position and the commit is the one exception             *)
(* (market_making.py:199-299, main.py:433-456).                             *)
InventoryWithinBounds ==
  \A v \in Views : ~v[2] =>
    /\ Net(v[1].position) >= 0
    /\ \A intent \in v[1].pending :
         IF intent.side = "sell" THEN intent.quantity <= Net(v[1].position)
         ELSE Net(v[1].position) + intent.quantity <= intent.cap

(* A resting sell earns the cost of the position and the fees of both sides *)
(* back, at whatever average the buys filled since it was placed have left  *)
(* (market_making.py:154-165).                                              *)
SellsRecoverCost ==
  \A v \in Views : ~v[2] =>
    \A intent \in v[1].pending : intent.side = "sell" =>
      intent.limit_price * (10000 - FeeBps) >= v[1].position.avg_entry_price * (10000 + FeeBps)

(* Whatever way an iteration takes to its commit, it leaves no quote        *)
(* resting that is older than the staleness limit (main.py:599-648).        *)
NoStaleQuoteCommitted ==
  [][pc = "commit" /\ pc' = "idle" /\ db' = work =>
       \A intent \in db'.pending : now - intent.created <= StaleAfter]_vars

=============================================================================
