----------------------------- MODULE FundingCapture -----------------------------
(***************************************************************************)
(* The funding-capture loop of the paper trader: the strategy              *)
(* (core/strategy/funding_capture.py), the loop that drains its intents    *)
(* (apps/paper_trader/main.py), their execution                            *)
(* (core/paper/execution_flow.py) behind the legacy risk checks            *)
(* (core/risk/engine.py), the alerts at its end (AlertEvaluator), and the  *)
(* replay that drives the same loop over recorded rates                    *)
(* (apps/backtester/replay.py).                                            *)
(*                                                                         *)
(* An iteration is one transaction: `work` is the database as its session  *)
(* sees it, `db` what is committed.  A step is one query-and-write of the  *)
(* session; between two of them the collector may poll.                    *)
(*                                                                         *)
(* The clock is the number of iterations: an intent carries the one it was *)
(* issued in, and the window of the rejection alert, of which no state is  *)
(* kept, may begin with any of them or after the last.  The instance lies  *)
(* within one UTC day.                                                     *)
(* Signals, order records and risk events are rows no step below reads;    *)
(* the fees of fills enter no PnL.                                         *)
(***************************************************************************)
EXTENDS AlertEvaluator, Sequences, FiniteSets

CONSTANTS
  PositionSize,     (* FundingCaptureConfig.position_size                  *)
  EntryThreshold,   (* .entry_funding_rate_threshold                       *)
  ExitThreshold,    (* .exit_funding_rate_threshold                        *)
  MinEntryFunding,  (* RiskConfig.min_entry_funding_rate                   *)
  MaxNotional,      (* RiskConfig.max_notional_per_symbol                  *)
  MaxDailyLoss,     (* RiskConfig.max_daily_loss, a negative number        *)
  SymbolsConfigured,(* RiskConfig names the two symbols of check 7         *)
  Halted,           (* RiskConfig.kill_switch_active, circuit_breaker_active *)
  FundingRates, Marks, (* what an iteration may be given                   *)
  FeedsSeen,        (* ages of the funding feed the alerts may meet        *)
  BooksSeen,        (* order books the alerts may meet                     *)
  Quotes,           (* [bid, ask] of the ticks                             *)
  MayStall,         (* whether a drain may outlive max_data_age_seconds    *)
  MaxIterations,    (* bound: iterations of the loop                       *)
  MaxFaults         (* bound: exceptions, crashes included                 *)

ASSUME FundingCaptureAssumption ==
  /\ PositionSize \in Nat \ {0}
  /\ EntryThreshold \in Int /\ ExitThreshold \in Int /\ MinEntryFunding \in Int
  /\ ExitThreshold < EntryThreshold
  /\ MaxNotional \in Nat /\ MaxDailyLoss \in Int
  /\ SymbolsConfigured \in BOOLEAN /\ Halted \in BOOLEAN
  /\ FundingRates \subseteq Int /\ Marks \subseteq Nat /\ FeedsSeen \subseteq Feeds
  /\ BooksSeen \subseteq [age : Feeds, spread_bps : Nat]
  /\ Quotes \subseteq [bid : Nat \ {0}, ask : Nat \ {0}]
  /\ MayStall \in BOOLEAN
  /\ MaxIterations \in Nat /\ MaxFaults \in Nat

Spot == "spot"
Perp == "perp"
Symbols == {Spot, Perp}

VARIABLES
  db,          (* committed rows                                           *)
  work,        (* the rows as the iteration's session sees them            *)
  tick,        (* the latest market tick of each symbol                    *)
  given,       (* the rate and mark the iteration was given                *)
  pc,          (* where the iteration stands                               *)
  alerts,      (* what its evaluator has raised                            *)
  window_start,(* from when on its evaluator has counted rejections        *)
  iterations, faults

vars == <<db, work, tick, given, pc, alerts, window_start, iterations, faults>>

Intents == [symbol : Symbols, side : Sides, reduce_only : BOOLEAN, created : Nat]

\* order_intents still pending, oldest first, sum of the rejected and when they
\* were issued; position_snapshots; sums of fill_records, pnl_snapshots,
\* funding_payments.
Books == [pending : Seq(Intents), rejected : [Symbols -> Int], rejected_ts : SUBSET Nat,
          position : [Symbols -> Rows], filled : [Symbols -> Int],
          realized : [Symbols -> Int], paid : Int]

NoQuote == [bid |-> 0, ask |-> 0]
NotGiven == [rate |-> 0, mark |-> 0]

\* The ticks found at the start: none, those of the seed scripts, which load the
\* spot symbol only, or those of the collector.
Loaded ==
  {t \in [Symbols -> Quotes \union {NoQuote}] : t[Perp] # NoQuote => t[Spot] # NoQuote}

TypeOK ==
  /\ db \in Books /\ work \in Books
  /\ tick \in [Symbols -> Quotes \union {NoQuote}]
  /\ given \in [rate : FundingRates, mark : Marks] \union {NotGiven}
  /\ pc \in {"idle", "drain", "accrue", "alert", "commit"} /\ alerts \subseteq AlertTypes
  /\ window_start \in 0..MaxIterations
  /\ iterations \in 0..MaxIterations /\ faults \in 0..MaxFaults

Init ==
  /\ db = [pending |-> <<>>, rejected |-> [s \in Symbols |-> 0], rejected_ts |-> {},
           position |-> [s \in Symbols |-> NoRow], filled |-> [s \in Symbols |-> 0],
           realized |-> [s \in Symbols |-> 0], paid |-> 0]
  /\ work = db
  /\ tick \in Loaded
  /\ given = NotGiven
  /\ pc = "idle" /\ alerts = {} /\ window_start = 0
  /\ iterations = 0 /\ faults = 0

-----------------------------------------------------------------------------
(* FundingCaptureStrategy *)

Leg(symbol, side, reduce_only, ts) ==
  [symbol |-> symbol, side |-> side, reduce_only |-> reduce_only, created |-> ts]

_enter(ts) == <<Leg(Spot, "buy", FALSE, ts), Leg(Perp, "sell", FALSE, ts)>>
_exit(ts) == <<Leg(Spot, "sell", TRUE, ts), Leg(Perp, "buy", TRUE, ts)>>

_open_perp_position(w) == w.position[Perp].quantity > 0

evaluate(w, rate) ==
  IF ~_open_perp_position(w) /\ rate >= EntryThreshold THEN "entered"
  ELSE IF _open_perp_position(w) /\ rate <= ExitThreshold THEN "exited"
  ELSE "no_action"

-----------------------------------------------------------------------------
(* RiskEngine.check: the grounds on which an intent is rejected *)

_calculate_daily_loss(w) == w.realized[Spot] + w.realized[Perp] + w.paid

_has_hedge_leg_mismatch(w) ==
  SymbolsConfigured /\ (w.position[Spot].quantity > 0) # (w.position[Perp].quantity > 0)

\* Only opening intents meet the funding edge, the daily loss and the hedge.
EntryRefused(w) ==
  \/ given.rate < MinEntryFunding
  \/ _calculate_daily_loss(w) < MaxDailyLoss
  \/ _has_hedge_leg_mismatch(w)

\* `late`: the drain has outlived max_data_age_seconds, measured from its start.
Refused(w, intent, late) ==
  \/ Halted
  \/ MayStall /\ late
  \/ ~intent.reduce_only /\ EntryRefused(w)
  \/ PositionSize * tick[intent.symbol].ask > MaxNotional

-----------------------------------------------------------------------------
(* One iteration *)

Goto(from, to) == pc = from /\ pc' = to

EvaluateStrategy(rate, mark) ==
  LET signal == evaluate(work, rate)
  IN /\ iterations < MaxIterations
     /\ Goto("idle", IF signal = "no_action" THEN "accrue" ELSE "drain")
     /\ given' = [rate |-> rate, mark |-> mark]
     /\ work' = [work EXCEPT !.pending = @ \o
                   (IF signal = "entered" THEN _enter(iterations)
                    ELSE IF signal = "exited" THEN _exit(iterations) ELSE <<>>)]
     /\ UNCHANGED <<db, tick, alerts, window_start, iterations, faults>>

\* execute_one_paper_market_intent returns False: nothing pending, or no tick.
StopDraining ==
  /\ Goto("drain", "accrue")
  /\ work.pending # <<>> => tick[Head(work.pending).symbol] = NoQuote
  /\ UNCHANGED <<db, work, tick, given, alerts, window_start, iterations, faults>>

\* The order as filled: its whole quantity, at the quoted price of its side.
FillOf(intent) ==
  [side |-> intent.side, quantity |-> PositionSize,
   price |-> FillPrice(intent.side, tick[intent.symbol])]

\* Seeded fault: the intent keeps its status "pending".
MarkFilledLost(pending) == pending

\* intent.status = "filled"
MarkFilled(pending) == Tail(pending)

\* The fill, the position it makes and the PnL it realizes.
Filled(w, s, fill) ==
  [w EXCEPT !.pending = MarkFilled(@),
            !.position[s] = update_position_from_fill(@, fill),
            !.realized[s] = @ + _compute_realized_pnl(w.position[s], fill),
            !.filled[s] = @ + Signed(fill)]

\* execute_one_paper_market_intent on the oldest pending intent: filled, and
\* the drain goes on, or rejected, and the drain stops.
ExecuteOne(late) ==
  LET intent == Head(work.pending)
      s == intent.symbol
  IN /\ pc = "drain"
     /\ work.pending # <<>> /\ tick[s] # NoQuote
     /\ IF Refused(work, intent, late)
        THEN /\ work' = [work EXCEPT !.pending = Tail(@),
                           !.rejected[s] = @ + _signed_qty(intent.side, PositionSize),
                           !.rejected_ts = @ \union {intent.created}]
             /\ pc' = "accrue"
        ELSE /\ work' = Filled(work, s, FillOf(intent))
             /\ pc' = pc
     /\ UNCHANGED <<db, tick, given, alerts, window_start, iterations, faults>>

\* The quantity of the row has no sign, whatever its side.
Payment(w) == -(w.position[Perp].quantity * given.mark * given.rate)

accrue_funding_payment ==
  /\ Goto("accrue", "alert")
  /\ work' = [work EXCEPT !.paid = @ + Payment(work)]
  /\ UNCHANGED <<db, tick, given, alerts, window_start, iterations, faults>>

\* What the evaluator reads; the payment has not been flushed, and a rejected
\* intent counts by when it was issued.
Reading(w, feed, book, quiet, start) ==
  [realized |-> w.realized[Spot] + w.realized[Perp], paid |-> w.paid - Payment(w),
   unflushed |-> Payment(w), spot |-> Net(w.position[Spot]), perp |-> Net(w.position[Perp]),
   rejections |-> {ts \in w.rejected_ts : ts >= start},
   rate |-> given.rate, feed |-> feed, book |-> book, quiet |-> quiet,
   disabled |-> Halted /\ w.rejected_ts # {}]

EvaluateAlerts(feed, book, quiet, start) ==
  /\ Goto("alert", "commit")
  /\ alerts' = evaluate_alerts(Reading(work, feed, book, quiet, start))
  /\ window_start' = start
  /\ UNCHANGED <<db, work, tick, given, iterations, faults>>

EndIteration ==
  /\ pc' = "idle" /\ given' = NotGiven /\ alerts' = {} /\ window_start' = 0
  /\ iterations' = iterations + 1

\* session.commit; the alerts have added events and nothing else.
Commit ==
  /\ pc = "commit"
  /\ db' = work
  /\ EndIteration
  /\ UNCHANGED <<work, tick, faults>>

\* Anything that raises before the commit, the commit included, and the end
\* of the process.
IterationFails ==
  /\ pc # "idle" /\ faults < MaxFaults
  /\ work' = db
  /\ EndIteration
  /\ faults' = faults + 1
  /\ UNCHANGED <<db, tick>>

\* The collector's cycle commits a tick of either symbol, or fails and none.
_poll_once(quotes) ==
  /\ tick # quotes
  /\ tick' = quotes
  /\ UNCHANGED <<db, work, given, pc, alerts, window_start, iterations, faults>>

Done == iterations = MaxIterations /\ pc = "idle" /\ UNCHANGED vars

Next ==
  \/ \E rate \in FundingRates, mark \in Marks : EvaluateStrategy(rate, mark)
  \/ StopDraining
  \/ \E late \in BOOLEAN : ExecuteOne(late)
  \/ accrue_funding_payment
  \/ \E feed \in FeedsSeen, book \in BooksSeen, quiet \in BOOLEAN,
        start \in 0..(iterations + 1) : EvaluateAlerts(feed, book, quiet, start)
  \/ Commit
  \/ IterationFails
  \/ \E quotes \in [Symbols -> Quotes] : _poll_once(quotes)
  \/ Done

Spec == Init /\ [][Next]_vars

-----------------------------------------------------------------------------
(* Properties *)

Waiting(w, s, side) ==
  Cardinality({i \in DOMAIN w.pending : w.pending[i].symbol = s /\ w.pending[i].side = side})

PendingOf(w, s) == PositionSize * (Waiting(w, s, "buy") - Waiting(w, s, "sell"))

\* What the strategy has asked for on one symbol, whatever became of it.
Issued(w, s) == w.filled[s] + PendingOf(w, s) + w.rejected[s]

(* Legs are issued in pairs and each is filled, rejected or pending exactly  *)
(* once, through rejections, missing ticks and rollbacks: the two positions *)
(* differ by the legs that are still pending or were rejected, and by       *)
(* nothing else (main.py:336-385, execution_flow.py:29-170).                *)
ExposureIsUnfilledLegs ==
  \A w \in {db, work} : Issued(w, Spot) + Issued(w, Perp) = 0

(* Side and quantity of a position row are the signed sum of the fills of   *)
(* its symbol, through additions, reductions, reversals and going flat, and *)
(* it has an average price exactly while it is open                         *)
(* (position_tracker.py:22-101).                                            *)
PositionIsSumOfFills ==
  \A w \in {db, work} : \A s \in Symbols :
    /\ Net(w.position[s]) = w.filled[s]
    /\ w.position[s].quantity > 0 <=> w.position[s].avg_entry_price > 0

BooksOf(w) ==
  [s \in Symbols |->
     [net |-> Net(w.position[s]),
      cash |-> w.realized[s] - Net(w.position[s]) * w.position[s].avg_entry_price]]

Ledger == INSTANCE TradingLedger WITH
  Quantities <- {PositionSize, -PositionSize}, Erasable <- FALSE,
  Prices <- UNION {{q.bid, q.ask} : q \in Quotes},
  settled <- BooksOf(db), working <- BooksOf(work)

(* Rows with average prices and realized PnL keep the books of a plain      *)
(* ledger: every fill moves realized PnL less the cost of the position by   *)
(* exactly the money it cost, and an iteration settles whole or not at all  *)
(* (pnl_calculator.py:31-60, ARCHITECTURE.md:207).                          *)
KeepsLedger == Ledger!Spec

(* An iteration commits an unhedged book in silence in one way only.  When  *)
(* the signed legs do not cancel, a mismatch or a rejected order is among   *)
(* its alerts, also where the mismatch check, which compares quantities     *)
(* without their side, sees two equal legs; unless the legs are equal and   *)
(* on the same side, and every rejection that made them so is of an intent  *)
(* issued before the alert's window (evaluator.py:419-518, main.py:290-303).*)
UnhedgedIsAlarmed ==
  pc = "commit" =>
    \/ Net(work.position[Spot]) + Net(work.position[Perp]) = 0
    \/ alerts \intersect {"position_mismatch", "order_rejected"} # {}
    \/ /\ Net(work.position[Spot]) = Net(work.position[Perp])
       /\ work.rejected_ts # {} /\ \A ts \in work.rejected_ts : ts < window_start

(* "reduce_only=True -> closing intent (reduce or close existing position)" *)
(* (ARCHITECTURE.md:223): the fill of a closing intent does not leave its   *)
(* symbol with a larger position than before.                               *)
ReduceOnlyReduces ==
  [][pc = "drain" /\ work.pending # <<>> /\ Head(work.pending).reduce_only
       => \A s \in Symbols : work'.position[s].quantity <= work.position[s].quantity]_vars

=============================================================================
