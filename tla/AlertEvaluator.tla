----------------------------- MODULE AlertEvaluator -----------------------------
(***************************************************************************)
(* The alerts at the end of an iteration (core/alerting/evaluator.py),     *)
(* over what its session's queries return.  The session does not flush by  *)
(* itself: the funding payment just added is `unflushed`, and no query     *)
(* sees it before a critical alert has flushed its own event.  The         *)
(* configuration names both legs, without which no mismatch is looked for. *)
(*                                                                         *)
(* A reading is [realized, paid, unflushed, spot, perp, rejections, rate,  *)
(* feed, book, quiet, disabled]: sums of the day's PnL and payments, the   *)
(* signed legs, when the rejected intents of the window were issued, the   *)
(* latest funding rate and how old it is, the latest order book as         *)
(* [age, spread_bps], whether the last fill is old, and whether the last   *)
(* kill-switch rejection is the newest.                                    *)
(***************************************************************************)
EXTENDS PaperAccount

CONSTANTS
  MinFundingRate,      (* AlertConfig.min_funding_rate                     *)
  DrawdownThreshold,   (* .drawdown_threshold                              *)
  MismatchTolerance,   (* .mismatch_tolerance                              *)
  BookWatched,         (* .ob_exchange and .ob_symbol are set              *)
  MinSpreadBps,        (* .mm_min_spread_bps                               *)
  Carried              (* PnL of the days before                           *)

ASSUME AlertAssumption ==
  /\ MinFundingRate \in Int /\ DrawdownThreshold \in Int
  /\ MismatchTolerance \in Nat /\ Carried \in Int
  /\ BookWatched \in BOOLEAN /\ MinSpreadBps \in Nat

\* How old the newest snapshot of a kind is: within the threshold, beyond it,
\* beyond twice the threshold, or there is none.
Feeds == {"fresh", "stale", "lost", "none"}

AlertTypes ==
  {"stale_funding_data", "position_pnl_drawdown", "open_position_no_recent_fill",
   "no_funding_edge", "exchange_disconnected", "order_rejected", "strategy_disabled",
   "position_mismatch", "daily_loss_threshold_hit", "stale_order_book", "spread_too_tight"}

Alert(name, condition) == IF condition THEN {name} ELSE {}

_check_stale_funding_data(r) == Alert("stale_funding_data", r.feed # "fresh")

\* A watched book that has no snapshot is stale, and has no spread.
_check_stale_order_book(r) ==
  Alert("stale_order_book", BookWatched /\ r.book.age # "fresh")

_check_spread_too_tight(r) ==
  Alert("spread_too_tight",
        BookWatched /\ r.book.age # "none" /\ r.book.spread_bps < MinSpreadBps)

_check_position_pnl_drawdown(r) ==
  Alert("position_pnl_drawdown", Carried + r.realized + r.paid < DrawdownThreshold)

_check_open_position_no_recent_fill(r) ==
  Alert("open_position_no_recent_fill", (r.spot # 0 \/ r.perp # 0) /\ r.quiet)

_check_no_funding_edge(r) ==
  Alert("no_funding_edge", r.feed # "none" /\ r.rate < MinFundingRate)

_check_exchange_disconnected(r) == Alert("exchange_disconnected", r.feed = "lost")

\* Seeded fault: rejections are not counted.
RejectedSilently(r) == {}

_check_order_rejected(r) == Alert("order_rejected", r.rejections # {})

_check_strategy_disabled(r) == Alert("strategy_disabled", r.disabled)

\* Quantities have no sign.  One open leg is enough, whatever the tolerance.
_check_position_mismatch(r) ==
  LET spot == Abs(r.spot)
      perp == Abs(r.perp)
  IN Alert("position_mismatch",
           \/ (spot = 0) # (perp = 0)
           \/ Abs(spot - perp) > MismatchTolerance)

\* Only when the cumulative loss has not been reported as a drawdown.
_check_daily_loss_threshold_hit(r, flushed) ==
  LET day == r.realized + r.paid + (IF flushed THEN r.unflushed ELSE 0)
  IN Alert("daily_loss_threshold_hit",
           day < DrawdownThreshold /\ Carried + day >= DrawdownThreshold)

\* The checks in their order, which the last one depends on.
evaluate_alerts(r) ==
  LET earlier == UNION {_check_stale_funding_data(r), _check_stale_order_book(r),
                        _check_spread_too_tight(r), _check_position_pnl_drawdown(r),
                        _check_open_position_no_recent_fill(r), _check_no_funding_edge(r),
                        _check_exchange_disconnected(r), _check_order_rejected(r),
                        _check_strategy_disabled(r), _check_position_mismatch(r)}
      flushed == earlier \intersect {"position_pnl_drawdown", "exchange_disconnected",
                                     "position_mismatch"} # {}
  IN earlier \union _check_daily_loss_threshold_hit(r, flushed)

=============================================================================
