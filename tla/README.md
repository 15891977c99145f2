# A formal model of crypto-mvp

TLA+ specifications of the trading core of crypto-mvp, the configurations that
check them with TLC on small instances, and theorems about them whose proofs are
checked by TLAPS. Paths below are relative to the repository (`src/` in
`PROJECT.json`). `PROJECT.json` lists, for each definition, the lines it models.

## 1. The system

One process, the paper trader (`apps/paper_trader/main.py`), runs two strategies:
market making on the main thread, and the delta-neutral runner
(`apps/strategy_engine/delta_neutral_runner.py`) on a daemon thread. A second
process, the collector, writes ticks, order books and funding rates; a third, the
dashboard, serves the operator and writes controls. The three share one PostgreSQL
database; the two threads of the paper trader also share the circuit breakers, a
class attribute of `RiskEngine`, without a lock.

| Component | State it keeps | Operations | Talks to | What makes it correct |
|---|---|---|---|---|
| Circuit breakers (`core/risk/risk_engine.py`) | per exchange: failure count, state, two timestamps; memory of one process | `record_exchange_success`, `record_exchange_failure`, `is_exchange_available` | both loops | phases in order, count agrees with state, one canary, an open breaker can always be probed, a probe is always answered |
| Preflight and notional checks (same file) | none (reads ticks, positions) | `check_data_freshness`, `check_max_notional`, `check_max_symbol_notional`, `run_preflight` | both loops | what may be entered may be exited |
| Market-making loop (`apps/paper_trader/main.py`) | iteration; orders in the database | gate, report, preflight, one iteration of trading | breakers, database | reports on every probe it is given |
| Delta-neutral runner (`apps/strategy_engine/delta_neutral_runner.py`) | latch, time of last accrual; two legs in the database | iteration, enter, exit, rebalance, hold, emergency flatten, daily loss | breakers, strategy, controls | the hedge is not broken by accident, flatten is final and is retried, controls reach it |
| Delta-neutral strategy (`core/strategy/delta_neutral.py`) | paused, flattened | `evaluate`, `pause`, `set_flattened` | runner | never trades on a naked leg |
| Operator controls (`apps/dashboard/routes.py`) | `system_controls`, `dn_runner_commands` | kill switch, strategy switches, flatten, reset, deposit | runner, loop | a control takes effect, and only as documented |
| Position tracker, simulator, PnL (`core/paper/position_tracker.py`, `simulator.py`, `pnl_calculator.py`, `fees.py`) | position rows, fills, PnL snapshots | fill, average, realize | execution flow, runner | side, quantity, average and realized PnL are those of a signed ledger |
| Perpetual execution (`core/paper/perp_execution.py`) | the short's row: margin, average, mark | open, close | runner | margin follows the contracts held |
| Funding accrual (`core/paper/funding_accrual.py`) | accruals, `funding_pnl` | accrue, settle, pay | runner, funding capture | each hour accrued once per life, each accrual settled once |
| Execution flow (`core/paper/execution_flow.py`) | order intents and their status | check, simulate, record | both loops of the paper trader | one fill per intent, status and position change together |
| Legacy risk engine (`core/risk/engine.py`) | none (reads PnL, positions) | seven ordered checks | execution flow | entries are refused, exits are not |
| Funding capture (`core/strategy/funding_capture.py`, `apps/paper_trader/main.py`) | none | signal, two intents, drain, payment, alerts, commit | execution flow, alerting | both legs, or an alert |
| Market making (`core/strategy/market_making.py`, `apps/paper_trader/main.py`) | resting intents, TWAP window | fill, cancel stale, requote | execution flow, account | one quote per side, inventory within bounds, no sale below cost |
| Alerting (`core/alerting/evaluator.py`) | none | eleven checks in order | funding-capture loop | nothing unhedged is committed in silence, but for one case (section 3) |
| Collector (`apps/collector`) | ticks, books, funding rates | poll | database | a poll commits whole or not at all |
| Reporting, KPI, backtest scripts, signal logger | rows, or none | | database | mostly input, output and arithmetic |

The behaviours that are hard to test here are the two threads on one breaker, an
iteration that returns early after it has claimed a probe, a step that fails
between the two legs of a position, an emergency flatten that fails, controls
written while an iteration runs, a restart, which forgets the latch, the
pause, the breakers and the hour of the last accrual, a drain that stops between
two legs, orders that rest while the position they were sized by changes, and an
account deleted under a running iteration. `PROJECT.json` lists each with its line and properties.

## 2. The modules

**`CircuitBreaker.tla`** has one breaker and any number of threads. A step is one
access to a shared attribute: `failure_count += 1` is a read and a write, a
condition is one step per operand it reads, and the assignments of the two
`record_` functions come in the order of the code. A timestamp is `none`,
`recent` or `cooled` (60 seconds old), the only distinction
`is_exchange_available` makes; the count saturates at the limit, the only value
it is compared with. `Abandon` is a caller that returns without reporting.
`canary` and `overlapped` are observers: the threads that were admitted to a
half-open exchange, and whether two threads have ever been inside their
iterations at once.

**`StrategyGates.tla`** takes one call of the risk engine as one step, and models
when the two loops make these calls: in which order they ask, where they return
early, what they report. Market making judges kraken by the XBTUSD tick, the
runner by ETHUSD, and the two breakers are shared. The runner's report of a stale
perpetual tick and the end of its iteration are two steps (`DNNotifyPerp`, `DNStale`).

**`DeltaNeutral.tla`** is the runner's iteration, one step per access to shared
state: kill switch, strategy switch, breakers, flatten command, preflight, latch,
daily loss, the strategy's decision, each leg of a handler, and the commit.
`legs` is what the database holds and `staged` what the iteration's session has
written; `emergency_flatten` commits in a session of its own. Steps of the
dashboard and of the market interleave anywhere, and a restart loses `staged`,
`flattened` and `paused`. Quantities are in contracts of 0.10 ETH, prices are
marks of one contract, and `is_balanced` is the code's 0.9 to 1.1 interval as
linear arithmetic.

**`DeltaNeutralHistory.tla`** adds three observers, for properties that relate a
step to what happened earlier. **`MCDeltaNeutral.tla`** and
**`MCDeltaNeutralHistory.tla`** give TLC the initial positions.

**`PaperAccount.tla`** is the position row and the PnL a fill realizes, as
operators: first fill, addition, reduction, reversal, and the row at zero that
keeps its side.

**`TradingLedger.tla`** is the abstract specification of an account's books: per
symbol a signed quantity and the cash its trades have taken or given, `settled`
and `working`, changed by `Trade`, `Settle`, `Drop` and `Erase`. `FundingCapture`
and `PerpBooks` implement it: the refinement maps a row to its signed quantity,
and realized PnL less quantity times average entry to the cash. A wrong average,
a wrong realized PnL, a fill outside its transaction or a transaction settled in
part is no step of the ledger.

**`FundingCapture.tla`** is the funding-capture loop with the execution flow, the
legacy risk engine's checks, the payment and the alerts. `work` is the database as
the iteration's session sees it, `db` what is committed; the collector polls
between any two steps. **`AlertEvaluator.tla`** holds the eleven checks as
operators over a reading; the session does not flush by itself, so the payment
just added is missing from the sums until a critical alert has flushed its own
event. An intent carries the iteration it was issued in, and the rejections the alert
counts are those issued since `window_start`, as `evaluator.py:421-428` counts them by
`created_ts`; an evaluation may have any window. The two sides of a quote, missing ticks and a drain slower than
`max_data_age_seconds` are inputs. `apps/backtester/replay.py` runs this loop over
recorded rates.

**`MarketMaking.tla`** is the market-making iteration: the resting intents are
loaded once, each is filled or passed over, after every fill and at the end stale
quotes are cancelled and free sides requoted. The read of the position and the
quote made from it are two steps, and the dashboard's reset may fall between
them. Prices are in steps of 0.1 USD, sizes in the strategy's rounding step; the
TWAP, its slope, the size matrix, percentage sizing and rounding are computed,
the concavity modifier is any of a set. A fill of an intent whose row the reset
deleted violates the order record's foreign key and rolls back. A reset that meets
an iteration that has filled an intent waits for its row locks, and so is a reset
after it.

**`PerpBooks.tla`** is the money of the delta-neutral account: the short's row, the
spot leg's row over `PaperAccount`, snapshots, accruals and settlement, over
commits, rollbacks, restarts and resets. When the runner trades is the subject of
`DeltaNeutral`; here each handler may run whenever the legs allow it. A hold is three
steps: the legs are read (`Hold`), the hour is accrued (`Accrue`), a window is settled
(`Settle`). The dashboard's reset is another process and takes no lock the runner
takes: it may fall between any two of these and of the other steps. The iteration
then sees it from its next query on, keeps the rows it has inserted itself, and fails
at its flush on a row it had changed (`FlushFails`); a reset that meets a row lock waits
for the commit. `ResetAcrossCommit` is the reset whose DELETE statements fall on both
sides of the commit of an entry: the position stays, its snapshot goes. `dropped` and
`torn` are observers: what was settled without a snapshot, and whether a reset has met
an iteration in one of these two ways.

The operators whose comment begins with "Seeded fault" are the model of a
plausible bug; substituted for the definition below them, they must break the
property they are paired with in `PROJECT.json`. No specification uses them.

| Code | Model |
|---|---|
| `_breakers[exchange]` | `failure_count`, `state`, `opened_at`, `last_canary_at`; `breaker[e]` |
| position of a thread inside a call | `pc`, `mm`, `dn` |
| `position_snapshots` of `paper_dn` | `legs`, and `staged` before the commit |
| `system_controls`, `dn_runner_commands` | `kill_switch`, `dn_enabled`, `flatten_requested` |
| age of the latest tick | `fresh`; part of `market` |
| `runner._flattened`, `strategy._flattened` | `flattened` (set together by every path) |
| `strategy._paused` | `paused` |
| funding rate against 5 % and 2 % | `funding`: high, mid, low, none |
| `position_snapshots` of `paper`, `paper_mm`, `paper_dn` | `position`, `spot`, `perp` of `db` and `work` |
| `order_intents` still pending, rejected | `pending`; `rejected`, `rejected_ts` |
| `pnl_snapshots`, `funding_payments`, `funding_accruals` | sums: `realized`, `funding`, `paid`, `unsettled`, `settled` |
| the session of an iteration; the committed rows | `work`; `db` |
| `market_ticks`, `order_book_snapshots` | `tick`, `books` |
| `_last_accrual_ts` | `last_accrual` |
| the TWAP override file, `paper_deposits` | `override`, `deposited` |

## 3. What the runs show

| Run | Instance | Shows |
|---|---|---|
| `breaker` | two threads, limit 3 | an open breaker at rest always has the timestamp its cool-down needs; while the threads have taken turns, phases in order, and count and state agree |
| `breaker_canary` | two threads, limit 1 | **violated**: two threads can both be admitted as the one canary of RUNBOOK.md:49 |
| `gates` | both loops, limit 2, queries may raise | breakers consistent; every report answers its probe; the runner trades only with the perpetual's breaker closed; an open breaker is probed again |
| `gates_recover` | both loops, limit 1 | **violated**: the automatic recovery of RUNBOOK.md:14 |
| `neutral_safety` | every start in 0..2 by 0..2, 2 prices, ratio block off, 2 faults, 1 restart | only an entry can break the hedge; a leg left behind is flattened, never traded on; nothing opens after a flatten, or under the kill switch once the iteration is over |
| `neutral_live` | flat start, 2 contracts, 2 prices, ratio block off, 2 faults, 1 restart | a kill switch left on closes every position; so does a requested flatten, also with stale feeds |
| `neutral_resume` | no faults | **violated**: RUNBOOK.md:65-66, trading resumes when the kill switch is turned off |
| `neutral_exit` | no faults, limits 10 and 6 | **violated**: BACKTEST_RESULTS_DN.md:54, low funding leads to an exit |
| `capture` | four iterations, three quotes, three rates, any alert window, one fault, slow drains, ticks from none, seeds or collector | the unhedged quantity is what is pending or was rejected; rows are the sums of fills and implement `TradingLedger`; an unhedged commit carries an alert, unless its legs are equal, on one side, and every rejection is older than the window |
| `capture_reduce_only` | the same, without faults | **violated**: ARCHITECTURE.md:223-225, a reduce-only intent reduces or closes |
| `quotes` | five iterations, three books of three prices, one fault, one change of the TWAP window, one reset, one deposit, unified sizing off and on | one quote per side; inventory within the bound of each quote's own sizing; sales recover cost and fees; no stale quote is left by a commit |
| `books` | three trades, sizes 1 and 3, two marks, two rates, one fault, one restart, one reset | margin follows the average entry; settled funding is booked once, deleted with its snapshots, or dropped after a reset that met an iteration; only a restart repeats an accrual; the rows implement `TradingLedger` |

The five violated properties are statements of the repository's documents:

- *Two canaries.* The test for "open" and the assignment of "half_open" are
  separate accesses. One thread passes the first while the other is about to
  make the second.
- *No recovery.* The runner asks for both exchanges, and the question itself moves
  an open breaker to half-open. If the second exchange is blocked, a flatten
  command is pending or preflight fails, the iteration returns without
  reporting. A half-open breaker answers False to everyone, and both loops
  report only after they have been admitted. Market making
  alone cannot do this (`LoneLoopOwnsProbe`).
- *No resumption.* The latch set by the flatten is cleared by a restart only.
- *No exit.* The entry checks one leg's notional, preflight both legs'. With the
  default settings an entry at a mark between 3125 and 3750 USD is allowed and
  then fails preflight for good.
- *No reduction.* Only the risk check looks at `reduce_only`. When an entry's spot
  leg is rejected, the perpetual's stays pending and is filled later; the exit then
  sells spot the account does not have.

Two passing properties have an exception written into them, and the code takes both:

- *Silence* (`UnhedgedIsAlarmed`). The mismatch check compares sizes without sides, and
  the rejection alert forgets. Say the first entry fills its spot leg and has its perpetual
  leg rejected, the second fills both (spot +2, perpetual -1), an exit has its spot leg
  rejected and leaves its perpetual leg pending, and funding then stays between the
  thresholds for longer than `no_fill_threshold_seconds`. The next exit fills two
  perpetual buys and a spot sell: spot +1, perpetual +1. The sizes are equal, no
  rejection is in the window, the fills are recent, and nothing is raised. (Four
  iterations reach the mirror image: two exits whose perpetual leg is rejected leave -1
  and -1, once both rejections have aged.) The property says that this is the only kind of silence: equal legs on one side, and
  rejections that are all older than the window.
- *Lost funding* (`FundingConserved`). When the operator resets the account after the
  runner has read balanced legs and before it settles, the settlement finds no PnL
  snapshot and still marks the accruals settled (`funding_accrual.py:150-166`): their
  total is in no row any more. The same follows when the reset's statements straddle
  the commit of an entry, which leaves a short, with or without its spot leg, and no
  snapshot. The property counts what is dropped and says that nothing is before
  a reset has met an iteration in one of these ways.

### Bounds

Two threads are what the process runs. The breaker's behaviour depends on the
limit only through "below" and "reached"; limits 1, 2 and 3 occur, and the
theorems hold for all. Two contracts are the least with which a rebalance by one
contract differs from an exit, and two prices the least that make a position
grow past a limit after the entry. `MaxFaults` bounds the exceptions of a whole
behaviour: two allow a failed entry and a failed flatten after it. One restart
distinguishes what memory and the database keep. The notional limits 10 and 6
stand to 2 contracts at 2 or 3 as 5000 and 3000 USD to 8 contracts: one leg fits
the symbol limit at both prices, two legs fit the account limit at the lower only.

Four iterations of funding capture allow an entry with one leg refused, the fill
of the leg left behind, an exit, and another entry; the limits of the instance
make each of the refusals by notional, rate, loss and age happen, and a rejection fall out of
the alert's window while two legs stand on one side. The funding feed the alerts meet is
fresh in the run: its age decides two alerts no property is about. Prices and marks
are multiples of 12 so that averages of up to four contracts, and shares of
margin, are whole; the code's decimals round at 28 digits, which no property
here is about. Five iterations of market making over three books with a quote life of one allow
a buy, a second buy at another price, a sale of part and a stale cancel, before
and after a reset; the sizes (20 and 35 percent of an account of 10000) let one buy
rest at its full size and the next be cut to what the inventory takes. An accrual
period of two and a settlement period of three reach every order of the two within
four time steps.

### Fairness

`StrategyGates!FairSpec` assumes that each loop keeps taking its steps and that
the clock advances; `DeltaNeutral!FairSpec` that the runner's thread keeps taking
its steps. Both loops are `while` loops with a bounded sleep, and every exception
of an iteration is caught in the loop. Nothing is assumed of the operator, the
feeds, the faults or restarts. The accounting modules state safety only and assume
no fairness; where a liveness property needs a healthy market
or a switch left alone, its formula says so.

## 4. What is proved

The proofs are in the modules whose names end in `Proofs`. They hold for every
limit, set of threads, quantity, set of prices and number of faults, restarts and
resets. They assume the modules' named assumptions on the constants; a hypothesis
beyond those is given with its theorem below. Every safety invariant and action
property that a passing run checks is the subject of a theorem.

*The breakers and the gates*

- *`OpenBreakerIsTimed`.* "At rest" is not inductive. `OpenInv` says at every
  moment that an open breaker without `opened_at` has a thread at work that will
  stamp it or close it, which is the order of the assignments in the code.
- *`TurnsKeepCount`, `TurnsKeepPhases`.* As long as no two threads have been
  inside their iterations at once. `TurnsInv` gives the breaker's state at each
  point of the three calls. Once threads overlap neither property holds: a
  success recorded between another thread's test of the count and its
  `state = "open"` separates count and state.
- *`BreakersStayConsistent`, `ReportsAnswerProbes`, `RunnerTradesOnClosedPerp`,
  `LoneLoopOwnsProbe`.* A report on each of the three occasions (market making on
  kraken, the runner on kraken, the runner on coinbase with a fresh or a stale tick)
  leaves the exchange it is about closed or open. (The last is about market making without the runner, an
  instance no run checks.) Each call keeps a consistent breaker consistent
  (`CallsKeepConsistent`); a half-open breaker has its count at the limit, so
  that a failure reported on it opens it.

*The delta-neutral runner*

- *`HedgeOnlyBrokenByEntry`.* `StagedInv` follows what an iteration has written:
  before the commit it is no further apart than what the iteration found, or
  the iteration found no position. `RebalanceNarrows` is the arithmetic.
- *`NakedLegStopsStrategy`.* For every initial position. `NakedInv` adds that a
  naked leg has its strategy paused and no handler at work, and that an
  iteration about to break the hedge has already paused the strategy.
- *`FlattenIsFinal`, `KillSwitchHalts`.* The runner that has attempted a flatten
  is in it or is latched and never reaches a decision; with the kill switch on
  and the earlier iteration over it is idle or flattening. Both use that only
  a commit adds to a leg.

*Position rows and funding capture*

- *`UpdateIsSum`*, by the four cases of the update, and from it
  *`PositionsAreSums`*: the invariant adds that every row is well formed (an
  average exactly while it is open) and that the fill of a quoted symbol has a
  positive quantity and price.
- *`ExposureIsAccounted`.* Every intent is worth one signed position size. The
  lemmas on queues (`TailCount`, `AppendCount`, `PairsCancel`) say what a queue is
  worth before and after a leg is added or taken; filling and rejecting move that
  worth from the queue to the fills or to the rejected, and the sum stays.
- *`FillMovesItsMoney`.* By the same cases, what a fill realizes less the cost of the
  position it leaves moves by exactly the money of the fill. Prices are whole in the
  model, so an addition must leave a whole average (`ExactAverage`); the code
  divides decimals at 28 digits.
- *`LedgerIsKept`* of `FundingCapture`, from it: each fill is a `Trade` of
  `TradingLedger`, a commit `Settle`, a rollback `Drop`, every other step leaves the
  books alone. It is about the behaviours in which averages stay whole
  (`[]WholeAverages`), as all those of the run are.
- *`SilenceMeansHedged`*, for every tolerance below the position size (`evaluator.py:49`
  has 0.01, `main.py:953` trades 1) and every window. It does not say that silence means
  hedged without qualification, which is false: it leaves equal legs on one side, after
  rejections that are all older than the window (section 3). A rejection within the window
  raises an alert of its own. Positions are multiples of the position size (`Stepwise`), so
  legs of different size raise the mismatch. What remains is equal legs on one side, and the
  proof shows that they need a rejection: without one the queue holds whole pairs or
  begins with the second leg of one and owes at most one position size, and such legs owe
  at least two.

*Market making*

- *`OneQuotePerSide`.* The invariant also bounds what the session has in hand: the
  sides it may quote are sides on which nothing pends, from the count after a
  cancellation to the quote, and a reset only removes.
- *`CommitsNoStaleQuote`.* After its last reconciliation an iteration adds only
  quotes of its own time, and what a fill or a reset does then only removes.
- *`TypeCorrect`.* The strategy's arithmetic yields numbers, and no price or average is
  missing where it divides. The sum under the TWAP is a recursive function; that it
  is a number is shown without the induction theorems, from the least counterexample.
- *`InventoryStaysWithinBounds`.* The invariant adds what the session has read: the
  position it sizes a quote by is the position held, until a reset tears the iteration. A
  fill of one side cannot uncover the other, because a sell only makes room
  and a buy only adds cover.
- *`SalesRecoverTheirCost`*, for markets whose asks are never below a price `least` from
  which on the target profit outweighs the rounding of quotes (`WorthFrom`). With the
  defaults (fee 25, profit 20, offset 120 basis points) `least` is 25.20 USD, and the
  run's quotes satisfy it. A sell rests while buys move the average; a quoted bid
  lies below the average, so a buy can only lower it and a resting sell stays
  good. At a price of few steps, or with no target profit, a sale may lose to rounding.

*The delta-neutral account*

- *`FundingIsConserved`.* A settlement without a PnL snapshot loses its total, and after a
  reset that met an iteration it happens (section 3). The invariant says why it happens only
  then: a hold needs a spot leg, every spot fill writes a snapshot, and a reset between
  two iterations deletes the leg with the snapshots. Within an iteration the
  snapshot of an uncommitted spot fill is the session's own and stays.
- *`OnlyRestartRepeatsHour`.* The bound on the clock is not inductive; `Limit` bounds
  the accruals by the hour of the last one, which is set before the commit and so
  never lags behind what is committed. A restart forgets it and raises the bound by one.
- *`SpotIsHedged`, `NothingIsAdded`.* `LInv`: a spot leg is bought only to match a short
  just opened from nothing and sold only after the short was closed, so that
  at a commit it is absent or exactly as large as the short. What is out of balance is
  then always a short alone, and a rebalance always closes one contract. The branch of
  `_handle_rebalance` that adds to the short is not reached by an account that starts
  empty and is traded by these handlers only; `DeltaNeutral` starts from other positions too.
- *`MarginIsCost`.* Nothing is ever added to an open short, so an average is the mark
  of one entry, the margin a multiple of it, and the share a partial close returns exact.
- *`LedgerIsKept`* of `PerpBooks`, without conditions, for the same reason: no average is
  rounded. A leg's fill is a `Trade`, a commit `Settle`, a rollback or restart `Drop`,
  the operator's reset `Erase`, which may keep the trades under way of some of the legs.

Type correctness (`TypeCorrect`) is proved of all six state machines.

Model-checked only: liveness (`OpenIsProbed`, `KillSwitchFlattens`,
`RequestReaches`), which depends on fairness, outside the prover's reach. That the
sum under the TWAP is the sum of its books, and not only a number, is a fact about a
recursive definition and is left to TLC too.

## 5. What is not modelled, and why

Live mode; startup validation; the wording and timing of log lines and risk events;
signals, quote history and order records, which no decision reads; read-only
endpoints, among them the breaker panel, which shows the breakers of the dashboard's
own process; exchange adapters, REST clients, migrations, the frontend, scripts and
KPI statistics. Creating a breaker is folded into `Init`: a report lost when two
threads create it at once has the effect of `Abandon`. A query that raises before
the runner's decision ends the iteration, as an early return does.

The market-making model is of percentage sizing, which is what `.env.example` sets
(`MM_QUOTE_SIZE_PCT`, `MM_MAX_INVENTORY_PCT`); the unified multiplier is a flag, off
by default, and the run checks both settings. The legacy `emergency_flatten` and circuit-breaker
helpers of `core/risk/engine.py` have no caller but tests, and
`core/paper/funding_accrual_engine.py` is imported by nothing. The hedge mismatch
check of the legacy engine is modelled and off in the runs: neither caller of
`RiskConfig` names the symbols it needs.

Things seen while modelling that no document speaks of, and that no property states:

- Funding capture pays on the quantity of the perpetual's row, which has no sign,
  so that a short pays a positive rate (`funding_accrual.py:54`).
- Settled funding goes to `funding_pnl`, which `get_pnl_summary` does not sum
  (`queries.py:160-203`): the reported net PnL drops by it at settlement. An accrual
  added in the settling iteration is not seen by its query and waits for the next window.
- The loss alerts miss a payment that has not been flushed, and the daily-loss alert
  is suppressed while a drawdown is reported.
- No production caller constructs an `AlertEvaluator`; `UnhedgedIsAlarmed` is about
  the loop that is given one.
- The funding-capture loop of `main` trades on exchange "binance", which the collector
  does not feed unless configured to.
- `unrealized_pnl` of a spot row stays 0, so the account value that sizes quotes
  does not follow the market (cf. `STRATEGY_CHANGELOG.md:114-115`).
- The drain stops at the first refusal; ARCHITECTURE.md:73-74 describes it as running
  until nothing is pending.
- Resting orders are checked against a book of any age, new quotes are not.
- A reset leaves accruals, deposits and quote history.

Hazards that no property covers are in `PROJECT.json` with the reason.

## 6. Plan

1. An abstract circuit breaker that `StrategyGates` implements.
2. Rows with averages as fractions, so that `LedgerIsKept` of `FundingCapture` needs no
   hypothesis on the averages.
3. The three hazards without a property, all of them in how the runner treats a flatten
   that failed or a feed it shares, when a document says what is promised there.
