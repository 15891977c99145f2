---------------------------- MODULE DeltaNeutral ----------------------------
(***************************************************************************)
(* The delta-neutral runner (apps/strategy_engine/delta_neutral_runner.py) *)
(* with its strategy (core/strategy/delta_neutral.py), the two legs of its *)
(* position in the database, and the operator's controls, which the        *)
(* dashboard process writes while an iteration runs.                       *)
(*                                                                         *)
(* A step is what happens between two reads or writes of the shared        *)
(* database.  Quantities are contracts of 0.10 ETH.  An iteration works in *)
(* one transaction: `staged` is what its session has written and not       *)
(* committed.  emergency_flatten uses a session of its own.                *)
(*                                                                         *)
(* Paper mode (live_mode off).  Funding accrual, signals and risk events   *)
(* are rows no step below reads, and are left out.                         *)
(***************************************************************************)
EXTENDS Integers

CONSTANTS
  Qty,              (* settings.dn_contract_qty                            *)
  Prices,           (* marks of one contract                               *)
  MaxNotional,      (* settings.risk_max_notional_usd                      *)
  MaxSymbolNotional,(* settings.risk_max_symbol_notional_usd               *)
  BlockOnRatio,     (* settings.dn_block_on_ratio_violation                *)
  ForceEntry,       (* settings.dn_force_entry                             *)
  InitialLegs,      (* <<perp, spot>> pairs the database may start with    *)
  MaxFaults,        (* bound: exceptions raised by a leg or a commit       *)
  MaxRestarts       (* bound: restarts of the process                      *)

ASSUME DeltaNeutralAssumption ==
  /\ Qty \in Nat \ {0}
  /\ Prices \subseteq Nat \ {0} /\ Prices # {}
  /\ MaxNotional \in Nat /\ MaxSymbolNotional \in Nat
  /\ BlockOnRatio \in BOOLEAN /\ ForceEntry \in BOOLEAN
  /\ InitialLegs \subseteq (0..Qty) \X (0..Qty) /\ InitialLegs # {}
  /\ MaxFaults \in Nat /\ MaxRestarts \in Nat

VARIABLES
  legs,              (* position_snapshots of paper_dn, as committed        *)
  staged,            (* the same rows as the iteration's session sees them  *)
  kill_switch, dn_enabled, (* system_controls                               *)
  flatten_requested, (* dn_runner_commands                                  *)
  market,            (* what the gates and the daily loss check will say    *)
  funding,           (* the latest funding rate against the two thresholds  *)
  price,             (* the latest mark of the perpetual                    *)
  flattened,         (* runner._flattened, strategy._flattened              *)
  paused,            (* strategy._paused                                    *)
  pc,                (* where the iteration stands                          *)
  faults, restarts   (* how much of the two bounds is used up               *)

controls == <<kill_switch, dn_enabled, flatten_requested>>
outside == <<market, funding, price>>
memory == <<flattened, paused>>
vars == <<legs, staged, kill_switch, dn_enabled, flatten_requested, market,
          funding, price, flattened, paused, pc, faults, restarts>>

\* "down": a breaker blocks; "stale": preflight fails on a feed; "loss": the
\* feeds are fresh and the day's PnL is under the limit; "ok": none of these.
Market == {"down", "stale", "loss", "ok"}
Funding == {"none", "low", "mid", "high"}
Legs == [perp : 0..Qty, spot : 0..Qty,
         perp_mark : Prices \union {0}, spot_mark : Prices \union {0}]
Flattening == {"flatten_kill", "flatten_command", "flatten_loss"}

PositionsOK == legs \in Legs /\ staged \in Legs
CountersOK == faults \in 0..MaxFaults /\ restarts \in 0..MaxRestarts
FlagsOK ==
  /\ kill_switch \in BOOLEAN /\ dn_enabled \in BOOLEAN
  /\ flatten_requested \in BOOLEAN
  /\ market \in Market /\ funding \in Funding /\ price \in Prices
  /\ flattened \in BOOLEAN /\ paused \in BOOLEAN
  /\ pc \in {"idle", "enabled", "gates", "command", "preflight", "latch",
             "evaluate", "spot_leg", "commit", "clear"} \union Flattening

TypeOK == PositionsOK /\ FlagsOK /\ CountersOK

Open(l) == l.perp > 0 \/ l.spot > 0

Init ==
  /\ price \in Prices
  /\ \E l \in InitialLegs :
       legs = [perp |-> l[1], spot |-> l[2], perp_mark |-> price, spot_mark |-> price]
  /\ staged = legs
  /\ kill_switch = FALSE /\ dn_enabled = TRUE /\ flatten_requested = FALSE
  /\ market = "ok" /\ funding \in Funding
  /\ flattened = FALSE /\ paused = FALSE
  /\ pc = "idle"
  /\ faults = 0 /\ restarts = 0

-----------------------------------------------------------------------------
(* Risk checks and the strategy's decision *)

Notional(l) == l.perp * l.perp_mark + l.spot * l.spot_mark
check_max_notional(l, proposed) == Notional(l) + proposed <= MaxNotional
check_max_symbol_notional(l, proposed) ==
  l.spot * l.spot_mark + proposed <= MaxSymbolNotional

\* compute_hedge_ratio: 0.9 <= spot / perp <= 1.1, and 0 without a perp leg.
is_balanced(l) ==
  l.perp > 0 /\ 9 * l.perp <= 10 * l.spot /\ 10 * l.spot <= 11 * l.perp

\* DeltaNeutralStrategy.evaluate, whose signal is BLOCKED on four grounds.
Blocked(l) ==
  \/ paused /\ Open(l)
  \/ flattened
  \/ Open(l) /\ BlockOnRatio /\ ~is_balanced(l)
  \/ ~Open(l) /\ ~ForceEntry /\ funding # "high"

evaluate(l) ==
  IF Blocked(l) THEN "BLOCKED"
  ELSE IF ~Open(l) THEN "ENTER"
  ELSE IF funding = "low" THEN "EXIT"
  ELSE IF is_balanced(l) THEN "HOLD" ELSE "REBALANCE"

Goto(from, to) == pc = from /\ pc' = to

\* The iteration ends with nothing written.
Return == pc' = "idle" /\ staged' = legs

Raises == faults < MaxFaults /\ faults' = faults + 1

-----------------------------------------------------------------------------
(* One iteration, up to the strategy's decision *)

\* Seeded fault: a runner that has flattened once does not flatten again.
BeginHaltedOnce ==
  /\ kill_switch /\ Open(legs) /\ ~flattened
  /\ Goto("idle", "flatten_kill")
  /\ UNCHANGED <<legs, staged, controls, outside, memory, faults, restarts>>

\* is_kill_switch_active, with a position still open.
BeginHalted ==
  /\ kill_switch /\ Open(legs)
  /\ Goto("idle", "flatten_kill")
  /\ UNCHANGED <<legs, staged, controls, outside, memory, faults, restarts>>

\* Seeded fault: the iteration returns only when there is a position to close.
BeginIfFlat ==
  /\ ~kill_switch \/ ~Open(legs)
  /\ Goto("idle", "enabled")
  /\ UNCHANGED <<legs, staged, controls, outside, memory, faults, restarts>>

Begin ==
  /\ ~kill_switch
  /\ Goto("idle", "enabled")
  /\ UNCHANGED <<legs, staged, controls, outside, memory, faults, restarts>>

CheckEnabled ==
  /\ Goto("enabled", IF dn_enabled THEN "gates" ELSE "idle")
  /\ UNCHANGED <<legs, staged, controls, outside, memory, faults, restarts>>

\* is_exchange_available, for both exchanges.
CheckGates ==
  /\ Goto("gates", IF market = "down" THEN "idle" ELSE "command")
  /\ UNCHANGED <<legs, staged, controls, outside, memory, faults, restarts>>

\* Seeded fault: the command waits for fresh feeds.
CheckCommandIfFresh ==
  /\ Goto("command", IF flatten_requested /\ market # "stale"
                     THEN "flatten_command" ELSE "preflight")
  /\ UNCHANGED <<legs, staged, controls, outside, memory, faults, restarts>>

CheckCommand ==
  /\ Goto("command", IF flatten_requested THEN "flatten_command" ELSE "preflight")
  /\ UNCHANGED <<legs, staged, controls, outside, memory, faults, restarts>>

\* run_preflight and the two tick age checks.
Preflight ==
  /\ Goto("preflight", IF market \in {"loss", "ok"} /\ check_max_notional(legs, 0)
                       THEN "latch" ELSE "idle")
  /\ UNCHANGED <<legs, staged, controls, outside, memory, faults, restarts>>

\* `if self._flattened: return`, then _check_daily_loss.
CheckLatch ==
  /\ Goto("latch", IF flattened THEN "idle"
                   ELSE IF market = "loss" THEN "flatten_loss" ELSE "evaluate")
  /\ UNCHANGED <<legs, staged, controls, outside, memory, faults, restarts>>

-----------------------------------------------------------------------------
(* The decision and its handler *)

\* Evaluating resumes a paused strategy that is flat.
Decide(signal) ==
  /\ pc = "evaluate"
  /\ funding # "none"
  /\ evaluate(legs) = signal
  /\ UNCHANGED <<legs, controls, outside, flattened, restarts>>

\* Seeded fault: every evaluation resumes the strategy.
ResumeAlways == paused' = FALSE

Resume == paused' = IF Open(legs) THEN paused ELSE FALSE

NoFunding ==
  /\ pc = "evaluate" /\ funding = "none"
  /\ Return
  /\ UNCHANGED <<legs, controls, outside, memory, faults, restarts>>

\* The entry's own risk checks, on the notional of one leg.
EntryAllowed ==
  /\ check_max_notional(legs, Qty * price)
  /\ check_max_symbol_notional(legs, Qty * price)

\* HOLD, BLOCKED, and an entry the notional limits refuse.
Wait ==
  /\ Decide("HOLD") \/ Decide("BLOCKED") \/ (Decide("ENTER") /\ ~EntryAllowed)
  /\ Resume
  /\ Return
  /\ UNCHANGED faults

\* _handle_enter, first leg: open_perp_short.
EnterPerp ==
  /\ Decide("ENTER") /\ EntryAllowed
  /\ Resume
  /\ staged' = [legs EXCEPT !.perp = @ + Qty, !.perp_mark = price]
  /\ pc' = "spot_leg"
  /\ UNCHANGED faults

\* It raises: nothing is filled, the strategy pauses.
EnterPerpFails ==
  /\ Decide("ENTER") /\ EntryAllowed
  /\ Raises
  /\ paused' = TRUE
  /\ Return

\* Second leg: _simulate_spot_fill.
EnterSpot ==
  /\ Goto("spot_leg", "commit")
  /\ staged' = [staged EXCEPT !.spot = @ + Qty, !.spot_mark = staged.perp_mark]
  /\ UNCHANGED <<legs, controls, outside, memory, faults, restarts>>

\* It raises: the strategy pauses and the iteration goes on to commit, which
\* a failed flush has made impossible and any other exception has not.
EnterSpotFails ==
  /\ pc = "spot_leg"
  /\ Raises
  /\ paused' = TRUE
  /\ \/ pc' = "commit" /\ UNCHANGED staged
     \/ Return
  /\ UNCHANGED <<legs, controls, outside, flattened, restarts>>

\* _handle_exit: close_perp_short, then sell whatever spot there is.
Exit ==
  /\ Decide("EXIT")
  /\ Resume
  /\ staged' = [perp |-> 0, spot |-> 0, perp_mark |-> price, spot_mark |-> price]
  /\ pc' = "commit"
  /\ UNCHANGED faults

\* Seeded fault: the contract is added to the larger leg.
RebalanceReversed ==
  /\ Decide("REBALANCE")
  /\ Resume
  /\ staged' = [legs EXCEPT !.perp = IF legs.spot < legs.perp THEN @ + 1 ELSE @ - 1,
                            !.perp_mark = price]
  /\ pc' = "commit"
  /\ UNCHANGED faults

\* _handle_rebalance: one contract more, or one less, of the perp leg.
Rebalance ==
  /\ Decide("REBALANCE")
  /\ Resume
  /\ staged' = [legs EXCEPT !.perp = IF legs.spot > legs.perp THEN @ + 1 ELSE @ - 1,
                            !.perp_mark = price]
  /\ pc' = "commit"
  /\ UNCHANGED faults

\* An exception that leaves the handler ends in session.rollback().
HandlerFails ==
  /\ Decide("EXIT") \/ Decide("REBALANCE")
  /\ Raises
  /\ Resume
  /\ Return

Commit ==
  /\ Goto("commit", "idle")
  /\ legs' = staged
  /\ UNCHANGED <<staged, controls, outside, memory, faults, restarts>>

CommitFails ==
  /\ pc = "commit"
  /\ Raises
  /\ Return
  /\ UNCHANGED <<legs, controls, outside, memory, restarts>>

-----------------------------------------------------------------------------
(* emergency_flatten *)

\* The latch is set whatever the outcome; a manual command is then cleared.
Flatten ==
  /\ pc \in Flattening
  /\ flattened' = TRUE
  /\ pc' = IF pc = "flatten_command" THEN "clear" ELSE "idle"
  /\ UNCHANGED <<controls, outside, paused, restarts>>

\* Seeded fault: the configured quantity is closed, not the one held.
FlattenConfigured ==
  /\ Flatten
  /\ legs' = [perp |-> legs.perp - Qty, spot |-> legs.spot - Qty,
              perp_mark |-> price, spot_mark |-> price]
  /\ staged' = legs'
  /\ UNCHANGED faults

FlattenBoth ==
  /\ Flatten
  /\ legs' = [perp |-> 0, spot |-> 0, perp_mark |-> price, spot_mark |-> price]
  /\ staged' = legs'
  /\ UNCHANGED faults

\* Seeded fault: the latch is set only when the flatten succeeded.
FlattenFailsUnlatched ==
  /\ pc \in Flattening
  /\ Raises
  /\ pc' = IF pc = "flatten_command" THEN "clear" ELSE "idle"
  /\ UNCHANGED <<legs, staged, controls, outside, memory, restarts>>

\* close_perp_short raises and the spot leg is left alone, or a later
\* statement raises and the session is rolled back: no leg changes.
FlattenFails ==
  /\ Flatten
  /\ Raises
  /\ UNCHANGED <<legs, staged>>

ClearCommand ==
  /\ Goto("clear", "idle")
  /\ flatten_requested' = FALSE
  /\ UNCHANGED <<legs, staged, kill_switch, dn_enabled, outside, memory,
                 faults, restarts>>

ClearCommandFails ==
  /\ Goto("clear", "idle")
  /\ Raises
  /\ UNCHANGED <<legs, staged, controls, outside, memory, restarts>>

-----------------------------------------------------------------------------
(* The process and its surroundings *)

\* Killed anywhere: the transaction is lost, and so is what the runner
\* remembers.
Restart ==
  /\ restarts < MaxRestarts
  /\ restarts' = restarts + 1
  /\ Return
  /\ flattened' = FALSE /\ paused' = FALSE
  /\ UNCHANGED <<legs, controls, outside, faults>>

SetKillSwitch ==
  /\ kill_switch' = ~kill_switch
  /\ UNCHANGED <<legs, staged, dn_enabled, flatten_requested, outside, memory,
                 pc, faults, restarts>>

SetStrategyControl ==
  /\ dn_enabled' = ~dn_enabled
  /\ UNCHANGED <<legs, staged, kill_switch, flatten_requested, outside, memory,
                 pc, faults, restarts>>

RequestFlatten ==
  /\ ~flatten_requested
  /\ flatten_requested' = TRUE
  /\ UNCHANGED <<legs, staged, kill_switch, dn_enabled, outside, memory,
                 pc, faults, restarts>>

OutsideMoves ==
  /\ \/ market' \in Market /\ UNCHANGED <<funding, price>>
     \/ funding' \in Funding /\ UNCHANGED <<market, price>>
     \/ price' \in Prices /\ UNCHANGED <<market, funding>>
  /\ outside' # outside
  /\ UNCHANGED <<legs, staged, controls, memory, pc, faults, restarts>>

Runner ==
  \/ BeginHalted \/ Begin \/ CheckEnabled \/ CheckGates \/ CheckCommand
  \/ Preflight \/ CheckLatch
  \/ NoFunding \/ Wait \/ EnterPerp \/ EnterPerpFails \/ EnterSpot
  \/ EnterSpotFails \/ Exit \/ Rebalance \/ HandlerFails
  \/ Commit \/ CommitFails
  \/ FlattenBoth \/ FlattenFails \/ ClearCommand \/ ClearCommandFails

Next ==
  \/ Runner
  \/ Restart
  \/ SetKillSwitch \/ SetStrategyControl \/ RequestFlatten
  \/ OutsideMoves

Spec == Init /\ [][Next]_vars

\* The thread runs one iteration after the other until it is stopped.
FairSpec == Spec /\ WF_vars(Runner)

-----------------------------------------------------------------------------
(* Properties *)

Gap(l) == IF l.perp > l.spot THEN l.perp - l.spot ELSE l.spot - l.perp

(* The hedge is only ever broken by an entry whose second leg failed:      *)
(* exits, rebalances and emergency flattens, however they fail, never      *)
(* widen the gap between the legs ("spot skipped if perp fails",           *)
(* tests/unit/test_dn_risk_controls.py:268).                               *)
GapOnlyFromEntry == [][Gap(legs') > Gap(legs) => ~Open(legs)]_vars

(* With the kill switch left on, every open position is eventually closed, *)
(* through any failures and restarts, also when an earlier flatten failed  *)
(* ("consider manual flatten via kill switch", docs/RUNBOOK.md:13).        *)
KillSwitchFlattens == <>[]kill_switch => <>[]~Open(legs)

(* Once nothing raises any more, a flatten that is still requested closes  *)
(* the position, however stale the feeds: it needs the strategy enabled    *)
(* and no breaker open.  (A request met by a failed flatten is cleared     *)
(* without having been served.)                                            *)
Reachable == ~kill_switch /\ dn_enabled /\ market # "down"
RequestReaches ==
  <>[]Reachable =>
    [](flatten_requested /\ pc # "clear" /\ faults = MaxFaults => <>~Open(legs))

(* "Deactivate kill switch via dashboard [...] Verify strategy resumes     *)
(* normally on next iteration" (docs/RUNBOOK.md:65-66), for an operator    *)
(* who touched nothing else, on a healthy market.                          *)
OnlyKillSwitch == dn_enabled /\ ~flatten_requested /\ market = "ok" /\ funding = "high"
StrategyResumes ==
  []OnlyKillSwitch /\ <>[]~kill_switch => []<>(pc = "evaluate")

(* "Entry occurs when funding APR >= 5.00%, exit when funding APR <=       *)
(* 2.00%" (docs/BACKTEST_RESULTS_DN.md:54).                                *)
ExitDue == ~kill_switch /\ dn_enabled /\ market = "ok" /\ funding = "low"
ExitHappens == <>[]ExitDue => <>[]~Open(legs)

=============================================================================
