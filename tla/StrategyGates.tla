---------------------------- MODULE StrategyGates ----------------------------
(***************************************************************************)
(* The two trading loops of the paper trader process and the circuit       *)
(* breakers they share (core/risk/risk_engine.py):                         *)
(*   - "mm", the market-making loop on the main thread                     *)
(*     (apps/paper_trader/main.py), which trades on kraken and judges it   *)
(*     by the age of the XBTUSD tick;                                      *)
(*   - "dn", the delta-neutral runner on its own thread                    *)
(*     (apps/strategy_engine/delta_neutral_runner.py), which needs the     *)
(*     perpetual's exchange and the spot exchange, and judges them by the  *)
(*     ages of the ETH-PERP and ETHUSD ticks.                              *)
(*                                                                         *)
(* One call of the risk engine is one step here; CircuitBreaker.tla has    *)
(* the interleavings inside a call.  A tick is fresh while it is at most   *)
(* 120 s old: the collector refreshes it, time lets it expire.             *)
(***************************************************************************)
EXTENDS Naturals

CONSTANTS
  MaxFailures,  (* settings.risk_max_consecutive_failures                  *)
  Loops,        (* the loops that are not switched off for good            *)
  DbFaults      (* whether a query of an iteration may raise               *)

ASSUME GatesAssumption ==
  /\ MaxFailures \in Nat \ {0}
  /\ Loops \subseteq {"mm", "dn"}
  /\ DbFaults \in BOOLEAN

VARIABLES
  breaker,      (* RiskEngine._breakers                                    *)
  fresh,        (* per feed: its latest tick is at most 120 s old          *)
  enabled,      (* per loop: kill switch off and strategy enabled          *)
  flatten_requested, (* dn_runner_commands, set by the dashboard           *)
  mm,           (* where the market-making iteration stands                *)
  dn            (* where the delta-neutral iteration stands                *)

vars == <<breaker, fresh, enabled, flatten_requested, mm, dn>>

Exchange == {"kraken", "coinbase_advanced"}
Feed == {"XBTUSD", "ETHUSD", "ETH-PERP"}
Stamp == {"none", "recent", "cooled"}
BreakerRecord ==
  [failure_count : 0..MaxFailures,
   state : {"closed", "open", "half_open"},
   opened_at : Stamp, last_canary_at : Stamp]

TypeOK ==
  /\ breaker \in [Exchange -> BreakerRecord]
  /\ fresh \in [Feed -> BOOLEAN]
  /\ enabled \in [{"mm", "dn"} -> BOOLEAN]
  /\ flatten_requested \in BOOLEAN
  /\ mm \in {"idle", "gate", "notify", "preflight", "trade"}
  /\ dn \in {"idle", "gate_perp", "gate_spot", "command", "preflight",
             "notify_spot", "notify_perp", "stale", "trade"}

NewBreaker == [failure_count |-> 0, state |-> "closed",
               opened_at |-> "none", last_canary_at |-> "none"]

Init ==
  /\ breaker = [e \in Exchange |-> NewBreaker]
  /\ fresh = [f \in Feed |-> TRUE]
  /\ enabled = [s \in {"mm", "dn"} |-> s \in Loops]
  /\ flatten_requested = FALSE
  /\ mm = "idle"
  /\ dn = "idle"

-----------------------------------------------------------------------------
(* core/risk/risk_engine.py, the three calls on one exchange's breaker *)

\* Seeded fault: the timestamps survive a success.
SuccessKeepsStamps(b) == [b EXCEPT !.failure_count = 0, !.state = "closed"]

record_exchange_success(b) == NewBreaker

\* Seeded fault: the breaker opens without the time it opened at.
FailureUnstamped(b) ==
  LET count == IF b.failure_count < MaxFailures
               THEN b.failure_count + 1 ELSE MaxFailures IN
  IF count >= MaxFailures /\ b.state \in {"closed", "half_open"}
  THEN [b EXCEPT !.failure_count = count, !.state = "open",
                 !.last_canary_at = "none"]
  ELSE [b EXCEPT !.failure_count = count]

\* failure_count saturates at the only value it is compared with.
record_exchange_failure(b) ==
  LET count == IF b.failure_count < MaxFailures
               THEN b.failure_count + 1 ELSE MaxFailures IN
  IF count >= MaxFailures /\ b.state \in {"closed", "half_open"}
  THEN [failure_count |-> count, state |-> "open",
        opened_at |-> "recent", last_canary_at |-> "none"]
  ELSE [b EXCEPT !.failure_count = count]

\* `last_canary_at or opened_at` is at least 60 s old.
CanaryDue(b) ==
  /\ b.state = "open"
  /\ (IF b.last_canary_at # "none" THEN b.last_canary_at ELSE b.opened_at) = "cooled"

is_exchange_available(b) == b.state = "closed" \/ CanaryDue(b)

\* Seeded fault: the state is misspelt.
GateMisspelt(b) ==
  IF CanaryDue(b) THEN [b EXCEPT !.state = "half-open", !.last_canary_at = "recent"]
  ELSE b

\* What asking does to the breaker.
AfterGate(b) ==
  IF CanaryDue(b) THEN [b EXCEPT !.state = "half_open", !.last_canary_at = "recent"]
  ELSE b

\* The age of a tick decides which of the two is recorded.
AfterNotify(b, isFresh) ==
  IF isFresh THEN record_exchange_success(b) ELSE record_exchange_failure(b)

-----------------------------------------------------------------------------
(* The market-making loop *)

\* _paper_mm_control_gate: an iteration goes on only when mm may run.
MMStart ==
  /\ mm = "idle"
  /\ enabled["mm"]
  /\ mm' = "gate"
  /\ UNCHANGED <<breaker, fresh, enabled, flatten_requested, dn>>

MMGate ==
  /\ mm = "gate"
  /\ breaker' = [breaker EXCEPT !["kraken"] = AfterGate(@)]
  /\ mm' = IF is_exchange_available(breaker["kraken"]) THEN "notify" ELSE "idle"
  /\ UNCHANGED <<fresh, enabled, flatten_requested, dn>>

MMNotify ==
  /\ mm = "notify"
  /\ breaker' = [breaker EXCEPT !["kraken"] = AfterNotify(@, fresh["XBTUSD"])]
  /\ mm' = "preflight"
  /\ UNCHANGED <<fresh, enabled, flatten_requested, dn>>

\* run_preflight: freshness of XBTUSD, then the account's notional.
MMPreflight ==
  /\ mm = "preflight"
  /\ \E notionalOk \in BOOLEAN :
       mm' = IF fresh["XBTUSD"] /\ notionalOk THEN "trade" ELSE "idle"
  /\ UNCHANGED <<breaker, fresh, enabled, flatten_requested, dn>>

MMTrade ==
  /\ mm = "trade"
  /\ mm' = "idle"
  /\ UNCHANGED <<breaker, fresh, enabled, flatten_requested, dn>>

\* A query after the gate raises; the iteration is rolled back.
MMFails ==
  /\ DbFaults
  /\ mm \in {"notify", "preflight", "trade"}
  /\ mm' = "idle"
  /\ UNCHANGED <<breaker, fresh, enabled, flatten_requested, dn>>

-----------------------------------------------------------------------------
(* The delta-neutral runner *)

DNStart ==
  /\ dn = "idle"
  /\ enabled["dn"]
  /\ dn' = "gate_perp"
  /\ UNCHANGED <<breaker, fresh, enabled, flatten_requested, mm>>

DNGatePerp ==
  /\ dn = "gate_perp"
  /\ breaker' = [breaker EXCEPT !["coinbase_advanced"] = AfterGate(@)]
  /\ dn' = IF is_exchange_available(breaker["coinbase_advanced"])
           THEN "gate_spot" ELSE "idle"
  /\ UNCHANGED <<fresh, enabled, flatten_requested, mm>>

DNGateSpot ==
  /\ dn = "gate_spot"
  /\ breaker' = [breaker EXCEPT !["kraken"] = AfterGate(@)]
  /\ dn' = IF is_exchange_available(breaker["kraken"]) THEN "command" ELSE "idle"
  /\ UNCHANGED <<fresh, enabled, flatten_requested, mm>>

\* A requested flatten is executed and ends the iteration.
DNCommand ==
  /\ dn = "command"
  /\ flatten_requested' = FALSE
  /\ dn' = IF flatten_requested THEN "idle" ELSE "preflight"
  /\ UNCHANGED <<breaker, fresh, enabled, mm>>

\* run_preflight on both feeds; a failed check ends the iteration.
DNPreflight ==
  /\ dn = "preflight"
  /\ \E notionalOk \in BOOLEAN :
       dn' = IF fresh["ETH-PERP"] /\ fresh["ETHUSD"] /\ notionalOk
             THEN "notify_spot" ELSE "idle"
  /\ UNCHANGED <<breaker, fresh, enabled, flatten_requested, mm>>

DNNotifySpot ==
  /\ dn = "notify_spot"
  /\ breaker' = [breaker EXCEPT !["kraken"] = AfterNotify(@, fresh["ETHUSD"])]
  /\ dn' = "notify_perp"
  /\ UNCHANGED <<fresh, enabled, flatten_requested, mm>>

\* Seeded fault: the iteration goes on after a stale perpetual tick.
DNNotifyPerpGoesOn ==
  /\ dn = "notify_perp"
  /\ breaker' = [breaker EXCEPT !["coinbase_advanced"] = AfterNotify(@, fresh["ETH-PERP"])]
  /\ dn' = "trade"
  /\ UNCHANGED <<fresh, enabled, flatten_requested, mm>>

\* Seeded fault: a stale perpetual tick is not held against a canary.
DNNotifyPerpSparesCanary ==
  /\ dn = "notify_perp"
  /\ breaker' = IF ~fresh["ETH-PERP"] /\ breaker["coinbase_advanced"].state = "half_open"
                THEN breaker
                ELSE [breaker EXCEPT !["coinbase_advanced"] = AfterNotify(@, fresh["ETH-PERP"])]
  /\ dn' = IF fresh["ETH-PERP"] THEN "trade" ELSE "stale"
  /\ UNCHANGED <<fresh, enabled, flatten_requested, mm>>

\* Both ages are reported; only a fresh perpetual tick lets the loop trade.
DNNotifyPerp ==
  /\ dn = "notify_perp"
  /\ breaker' = [breaker EXCEPT !["coinbase_advanced"] = AfterNotify(@, fresh["ETH-PERP"])]
  /\ dn' = IF fresh["ETH-PERP"] THEN "trade" ELSE "stale"
  /\ UNCHANGED <<fresh, enabled, flatten_requested, mm>>

\* After the report of a stale tick: the stale_feed event, and the end.
DNStale ==
  /\ dn = "stale"
  /\ dn' = "idle"
  /\ UNCHANGED <<breaker, fresh, enabled, flatten_requested, mm>>

DNTrade ==
  /\ dn = "trade"
  /\ dn' = "idle"
  /\ UNCHANGED <<breaker, fresh, enabled, flatten_requested, mm>>

DNFails ==
  /\ DbFaults
  /\ dn \in {"command", "preflight", "notify_spot", "notify_perp", "stale", "trade"}
  /\ dn' = "idle"
  /\ UNCHANGED <<breaker, fresh, enabled, flatten_requested, mm>>

-----------------------------------------------------------------------------
(* The environment *)

FeedRefreshed(f) ==
  /\ ~fresh[f]
  /\ fresh' = [fresh EXCEPT ![f] = TRUE]
  /\ UNCHANGED <<breaker, enabled, flatten_requested, mm, dn>>

FeedExpires(f) ==
  /\ fresh[f]
  /\ fresh' = [fresh EXCEPT ![f] = FALSE]
  /\ UNCHANGED <<breaker, enabled, flatten_requested, mm, dn>>

\* The operator's kill switch and strategy switches.
SwitchLoop(s) ==
  /\ s \in Loops
  /\ enabled' = [enabled EXCEPT ![s] = ~@]
  /\ UNCHANGED <<breaker, fresh, flatten_requested, mm, dn>>

RequestFlatten ==
  /\ "dn" \in Loops
  /\ ~flatten_requested
  /\ flatten_requested' = TRUE
  /\ UNCHANGED <<breaker, fresh, enabled, mm, dn>>

Aged(stamp) == IF stamp = "recent" THEN "cooled" ELSE stamp

\* Sixty seconds pass for one exchange's timestamps.
Cooldown(e) ==
  /\ "recent" \in {breaker[e].opened_at, breaker[e].last_canary_at}
  /\ breaker' = [breaker EXCEPT ![e].opened_at = Aged(@),
                                ![e].last_canary_at = Aged(@)]
  /\ UNCHANGED <<fresh, enabled, flatten_requested, mm, dn>>

MMStep == MMStart \/ MMGate \/ MMNotify \/ MMPreflight \/ MMTrade
DNStep == \/ DNStart \/ DNGatePerp \/ DNGateSpot \/ DNCommand
          \/ DNPreflight \/ DNNotifySpot \/ DNNotifyPerp \/ DNStale \/ DNTrade

Next ==
  \/ MMStep
  \/ DNStep
  \/ MMFails
  \/ DNFails
  \/ \E f \in Feed : FeedRefreshed(f) \/ FeedExpires(f)
  \/ \E s \in {"mm", "dn"} : SwitchLoop(s)
  \/ RequestFlatten
  \/ \E e \in Exchange : Cooldown(e)

Spec == Init /\ [][Next]_vars

(* The loops run until the process is stopped, one iteration after the     *)
(* other, and the clock advances.  Nothing is assumed of the feeds, the    *)
(* operator or the database.                                               *)
FairSpec ==
  /\ Spec
  /\ WF_vars(MMStep)
  /\ WF_vars(DNStep)
  /\ \A e \in Exchange : WF_vars(Cooldown(e))

-----------------------------------------------------------------------------
(* Properties *)

(* A closed breaker has counted fewer than MaxFailures failures; one that  *)
(* is open or half-open has counted at least that many and carries the     *)
(* timestamp its next move is timed from.                                  *)
BreakerConsistent ==
  \A e \in Exchange :
    LET b == breaker[e] IN
    /\ b.state = "closed" =>
         /\ b.failure_count < MaxFailures
         /\ b.opened_at = "none" /\ b.last_canary_at = "none"
    /\ b.state # "closed" => b.failure_count = MaxFailures /\ b.opened_at # "none"
    /\ b.state = "half_open" <=> b.last_canary_at # "none"

(* No report is swallowed while an exchange is being probed: whichever     *)
(* loop reports on an exchange, and whether it reports a fresh or a stale  *)
(* tick, the breaker is closed or open after the report.  The reports are  *)
(* the market-making loop's on kraken, and the runner's on kraken and then *)
(* on coinbase, which a fresh tick lets trade and a stale one does not.    *)
ProbeAnswered ==
  [][/\ mm = "notify" /\ mm' = "preflight" => breaker'["kraken"].state # "half_open"
     /\ dn = "notify_spot" /\ dn' = "notify_perp" =>
          breaker'["kraken"].state # "half_open"
     /\ dn = "notify_perp" /\ dn' \in {"trade", "stale"} =>
          breaker'["coinbase_advanced"].state # "half_open"]_vars

(* The runner trades only on a perpetual exchange whose breaker is closed: *)
(* it has just reported a fresh tick there, and no other loop reports on   *)
(* that exchange.                                                          *)
TradeOnClosedPerp == dn = "trade" => breaker["coinbase_advanced"].state = "closed"

(* An open breaker is probed again, whatever the feeds and the database    *)
(* do, as long as the loop that asks for the exchange stays switched on    *)
(* ("breaker enters half-open state and sends one canary request           *)
(* automatically", docs/RUNBOOK.md:49).                                    *)
OpenIsProbed ==
  /\ <>[]enabled["mm"] => []<>(breaker["kraken"].state # "open")
  /\ <>[]enabled["dn"] => []<>(breaker["coinbase_advanced"].state # "open")

Healthy == (\A f \in Feed : fresh[f]) /\ (\A s \in Loops : enabled[s])

(* "When exchange recovers: circuit breaker closes automatically, strategy *)
(* resumes" (docs/RUNBOOK.md:14).                                          *)
BreakerRecovers ==
  <>[]Healthy => <>[](\A e \in Exchange : breaker[e].state = "closed")

=============================================================================
