--------------------------- MODULE CircuitBreaker ---------------------------
(***************************************************************************)
(* One exchange's circuit breaker, core/risk/risk_engine.py: the object    *)
(* RiskEngine._breakers[exchange], which the market-making thread and the  *)
(* delta-neutral thread of one process share without a lock.               *)
(*                                                                         *)
(* A step is one access to a shared attribute, the grain at which the      *)
(* interpreter may switch threads.  A caller asks is_exchange_available    *)
(* (the Gate steps); when admitted it records a success, records a         *)
(* failure, or returns without recording anything.                         *)
(*                                                                         *)
(* Two abstractions of data, both exact for what the code compares:        *)
(*   - a timestamp is "none", "recent" (under 60 s old) or "cooled";       *)
(*   - failure_count saturates at MaxFailures, the only value it is        *)
(*     compared with.                                                      *)
(***************************************************************************)
EXTENDS Naturals, FiniteSets

CONSTANTS
  Thread,       (* the threads that call the risk engine                   *)
  MaxFailures   (* settings.risk_max_consecutive_failures                  *)

ASSUME MaxFailuresAssumption == MaxFailures \in Nat \ {0}

VARIABLES
  failure_count,
  state,
  opened_at,
  last_canary_at,
  pc,           (* the access each thread performs next                    *)
  loaded,       (* failure_count as read by a thread inside `+= 1`         *)
  canary,       (* threads admitted by an open -> half_open move that have *)
                (* not reported yet                                        *)
  overlapped    (* two threads have been inside their iterations at once   *)
\* canary and overlapped are observed, and never read by the code.

breaker == <<failure_count, state, opened_at, last_canary_at>>
vars == <<failure_count, state, opened_at, last_canary_at, pc, loaded, canary,
          overlapped>>

Stamp == {"none", "recent", "cooled"}
Control == {"idle", "gate_open", "gate_last", "gate_opened", "gate_half",
            "gate_stamp", "admitted", "ok_opened", "ok_last", "ok_state",
            "fail_store", "fail_count", "fail_state", "fail_open",
            "fail_stamp", "fail_clear"}

BreakerOK ==
  /\ failure_count \in 0..MaxFailures
  /\ state \in {"closed", "open", "half_open"}
  /\ opened_at \in Stamp
  /\ last_canary_at \in Stamp
  /\ pc \in [Thread -> Control]
  /\ loaded \in [Thread -> 0..MaxFailures]
  /\ canary \subseteq Thread
TypeOK == BreakerOK /\ overlapped \in BOOLEAN

\* A breaker that does not exist yet answers like this one.
Init ==
  /\ failure_count = 0
  /\ state = "closed"
  /\ opened_at = "none"
  /\ last_canary_at = "none"
  /\ pc = [t \in Thread |-> "idle"]
  /\ loaded = [t \in Thread |-> 0]
  /\ canary = {}
  /\ overlapped = FALSE

Overlap == \E t, u \in Thread : t # u /\ pc[t] # "idle" /\ pc[u] # "idle"

Observe == overlapped' = IF Overlap' THEN TRUE ELSE overlapped

Goto(t, from, to) ==
  /\ pc[t] = from
  /\ pc' = [pc EXCEPT ![t] = to]
  /\ Observe

-----------------------------------------------------------------------------
(* is_exchange_available *)

\* `if breaker.state == "closed": return True`
GateClosed(t) ==
  /\ Goto(t, "idle", IF state = "closed" THEN "admitted" ELSE "gate_open")
  /\ UNCHANGED <<breaker, loaded, canary>>

\* `if breaker.state == "open"`; every other value returns False.
GateOpen(t) ==
  /\ Goto(t, "gate_open", IF state = "open" THEN "gate_last" ELSE "idle")
  /\ UNCHANGED <<breaker, loaded, canary>>

\* Seeded fault: a due canary is let through without the half-open state.
AfterAttemptStillOpen(stamp) == IF stamp = "cooled" THEN "admitted" ELSE "idle"

\* Where a caller goes once it has its last_attempt_ts.
AfterAttempt(stamp) == IF stamp = "cooled" THEN "gate_half" ELSE "idle"

\* `breaker.last_canary_at or ...`
GateLast(t) ==
  /\ Goto(t, "gate_last", IF last_canary_at = "none"
                          THEN "gate_opened" ELSE AfterAttempt(last_canary_at))
  /\ UNCHANGED <<breaker, loaded, canary>>

\* `... or breaker.opened_at`; no timestamp at all returns False.
GateOpened(t) ==
  /\ Goto(t, "gate_opened", AfterAttempt(opened_at))
  /\ UNCHANGED <<breaker, loaded, canary>>

\* Seeded fault: the probe starts a new count of failures.
GateHalfResetsCount(t) ==
  /\ Goto(t, "gate_half", "gate_stamp")
  /\ state' = "half_open"
  /\ failure_count' = 0
  /\ canary' = canary \union {t}
  /\ UNCHANGED <<opened_at, last_canary_at, loaded>>

GateHalf(t) ==
  /\ Goto(t, "gate_half", "gate_stamp")
  /\ state' = "half_open"
  /\ canary' = canary \union {t}
  /\ UNCHANGED <<failure_count, opened_at, last_canary_at, loaded>>

GateStamp(t) ==
  /\ Goto(t, "gate_stamp", "admitted")
  /\ last_canary_at' = "recent"
  /\ UNCHANGED <<failure_count, state, opened_at, loaded, canary>>

\* The caller returns before it reports what it saw.
Abandon(t) ==
  /\ Goto(t, "admitted", "idle")
  /\ canary' = canary \ {t}
  /\ UNCHANGED <<breaker, loaded>>

-----------------------------------------------------------------------------
(* record_exchange_success *)

SuccessCount(t) ==
  /\ Goto(t, "admitted", "ok_opened")
  /\ failure_count' = 0
  /\ UNCHANGED <<state, opened_at, last_canary_at, loaded, canary>>

SuccessOpened(t) ==
  /\ Goto(t, "ok_opened", "ok_last")
  /\ opened_at' = "none"
  /\ UNCHANGED <<failure_count, state, last_canary_at, loaded, canary>>

SuccessLast(t) ==
  /\ Goto(t, "ok_last", "ok_state")
  /\ last_canary_at' = "none"
  /\ UNCHANGED <<failure_count, state, opened_at, loaded, canary>>

\* Seeded fault: only a probe's success closes the breaker.
SuccessStateIfProbing(t) ==
  /\ Goto(t, "ok_state", "idle")
  /\ state' = IF state = "half_open" THEN "closed" ELSE state
  /\ canary' = canary \ {t}
  /\ UNCHANGED <<failure_count, opened_at, last_canary_at, loaded>>

SuccessState(t) ==
  /\ Goto(t, "ok_state", "idle")
  /\ state' = "closed"
  /\ canary' = canary \ {t}
  /\ UNCHANGED <<failure_count, opened_at, last_canary_at, loaded>>

-----------------------------------------------------------------------------
(* record_exchange_failure *)

FailureLoad(t) ==
  /\ Goto(t, "admitted", "fail_store")
  /\ loaded' = [loaded EXCEPT ![t] = failure_count]
  /\ UNCHANGED <<breaker, canary>>

FailureStore(t) ==
  /\ Goto(t, "fail_store", "fail_count")
  /\ failure_count' = IF loaded[t] < MaxFailures
                      THEN loaded[t] + 1 ELSE MaxFailures
  /\ UNCHANGED <<state, opened_at, last_canary_at, loaded, canary>>

\* A failure that does not open the breaker ends here or in FailureState.
FailureCount(t) ==
  LET trips == failure_count >= MaxFailures IN
  /\ Goto(t, "fail_count", IF trips THEN "fail_state" ELSE "idle")
  /\ canary' = IF trips THEN canary ELSE canary \ {t}
  /\ UNCHANGED <<breaker, loaded>>

FailureState(t) ==
  LET trips == state \in {"closed", "half_open"} IN
  /\ Goto(t, "fail_state", IF trips THEN "fail_open" ELSE "idle")
  /\ canary' = IF trips THEN canary ELSE canary \ {t}
  /\ UNCHANGED <<breaker, loaded>>

\* Seeded fault: the state is misspelt.
FailureOpenMisspelt(t) ==
  /\ Goto(t, "fail_open", "fail_stamp")
  /\ state' = "opened"
  /\ UNCHANGED <<failure_count, opened_at, last_canary_at, loaded, canary>>

FailureOpen(t) ==
  /\ Goto(t, "fail_open", "fail_stamp")
  /\ state' = "open"
  /\ UNCHANGED <<failure_count, opened_at, last_canary_at, loaded, canary>>

FailureStamp(t) ==
  /\ Goto(t, "fail_stamp", "fail_clear")
  /\ opened_at' = "recent"
  /\ UNCHANGED <<failure_count, state, last_canary_at, loaded, canary>>

FailureClear(t) ==
  /\ Goto(t, "fail_clear", "idle")
  /\ last_canary_at' = "none"
  /\ canary' = canary \ {t}
  /\ UNCHANGED <<failure_count, state, opened_at, loaded>>

-----------------------------------------------------------------------------
(* Time and restarts *)

Aged(stamp) == IF stamp = "recent" THEN "cooled" ELSE stamp

\* Sixty seconds go by since one timestamp, or since both.
CoolOpened ==
  /\ opened_at = "recent"
  /\ opened_at' = "cooled"
  /\ last_canary_at' \in {last_canary_at, Aged(last_canary_at)}
  /\ UNCHANGED <<failure_count, state, pc, loaded, canary, overlapped>>

CoolCanary ==
  /\ last_canary_at = "recent"
  /\ last_canary_at' = "cooled"
  /\ UNCHANGED <<failure_count, state, opened_at, pc, loaded, canary, overlapped>>

\* The breakers live in a class attribute: a new process starts without them.
Restart ==
  /\ failure_count' = 0
  /\ state' = "closed"
  /\ opened_at' = "none"
  /\ last_canary_at' = "none"
  /\ pc' = [t \in Thread |-> "idle"]
  /\ loaded' = [t \in Thread |-> 0]
  /\ canary' = {}
  /\ UNCHANGED overlapped

Gate(t) ==
  \/ GateClosed(t) \/ GateOpen(t) \/ GateLast(t)
  \/ GateOpened(t) \/ GateHalf(t) \/ GateStamp(t)

record_exchange_success(t) ==
  \/ SuccessCount(t) \/ SuccessOpened(t) \/ SuccessLast(t) \/ SuccessState(t)

record_exchange_failure(t) ==
  \/ FailureLoad(t) \/ FailureStore(t) \/ FailureCount(t) \/ FailureState(t)
  \/ FailureOpen(t) \/ FailureStamp(t) \/ FailureClear(t)

ThreadStep(t) ==
  Gate(t) \/ Abandon(t) \/ record_exchange_success(t) \/ record_exchange_failure(t)

Next ==
  \/ \E t \in Thread : ThreadStep(t)
  \/ CoolOpened
  \/ CoolCanary
  \/ Restart

Spec == Init /\ [][Next]_vars

-----------------------------------------------------------------------------
(* Properties *)

\* Threads in the middle of record_exchange_success or _failure.
Reporting ==
  {t \in Thread : pc[t] \notin {"idle", "admitted", "gate_open", "gate_last",
                                "gate_opened", "gate_half", "gate_stamp"}}

(* However the two threads' writes interleave, a breaker that is open and  *)
(* that no thread is still writing carries the timestamp its cool-down is  *)
(* measured from.  Without one is_exchange_available answers False for     *)
(* ever (`if last_attempt_ts is None`).  The order of the assignments in   *)
(* the two record_ functions is what makes it so.                          *)
OpenIsTimed ==
  state = "open" /\ Reporting = {} => opened_at # "none" \/ last_canary_at # "none"

(* "sends one canary request" (docs/RUNBOOK.md:49): at most one thread     *)
(* probes a half-open exchange at a time.                                  *)
AtMostOneCanary == Cardinality(canary) <= 1

(* While the threads have taken turns, a closed breaker has seen fewer     *)
(* than MaxFailures consecutive failures between reports, and one that is  *)
(* not closed at least that many: the failure of a canary always opens it  *)
(* again.  Overlapping threads can separate the two.                       *)
CountMatchesState ==
  ~overlapped /\ Reporting = {} =>
    ((state = "closed") <=> (failure_count < MaxFailures))

(* The phases of a circuit breaker, while the threads have taken turns: it *)
(* opens when closed or probing, is probed only when open, and closes only *)
(* on the report of a probe.                                               *)
PhaseStep ==
  <<state, state'>> \in {<<"closed", "open">>, <<"open", "half_open">>,
                         <<"half_open", "closed">>, <<"half_open", "open">>}
PhaseOrder ==
  [][state' # state /\ ~overlapped => PhaseStep \/ Restart]_vars

=============================================================================
