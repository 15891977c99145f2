------------------------- MODULE StrategyGatesProofs -------------------------
(***************************************************************************)
(* Theorems about StrategyGates.tla, for every MaxFailures, whichever      *)
(* loops run and whether or not the database fails.                        *)
(***************************************************************************)
EXTENDS StrategyGates, TLAPS

USE DEF Exchange

\* What the three calls return is a breaker.
LEMMA CallTypes ==
  ASSUME NEW b \in BreakerRecord, NEW isFresh \in BOOLEAN
  PROVE  /\ NewBreaker \in BreakerRecord
         /\ AfterGate(b) \in BreakerRecord
         /\ AfterNotify(b, isFresh) \in BreakerRecord
<1> USE GatesAssumption DEF BreakerRecord, Stamp
<1>1. NewBreaker \in BreakerRecord
  BY DEF NewBreaker
<1>2. AfterGate(b) \in BreakerRecord
  BY DEF AfterGate
<1>3. AfterNotify(b, isFresh) \in BreakerRecord
  BY <1>1 DEF AfterNotify, record_exchange_success, record_exchange_failure
<1> QED
  BY <1>1, <1>2, <1>3

\* The breakers, feeds and controls keep their types, and each loop stands at
\* a known point of its iteration.
THEOREM TypeCorrect == Spec => []TypeOK
<1>1. Init => TypeOK
  <2>1. NewBreaker \in BreakerRecord
    BY GatesAssumption DEF NewBreaker, BreakerRecord, Stamp
  <2> SUFFICES ASSUME Init PROVE TypeOK
    OBVIOUS
  <2>2. breaker \in [Exchange -> BreakerRecord]
    BY <2>1 DEF Init
  <2>3. fresh \in [Feed -> BOOLEAN] /\ enabled \in [{"mm", "dn"} -> BOOLEAN]
    BY DEF Init
  <2> QED
    BY <2>2, <2>3 DEF Init, TypeOK
<1>2. TypeOK /\ [Next]_vars => TypeOK'
  <2> SUFFICES ASSUME TypeOK, [Next]_vars PROVE TypeOK'
    OBVIOUS
  <2> USE DEF TypeOK, Feed
  <2>1. CASE MMStep
    <3>1. CASE MMGate
      BY <3>1, CallTypes DEF MMGate
    <3>2. CASE MMNotify
      BY <3>2, CallTypes DEF MMNotify
    <3>3. CASE MMStart \/ MMPreflight \/ MMTrade
      BY <3>3 DEF MMStart, MMPreflight, MMTrade
    <3> QED
      BY <2>1, <3>1, <3>2, <3>3 DEF MMStep
  <2>2. CASE DNStep
    <3>1. CASE DNGatePerp \/ DNGateSpot
      BY <3>1, CallTypes DEF DNGatePerp, DNGateSpot
    <3>2. CASE DNNotifySpot
      BY <3>2, CallTypes DEF DNNotifySpot
    <3>3. CASE DNNotifyPerp
      BY <3>3, CallTypes DEF DNNotifyPerp
    <3>4. CASE DNStart \/ DNCommand \/ DNPreflight \/ DNStale \/ DNTrade
      BY <3>4 DEF DNStart, DNCommand, DNPreflight, DNStale, DNTrade
    <3> QED
      BY <2>2, <3>1, <3>2, <3>3, <3>4 DEF DNStep
  <2>3. CASE MMFails \/ DNFails
    BY <2>3 DEF MMFails, DNFails
  <2>4. ASSUME NEW f \in Feed, FeedRefreshed(f) \/ FeedExpires(f) PROVE TypeOK'
    BY <2>4 DEF FeedRefreshed, FeedExpires
  <2>5. ASSUME NEW s \in {"mm", "dn"}, SwitchLoop(s) PROVE TypeOK'
    BY <2>5 DEF SwitchLoop
  <2>6. CASE RequestFlatten
    BY <2>6 DEF RequestFlatten
  <2>7. ASSUME NEW e \in Exchange, Cooldown(e) PROVE TypeOK'
    BY <2>7 DEF Cooldown, Aged, BreakerRecord, Stamp
  <2>8. CASE UNCHANGED vars
    BY <2>8 DEF vars
  <2> QED
    BY <2>1, <2>2, <2>3, <2>4, <2>5, <2>6, <2>7, <2>8 DEF Next
<1> QED
  BY <1>1, <1>2, PTL DEF Spec

-----------------------------------------------------------------------------

\* BreakerConsistent, of one breaker.
Consistent(b) ==
  /\ b.state = "closed" =>
       /\ b.failure_count < MaxFailures
       /\ b.opened_at = "none" /\ b.last_canary_at = "none"
  /\ b.state # "closed" => b.failure_count = MaxFailures /\ b.opened_at # "none"
  /\ b.state = "half_open" <=> b.last_canary_at # "none"

\* Each call of the risk engine leaves a consistent breaker consistent, and a
\* report never leaves one half-open.
LEMMA CallsKeepConsistent ==
  ASSUME NEW b \in BreakerRecord, NEW isFresh \in BOOLEAN, Consistent(b)
  PROVE  /\ Consistent(AfterGate(b))
         /\ Consistent(AfterNotify(b, isFresh))
         /\ AfterNotify(b, isFresh).state # "half_open"
         /\ AfterNotify(b, TRUE).state = "closed"
  BY GatesAssumption
  DEF BreakerRecord, Stamp, Consistent, AfterGate, AfterNotify, CanaryDue,
      NewBreaker, record_exchange_success, record_exchange_failure

\* Time passing leaves it consistent too.
LEMMA AgingKeepsConsistent ==
  ASSUME NEW b \in BreakerRecord, Consistent(b)
  PROVE  Consistent([b EXCEPT !.opened_at = Aged(@), !.last_canary_at = Aged(@)])
  BY DEF BreakerRecord, Stamp, Consistent, Aged

\* A closed breaker has counted fewer than MaxFailures failures; one that is
\* not has counted that many and carries the timestamp it is timed from.
THEOREM BreakersStayConsistent == Spec => []BreakerConsistent
<1> DEFINE IInv == \A e \in Exchange : Consistent(breaker[e])
<1>1. Init => IInv
  BY GatesAssumption DEF Init, Consistent, NewBreaker
<1>2. TypeOK /\ IInv /\ [Next]_vars => IInv'
  <2> SUFFICES ASSUME TypeOK, IInv, [Next]_vars PROVE IInv'
    OBVIOUS
  <2> USE DEF TypeOK, Feed
  <2>1. CASE MMStep
    <3>1. CASE MMGate
      BY <3>1, CallsKeepConsistent DEF MMGate
    <3>2. CASE MMNotify
      BY <3>2, CallsKeepConsistent DEF MMNotify
    <3> QED
      BY <2>1, <3>1, <3>2 DEF MMStep, MMStart, MMPreflight, MMTrade
  <2>2. CASE DNStep
    <3>1. CASE DNGatePerp
      BY <3>1, CallsKeepConsistent DEF DNGatePerp
    <3>2. CASE DNGateSpot
      BY <3>2, CallsKeepConsistent DEF DNGateSpot
    <3>3. CASE DNNotifySpot
      BY <3>3, CallsKeepConsistent DEF DNNotifySpot
    <3>4. CASE DNNotifyPerp
      BY <3>4, CallsKeepConsistent DEF DNNotifyPerp
    <3> QED
      BY <2>2, <3>1, <3>2, <3>3, <3>4 DEF DNStep, DNStart, DNCommand, DNPreflight, DNStale, DNTrade
  <2>3. ASSUME NEW e \in Exchange, Cooldown(e) PROVE IInv'
    BY <2>3, AgingKeepsConsistent DEF Cooldown
  <2>4. CASE UNCHANGED breaker
    BY <2>4
  <2> QED
    BY <2>1, <2>2, <2>3, <2>4
    DEF Next, vars, MMFails, DNFails, FeedRefreshed, FeedExpires, SwitchLoop,
        RequestFlatten
<1>3. IInv => BreakerConsistent
  BY DEF Consistent, BreakerConsistent
<1> QED
  BY <1>1, <1>2, <1>3, TypeCorrect, PTL DEF Spec

\* Whichever loop reports on an exchange, of a fresh tick or of a stale one,
\* the report leaves its breaker closed or open: no answer to a probe is
\* swallowed.  A stale perpetual tick ends the iteration; its report counts too.
THEOREM ReportsAnswerProbes == Spec => ProbeAnswered
<1> DEFINE Answer ==
      /\ mm = "notify" /\ mm' = "preflight" => breaker'["kraken"].state # "half_open"
      /\ dn = "notify_spot" /\ dn' = "notify_perp" =>
          breaker'["kraken"].state # "half_open"
      /\ dn = "notify_perp" /\ dn' \in {"trade", "stale"} =>
          breaker'["coinbase_advanced"].state # "half_open"
<1>1. TypeOK /\ BreakerConsistent /\ [Next]_vars => [Answer]_vars
  <2> SUFFICES ASSUME TypeOK, BreakerConsistent, Next PROVE Answer
    BY DEF vars
  <2>1. \A e \in Exchange : Consistent(breaker[e]) /\ breaker[e] \in BreakerRecord
    BY DEF TypeOK, BreakerConsistent, Consistent
  <2> USE DEF TypeOK, Feed
  <2>2. CASE MMNotify
    BY <2>1, <2>2, CallsKeepConsistent DEF MMNotify
  <2>3. CASE DNNotifySpot
    BY <2>1, <2>3, CallsKeepConsistent DEF DNNotifySpot
  <2>4. CASE DNNotifyPerp
    BY <2>1, <2>4, CallsKeepConsistent DEF DNNotifyPerp
  <2> QED
    BY <2>2, <2>3, <2>4
    DEF Next, MMStep, MMStart, MMGate, MMPreflight, MMTrade,
        DNStep, DNStart, DNGatePerp, DNGateSpot, DNCommand, DNPreflight, DNStale, DNTrade,
        MMFails, DNFails, FeedRefreshed, FeedExpires, SwitchLoop, RequestFlatten,
        Cooldown
<1> QED
  BY <1>1, TypeCorrect, BreakersStayConsistent, PTL DEF Spec, ProbeAnswered

\* The runner reaches its trading step only while the breaker of the
\* perpetual's exchange is closed.
THEOREM RunnerTradesOnClosedPerp == Spec => []TradeOnClosedPerp
<1>1. Init => TradeOnClosedPerp
  BY DEF Init, TradeOnClosedPerp
<1>2. TypeOK /\ TradeOnClosedPerp /\ [Next]_vars => TradeOnClosedPerp'
  <2> SUFFICES ASSUME TypeOK, TradeOnClosedPerp, [Next]_vars
               PROVE  TradeOnClosedPerp'
    OBVIOUS
  <2> USE DEF TypeOK, TradeOnClosedPerp
  <2>1. CASE MMStep
    BY <2>1 DEF MMStep, MMStart, MMGate, MMNotify, MMPreflight, MMTrade
  <2>2. CASE DNStep
    BY <2>2
    DEF DNStep, DNStart, DNGatePerp, DNGateSpot, DNCommand, DNPreflight,
        DNNotifySpot, DNNotifyPerp, DNStale, DNTrade, AfterNotify,
        record_exchange_success, NewBreaker
  <2>3. ASSUME NEW e \in Exchange, Cooldown(e) PROVE TradeOnClosedPerp'
    BY <2>3 DEF Cooldown, BreakerRecord
  <2>4. CASE UNCHANGED <<breaker, dn>>
    BY <2>4
  <2> QED
    BY <2>1, <2>2, <2>3, <2>4
    DEF Next, vars, MMFails, DNFails, FeedRefreshed, FeedExpires, SwitchLoop,
        RequestFlatten
<1> QED
  BY <1>1, <1>2, TypeCorrect, PTL DEF Spec

-----------------------------------------------------------------------------

\* The market-making loop is between its gate and its report.
ProbeHasOwner == breaker["kraken"].state = "half_open" => mm = "notify"

(* Without the runner, kraken is half-open only while the market-making    *)
(* loop stands between its gate and its report: the shared breakers are    *)
(* what lets a probe go unanswered, not the loop that was written first.   *)
THEOREM LoneLoopOwnsProbe ==
  ASSUME Loops = {"mm"}, DbFaults = FALSE
  PROVE  Spec => []ProbeHasOwner
<1> DEFINE IInv == dn = "idle" /\ ~enabled["dn"] /\ ProbeHasOwner
<1>1. Init => IInv
  <2> SUFFICES ASSUME Init PROVE IInv
    OBVIOUS
  <2>1. ~enabled["dn"]
    BY Loops = {"mm"} DEF Init
  <2>2. breaker["kraken"].state = "closed"
    BY DEF Init, NewBreaker
  <2> QED
    BY <2>1, <2>2 DEF Init, ProbeHasOwner
<1>2. TypeOK /\ BreakerConsistent /\ IInv /\ [Next]_vars => IInv'
  <2> SUFFICES ASSUME TypeOK, BreakerConsistent, IInv, [Next]_vars PROVE IInv'
    OBVIOUS
  <2> USE Loops = {"mm"}, DbFaults = FALSE DEF TypeOK, ProbeHasOwner
  <2>1. CASE MMGate
    BY <2>1 DEF MMGate, AfterGate, is_exchange_available, CanaryDue, BreakerRecord
  <2>2. CASE MMNotify
    BY <2>2, GatesAssumption
    DEF MMNotify, AfterNotify, record_exchange_success, record_exchange_failure,
        NewBreaker, BreakerRecord, BreakerConsistent
  <2>3. CASE MMStart \/ MMPreflight \/ MMTrade
    BY <2>3 DEF MMStart, MMPreflight, MMTrade
  <2>4. CASE DNStep
    BY <2>4 DEF DNStep, DNStart, DNGatePerp, DNGateSpot, DNCommand, DNPreflight,
                DNNotifySpot, DNNotifyPerp, DNStale, DNTrade
  <2>5. ASSUME NEW s \in {"mm", "dn"}, SwitchLoop(s) PROVE IInv'
    BY <2>5 DEF SwitchLoop
  <2>6. ASSUME NEW e \in Exchange, Cooldown(e) PROVE IInv'
    BY <2>6 DEF Cooldown, BreakerRecord
  <2>7. CASE UNCHANGED <<breaker, enabled, mm, dn>>
    BY <2>7
  <2> QED
    BY <2>1, <2>2, <2>3, <2>4, <2>5, <2>6, <2>7
    DEF Next, vars, MMStep, MMFails, DNFails, FeedRefreshed, FeedExpires,
        RequestFlatten
<1> QED
  BY <1>1, <1>2, TypeCorrect, BreakersStayConsistent, PTL DEF Spec

=============================================================================
