------------------------ MODULE CircuitBreakerProofs ------------------------
(***************************************************************************)
(* Theorems about CircuitBreaker.tla, for every set of threads and every   *)
(* MaxFailures.                                                            *)
(***************************************************************************)
EXTENDS CircuitBreaker, TLAPS

\* A thread's step moves that thread only, and is observed.
LEMMA StepMoves ==
  ASSUME BreakerOK, NEW t \in Thread, ThreadStep(t)
  PROVE  /\ pc' = [pc EXCEPT ![t] = pc'[t]]
         /\ pc[t] # "idle" \/ pc'[t] # "idle"
         /\ Observe
<1> USE DEF BreakerOK, Goto
<1>1. CASE Gate(t)
  BY <1>1 DEF Gate, GateClosed, GateOpen, GateLast, GateOpened, GateHalf, GateStamp
<1>2. CASE Abandon(t)
  BY <1>2 DEF Abandon
<1>3. CASE record_exchange_success(t)
  BY <1>3 DEF record_exchange_success, SuccessCount, SuccessOpened,
              SuccessLast, SuccessState
<1>4. CASE record_exchange_failure(t)
  BY <1>4 DEF record_exchange_failure, FailureLoad, FailureStore, FailureCount,
              FailureState, FailureOpen, FailureStamp, FailureClear
<1> QED
  BY <1>1, <1>2, <1>3, <1>4 DEF ThreadStep

(* Every attribute of the breaker, and every thread's position in the      *)
(* calls of RiskEngine, stays within its type.                             *)
THEOREM TypeCorrect == Spec => []TypeOK
<1>1. Init => TypeOK
  <2>1. Init => BreakerOK
    BY MaxFailuresAssumption DEF Init, BreakerOK, Stamp, Control
  <2>2. Init => overlapped \in BOOLEAN
    BY DEF Init
  <2> QED
    BY <2>1, <2>2 DEF TypeOK
<1>2. BreakerOK /\ [Next]_vars => BreakerOK'
  <2> SUFFICES ASSUME BreakerOK, [Next]_vars PROVE BreakerOK'
    OBVIOUS
  <2> USE MaxFailuresAssumption DEF BreakerOK, Stamp, Control
  <2>1. ASSUME NEW t \in Thread, Gate(t) PROVE BreakerOK'
    BY <2>1 DEF Gate, GateClosed, GateOpen, GateLast, GateOpened, GateHalf,
                GateStamp, AfterAttempt, Goto, breaker
  <2>2. ASSUME NEW t \in Thread, Abandon(t) PROVE BreakerOK'
    BY <2>2 DEF Abandon, Goto, breaker
  <2>3. ASSUME NEW t \in Thread, record_exchange_success(t) PROVE BreakerOK'
    BY <2>3 DEF record_exchange_success, SuccessCount, SuccessOpened,
                SuccessLast, SuccessState, Goto
  <2>4. ASSUME NEW t \in Thread, record_exchange_failure(t) PROVE BreakerOK'
    BY <2>4 DEF record_exchange_failure, FailureLoad, FailureStore, FailureCount,
                FailureState, FailureOpen, FailureStamp, FailureClear, Goto, breaker
  <2>5. CASE CoolOpened
    BY <2>5 DEF CoolOpened, Aged
  <2>6. CASE CoolCanary
    BY <2>6 DEF CoolCanary
  <2>7. CASE Restart
    BY <2>7 DEF Restart
  <2>8. CASE UNCHANGED vars
    BY <2>8 DEF vars
  <2> QED
    BY <2>1, <2>2, <2>3, <2>4, <2>5, <2>6, <2>7, <2>8 DEF Next, ThreadStep
<1>3. TypeOK /\ [Next]_vars => overlapped' \in BOOLEAN
  <2> SUFFICES ASSUME TypeOK, [Next]_vars PROVE overlapped' \in BOOLEAN
    OBVIOUS
  <2>1. ASSUME NEW t \in Thread, ThreadStep(t) PROVE overlapped' \in BOOLEAN
    <3>1. overlapped' = IF Overlap' THEN TRUE ELSE overlapped
      BY <2>1, StepMoves DEF TypeOK, Observe
    <3>2. CASE Overlap'
      BY <3>1, <3>2
    <3>3. CASE ~Overlap'
      BY <3>1, <3>3 DEF TypeOK
    <3> QED
      BY <3>2, <3>3
  <2>2. CASE UNCHANGED overlapped
    BY <2>2 DEF TypeOK
  <2> QED
    BY <2>1, <2>2 DEF Next, vars, CoolOpened, CoolCanary, Restart
<1>4. TypeOK /\ [Next]_vars => TypeOK'
  BY <1>2, <1>3 DEF TypeOK
<1> QED
  BY <1>1, <1>4, PTL DEF Spec

-----------------------------------------------------------------------------

(* OpenIsTimed speaks of moments when no thread is writing.  What is true  *)
(* at every moment is that an open breaker without opened_at still has the *)
(* thread at work that will stamp it, or that will close it.               *)
OpenInv ==
  state = "open" =>
    \/ opened_at # "none"
    \/ \E t \in Thread : pc[t] \in {"fail_stamp", "ok_last", "ok_state"}

(* An open breaker that no thread is writing has a timestamp, so that its  *)
(* cool-down can end: record_exchange_failure writes the state before the  *)
(* timestamp, and record_exchange_success the timestamp before the state.  *)
THEOREM OpenBreakerIsTimed == Spec => []OpenIsTimed
<1>1. Init => OpenInv
  BY DEF Init, OpenInv
<1>2. TypeOK /\ OpenInv /\ [Next]_vars => OpenInv'
  <2> SUFFICES ASSUME TypeOK, OpenInv, [Next]_vars PROVE OpenInv'
    OBVIOUS
  <2> USE DEF TypeOK, BreakerOK, Stamp, OpenInv
  <2>1. ASSUME NEW t \in Thread, Gate(t) PROVE OpenInv'
    BY <2>1 DEF Gate, GateClosed, GateOpen, GateLast, GateOpened, GateHalf,
                GateStamp, Goto, breaker
  <2>2. ASSUME NEW t \in Thread, Abandon(t) PROVE OpenInv'
    BY <2>2 DEF Abandon, Goto, breaker
  <2>3. ASSUME NEW t \in Thread, record_exchange_success(t) PROVE OpenInv'
    BY <2>3 DEF record_exchange_success, SuccessCount, SuccessOpened,
                SuccessLast, SuccessState, Goto
  <2>4. ASSUME NEW t \in Thread, record_exchange_failure(t) PROVE OpenInv'
    BY <2>4 DEF record_exchange_failure, FailureLoad, FailureStore, FailureCount,
                FailureState, FailureOpen, FailureStamp, FailureClear, Goto, breaker
  <2>5. CASE CoolOpened
    BY <2>5 DEF CoolOpened
  <2>6. CASE CoolCanary
    BY <2>6 DEF CoolCanary
  <2>7. CASE Restart
    BY <2>7 DEF Restart
  <2>8. CASE UNCHANGED vars
    BY <2>8 DEF vars
  <2> QED
    BY <2>1, <2>2, <2>3, <2>4, <2>5, <2>6, <2>7, <2>8 DEF Next, ThreadStep
<1>3. OpenInv => OpenIsTimed
  BY DEF OpenInv, OpenIsTimed, Reporting
<1> QED
  BY <1>1, <1>2, <1>3, TypeCorrect, PTL DEF Spec

-----------------------------------------------------------------------------
(* Threads that take turns.  When two overlap, a success recorded between  *)
(* another thread's test of failure_count and its `state = "open"` leaves  *)
(* an open breaker with a count of zero, and neither property below holds. *)

ClosedBelowLimit == (state = "closed") <=> (failure_count < MaxFailures)

\* The breaker as a thread finds it at each point of the three calls.
FoundBy(t) ==
  /\ pc[t] \in {"gate_open", "gate_last", "gate_opened", "gate_half",
                "gate_stamp", "admitted", "fail_store"} => ClosedBelowLimit
  /\ pc[t] = "gate_open" => state # "closed"
  /\ pc[t] \in {"gate_last", "gate_opened", "gate_half"} => state = "open"
  /\ pc[t] = "gate_stamp" => state = "half_open"
  /\ pc[t] \in {"admitted", "fail_store", "fail_count", "ok_opened", "ok_last",
                "ok_state"} => state # "open"
  /\ pc[t] = "fail_store" => loaded[t] = failure_count
  /\ pc[t] = "fail_count" /\ state # "closed" => failure_count = MaxFailures
  /\ pc[t] \in {"fail_state", "fail_open"} =>
       failure_count = MaxFailures /\ state # "open"
  /\ pc[t] \in {"fail_stamp", "fail_clear"} =>
       failure_count = MaxFailures /\ state = "open"
  /\ pc[t] \in {"ok_opened", "ok_last", "ok_state"} => failure_count = 0

TurnsInv ==
  /\ (\A t \in Thread : pc[t] = "idle") => ClosedBelowLimit
  /\ \A t \in Thread : FoundBy(t)
TakingTurns == ~overlapped => ~Overlap /\ TurnsInv

\* A step of t is made alone when nothing has overlapped up to its end.
LEMMA OthersAreIdle ==
  ASSUME BreakerOK, ~Overlap, ~Overlap', NEW t \in Thread, ThreadStep(t)
  PROVE  \A u \in Thread : u # t => pc[u] = "idle" /\ pc'[u] = "idle"
<1>1. pc' = [pc EXCEPT ![t] = pc'[t]] /\ (pc[t] # "idle" \/ pc'[t] # "idle")
  BY StepMoves
<1>2. \A u \in Thread : u # t => pc'[u] = pc[u]
  BY <1>1 DEF BreakerOK
<1> QED
  BY <1>1, <1>2 DEF Overlap

\* A thread in its turn leaves the breaker as its next access expects it.
LEMMA StepFindsBreaker ==
  ASSUME BreakerOK, TurnsInv, NEW t \in Thread, ThreadStep(t),
         \A u \in Thread : u # t => pc[u] = "idle" /\ pc'[u] = "idle"
  PROVE  TurnsInv'
<1>1. ((\A u \in Thread : pc[u] = "idle") => ClosedBelowLimit) /\ FoundBy(t)
  BY DEF TurnsInv
<1>2. FoundBy(t)' /\ (pc'[t] = "idle" => ClosedBelowLimit')
  <2> USE MaxFailuresAssumption, <1>1 DEF BreakerOK, FoundBy, ClosedBelowLimit, Goto
  <2>1. CASE Gate(t)
    <3>1. CASE GateClosed(t)
      BY <3>1 DEF GateClosed, breaker
    <3>2. CASE GateOpen(t) \/ GateLast(t) \/ GateOpened(t)
      BY <3>2 DEF GateOpen, GateLast, GateOpened, AfterAttempt, breaker
    <3>3. CASE GateHalf(t) \/ GateStamp(t)
      BY <3>3 DEF GateHalf, GateStamp
    <3> QED
      BY <2>1, <3>1, <3>2, <3>3 DEF Gate
  <2>2. CASE Abandon(t)
    BY <2>2 DEF Abandon, breaker
  <2>3. CASE record_exchange_success(t)
    BY <2>3 DEF record_exchange_success, SuccessCount, SuccessOpened, SuccessLast,
                SuccessState
  <2>4. CASE record_exchange_failure(t)
    BY <2>4 DEF record_exchange_failure, FailureLoad, FailureStore, FailureCount,
                FailureState, FailureOpen, FailureStamp, FailureClear, breaker
  <2> QED
    BY <2>1, <2>2, <2>3, <2>4 DEF ThreadStep
<1>3. ASSUME NEW u \in Thread, u # t PROVE FoundBy(u)'
  BY <1>3 DEF FoundBy
<1> QED
  BY <1>2, <1>3 DEF TurnsInv

\* While nothing has overlapped, the breaker is as each thread expects it.
LEMMA TurnsKept == Spec => [](TypeOK /\ TakingTurns)
<1>1. Init => TakingTurns
  BY MaxFailuresAssumption
  DEF Init, TakingTurns, TurnsInv, FoundBy, ClosedBelowLimit, Overlap
<1>2. TypeOK /\ TakingTurns /\ [Next]_vars => TakingTurns'
  <2> SUFFICES ASSUME TypeOK, TakingTurns, [Next]_vars, ~overlapped'
               PROVE  ~Overlap' /\ TurnsInv'
    BY DEF TakingTurns
  <2>1. CASE UNCHANGED vars
    BY <2>1 DEF vars, TakingTurns, TurnsInv, FoundBy, ClosedBelowLimit, Overlap
  <2>2. ASSUME NEW t \in Thread, ThreadStep(t) PROVE ~Overlap' /\ TurnsInv'
    <3>1. ~Overlap' /\ ~overlapped
      BY <2>2, StepMoves DEF TypeOK, Observe
    <3>2. BreakerOK /\ ~Overlap /\ TurnsInv
      BY <3>1 DEF TypeOK, TakingTurns
    <3> QED
      BY <2>2, <3>1, <3>2, OthersAreIdle, StepFindsBreaker
  <2>3. CASE CoolOpened \/ CoolCanary
    BY <2>3 DEF CoolOpened, CoolCanary, TakingTurns, TurnsInv, FoundBy,
                ClosedBelowLimit, Overlap
  <2>4. CASE Restart
    BY <2>4, MaxFailuresAssumption DEF Restart, TurnsInv, FoundBy,
                                       ClosedBelowLimit, Overlap
  <2> QED
    BY <2>1, <2>2, <2>3, <2>4 DEF Next
<1> QED
  BY <1>1, <1>2, TypeCorrect, PTL DEF Spec

(* As long as the threads of the process have taken turns, a breaker at    *)
(* rest is closed exactly while the count of consecutive failures is below *)
(* the limit.                                                              *)
THEOREM TurnsKeepCount == Spec => []CountMatchesState
<1>1. TypeOK /\ TakingTurns => CountMatchesState
  <2> SUFFICES ASSUME TypeOK, TakingTurns, ~overlapped, Reporting = {}
               PROVE  ClosedBelowLimit
    BY DEF CountMatchesState, ClosedBelowLimit
  <2>1. TurnsInv
    BY DEF TakingTurns
  <2>2. CASE \A t \in Thread : pc[t] = "idle"
    BY <2>1, <2>2 DEF TurnsInv
  <2>3. ASSUME NEW t \in Thread, pc[t] # "idle" PROVE ClosedBelowLimit
    BY <2>1, <2>3 DEF TurnsInv, FoundBy, Reporting
  <2> QED
    BY <2>2, <2>3
<1> QED
  BY <1>1, TurnsKept, PTL

(* As long as the threads have taken turns, the breaker only moves along   *)
(* the phases closed -> open -> half_open -> closed or open.               *)
THEOREM TurnsKeepPhases == Spec => PhaseOrder
<1>1. TypeOK /\ TakingTurns /\ [Next]_vars =>
        [state' # state /\ ~overlapped => PhaseStep \/ Restart]_vars
  <2> SUFFICES ASSUME TypeOK, TakingTurns, Next, state' # state, ~overlapped, ~Restart
               PROVE  PhaseStep
    OBVIOUS
  <2>1. BreakerOK /\ TurnsInv
    BY DEF TypeOK, TakingTurns
  <2>2. PICK t \in Thread : ThreadStep(t)
    BY DEF Next, CoolOpened, CoolCanary
  <2>3. CASE Gate(t) \/ Abandon(t)
    BY <2>1, <2>3 DEF Gate, GateClosed, GateOpen, GateLast, GateOpened, GateHalf,
       GateStamp, Abandon, Goto, breaker, TurnsInv, FoundBy, PhaseStep
  <2>4. CASE record_exchange_success(t)
    BY <2>1, <2>4 DEF record_exchange_success, SuccessCount, SuccessOpened,
       SuccessLast, SuccessState, Goto, TurnsInv, FoundBy, BreakerOK, PhaseStep
  <2>5. CASE record_exchange_failure(t)
    BY <2>1, <2>5 DEF record_exchange_failure, FailureLoad, FailureStore,
       FailureCount, FailureState, FailureOpen, FailureStamp, FailureClear, Goto,
       breaker, TurnsInv, FoundBy, BreakerOK, PhaseStep
  <2> QED
    BY <2>2, <2>3, <2>4, <2>5 DEF ThreadStep
<1> QED
  BY <1>1, TurnsKept, PTL DEF Spec, PhaseOrder

=============================================================================
