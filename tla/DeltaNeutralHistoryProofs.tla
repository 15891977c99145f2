---------------------- MODULE DeltaNeutralHistoryProofs ----------------------
(***************************************************************************)
(* Theorems about the properties of DeltaNeutralHistory.tla.               *)
(***************************************************************************)
EXTENDS DeltaNeutralHistory, DeltaNeutralProofs

\* The history variables only observe.
LEMMA Observed == HSpec => [](TypeOK /\ StagedInv)
<1>1. HInit => Init
  BY DEF HInit
<1>2. [HNext]_hvars => [Next]_vars
  BY DEF HNext, hvars
<1> QED
  BY <1>1, <1>2, Invariant, PTL DEF HSpec, Spec

\* Only a commit can add to a leg.
LEMMA OpensAtCommit ==
  ASSUME TypeOK, [Next]_vars, Opens
  PROVE  Commit
<1>1. legs.perp \in Nat /\ legs.spot \in Nat
  BY Bounds DEF TypeOK, PositionsOK, Legs
<1>2. CASE FlattenBoth
  BY <1>1, <1>2 DEF FlattenBoth, Opens
<1>3. CASE legs' = legs
  BY <1>1, <1>3 DEF Opens
<1> QED
  BY <1>2, <1>3, LegsMove

\* Once a flatten is under way the runner is in it, or it is latched and never
\* gets as far as a decision.
AttemptedInv ==
  attempted => \/ pc \in Flattening
               \/ flattened /\ pc \notin {"evaluate", "spot_leg", "commit"}

(* From an emergency flatten on, whatever came of it, the process opens    *)
(* nothing more: the latch is set on every path out of emergency_flatten,  *)
(* and an iteration tests it before it decides.                            *)
THEOREM FlattenIsFinal == HSpec => NothingOpensAfterFlatten
<1>1. HInit => AttemptedInv
  BY DEF HInit, AttemptedInv
<1>2. TypeOK /\ AttemptedInv /\ [HNext]_hvars => AttemptedInv'
  <2> SUFFICES ASSUME TypeOK, AttemptedInv, [HNext]_hvars PROVE AttemptedInv'
    OBVIOUS
  <2> USE DEF AttemptedInv, Flattening
  <2> SUFFICES ASSUME attempted' PROVE AttemptedInv'
    BY DEF AttemptedInv
  <2>1. CASE UNCHANGED hvars
    BY <2>1 DEF hvars, vars
  <2>2. HNext => \/ pc \in Flattening
                 \/ flattened /\ pc \notin {"evaluate", "spot_leg", "commit"}
    BY DEF HNext
  <2>3. CASE HNext /\ Runner
    BY <2>2, <2>3
    DEF Runner, BeginHalted, Begin, CheckEnabled, CheckGates, CheckCommand,
        Preflight, CheckLatch, NoFunding, Wait, EnterPerp, EnterPerpFails,
        EnterSpot, EnterSpotFails, Exit, Rebalance, HandlerFails, Commit,
        CommitFails, FlattenBoth, FlattenFails, Flatten, ClearCommand,
        ClearCommandFails, Decide, Goto, Return, memory
  <2>4. CASE HNext /\ Restart
    <3>1. restarts' # restarts
      BY <2>4 DEF Restart, TypeOK, CountersOK
    <3> QED
      BY <2>4, <3>1 DEF HNext
  <2>5. CASE /\ HNext
             /\ SetKillSwitch \/ SetStrategyControl \/ RequestFlatten \/ OutsideMoves
    BY <2>2, <2>5 DEF SetKillSwitch, SetStrategyControl, RequestFlatten,
                      OutsideMoves, memory
  <2> QED
    BY <2>1, <2>2, <2>3, <2>4, <2>5 DEF HNext, Next
<1>3. TypeOK /\ AttemptedInv /\ [HNext]_hvars => [attempted => ~Opens]_hvars
  <2> SUFFICES ASSUME TypeOK, AttemptedInv, HNext, attempted, Opens PROVE FALSE
    BY DEF hvars
  <2>1. Commit
    BY OpensAtCommit DEF HNext
  <2> QED
    BY <2>1 DEF Commit, Goto, AttemptedInv, Flattening
<1> QED
  BY <1>1, <1>2, <1>3, Observed, PTL DEF HSpec, NothingOpensAfterFlatten

\* With the kill switch on and the earlier iteration over, the runner does
\* nothing but flatten.
HaltedInv == halted => kill_switch /\ pc \in {"idle", "flatten_kill"}

(* The kill switch stops new fills: once the iteration during which it was *)
(* turned on is over, nothing opens until it is turned off.                *)
THEOREM KillSwitchHalts == HSpec => KillSwitchStopsEntries
<1>1. HInit => HaltedInv
  BY DEF HInit, HaltedInv
<1>2. HaltedInv /\ [HNext]_hvars => HaltedInv'
  <2> SUFFICES ASSUME HaltedInv, [HNext]_hvars PROVE HaltedInv'
    OBVIOUS
  <2> USE DEF HaltedInv
  <2>1. CASE UNCHANGED hvars
    BY <2>1 DEF hvars, vars
  <2>2. CASE HNext /\ Runner
    BY <2>2 DEF HNext, Runner, BeginHalted, Begin, CheckEnabled, CheckGates,
                CheckCommand, Preflight, CheckLatch, NoFunding, Wait, EnterPerp,
                EnterPerpFails, EnterSpot, EnterSpotFails, Exit, Rebalance,
                HandlerFails, Commit, CommitFails, FlattenBoth, FlattenFails,
                Flatten, ClearCommand, ClearCommandFails, Decide, Goto, Return,
                controls
  <2>3. CASE HNext /\ (Restart \/ SetKillSwitch \/ SetStrategyControl
                         \/ RequestFlatten \/ OutsideMoves)
    BY <2>3 DEF HNext, Restart, Return, SetKillSwitch, SetStrategyControl,
                RequestFlatten, OutsideMoves, controls
  <2> QED
    BY <2>1, <2>2, <2>3 DEF HNext, Next
<1>3. TypeOK /\ HaltedInv /\ [HNext]_hvars => [halted /\ kill_switch => ~Opens]_hvars
  <2> SUFFICES ASSUME TypeOK, HaltedInv, HNext, halted, Opens PROVE FALSE
    BY DEF hvars
  <2>1. Commit
    BY OpensAtCommit DEF HNext
  <2> QED
    BY <2>1 DEF Commit, Goto, HaltedInv
<1> QED
  BY <1>1, <1>2, <1>3, Observed, PTL DEF HSpec, KillSwitchStopsEntries

-----------------------------------------------------------------------------

\* What a naked leg brings about, and what makes it inductive: an iteration
\* that is about to break the hedge has paused the strategy already.
NakedInv ==
  /\ naked => paused /\ Gap(legs) > 0 /\ pc \notin {"spot_leg", "commit"}
  /\ pc = "commit" /\ Gap(staged) > 0 /\ Gap(legs) = 0 => paused

\* A paused strategy with a naked leg does not get past its evaluation.
LEMMA NakedKept ==
  ASSUME TypeOK, StagedInv, NakedInv, [HNext]_hvars
  PROVE  NakedInv'
<1> USE DEF NakedInv
<1>1. legs \in Legs /\ staged \in Legs
  BY DEF TypeOK, PositionsOK
<1>2. Gap(legs) \in Nat /\ Gap(staged) \in Nat
  BY <1>1, GapIsNat
<1>3. Gap(legs) > 0 => Open(legs)
  BY <1>1, GapFacts
<1>4. CASE UNCHANGED hvars
  BY <1>4 DEF hvars, vars
<1>5. CASE HNext
  <2>1. naked' => /\ restarts' = restarts /\ Gap(legs') > 0
                  /\ naked \/ Gap(legs) = 0
    BY <1>5 DEF HNext
  <2>2. legs' = legs => (naked' => naked)
    BY <1>2, <2>1
  <2>3. naked => ~Decide("ENTER") /\ ~Decide("EXIT") /\ ~Decide("REBALANCE")
    BY <1>1, <1>3, SignalGrounds DEF Decide
  <2>4. CASE \/ BeginHalted \/ Begin \/ CheckEnabled \/ CheckGates \/ CheckCommand
             \/ Preflight \/ CheckLatch \/ NoFunding \/ FlattenFails
             \/ ClearCommand \/ ClearCommandFails \/ CommitFails
    BY <2>2, <2>4 DEF BeginHalted, Begin, CheckEnabled, CheckGates, CheckCommand,
       Preflight, CheckLatch, NoFunding, FlattenFails, Flatten, ClearCommand,
       ClearCommandFails, CommitFails, Goto, Return, memory, Flattening
  <2>5. CASE Wait \/ HandlerFails
    BY <1>3, <2>2, <2>5 DEF Wait, HandlerFails, Decide, Resume, Return
  <2>6. CASE EnterPerpFails
    BY <2>2, <2>6 DEF EnterPerpFails, Decide, Return
  <2>7. CASE EnterSpotFails
    BY <2>2, <2>7 DEF EnterSpotFails
  <2>8. CASE EnterPerp
    BY <2>2, <2>3, <2>8 DEF EnterPerp, Decide
  <2>9. CASE EnterSpot
    <3>1. staged'.perp = Qty /\ staged'.spot = Qty
      BY <1>1, <2>9, Bounds DEF EnterSpot, Goto, StagedInv, Legs
    <3>2. Gap(staged') = 0
      BY <3>1, Bounds DEF Gap
    <3> QED
      BY <2>2, <2>9, <3>2 DEF EnterSpot, Goto
  <2>10. CASE Exit
    <3>1. Gap(staged') = 0
      BY <2>10 DEF Exit, Gap
    <3> QED
      BY <2>2, <2>3, <2>10, <3>1 DEF Exit, Decide
  <2>11. CASE Rebalance
    <3>1. Open(legs) /\ ~is_balanced(legs)
      BY <1>1, <2>11, SignalGrounds DEF Rebalance, Decide
    <3>2. Gap(legs') > 0
      BY <1>1, <1>2, <2>11, <3>1, GapFacts DEF Rebalance, Decide
    <3> QED
      BY <2>2, <2>3, <2>11, <3>2 DEF Rebalance, Decide
  <2>12. CASE Commit
    BY <2>1, <2>12 DEF Commit, Goto, memory
  <2>13. CASE FlattenBoth
    <3>1. Gap(legs') = 0
      BY <2>13 DEF FlattenBoth, Gap
    <3>2. pc' # "commit"
      BY <2>13 DEF FlattenBoth, Flatten
    <3> QED
      BY <2>1, <3>1, <3>2
  <2>14. CASE Restart
    <3>1. ~naked'
      BY <2>1, <2>14, Bounds DEF Restart, TypeOK, CountersOK
    <3> QED
      BY <2>14, <3>1 DEF Restart, Return
  <2>15. CASE SetKillSwitch \/ SetStrategyControl \/ RequestFlatten \/ OutsideMoves
    BY <2>2, <2>15 DEF SetKillSwitch, SetStrategyControl, RequestFlatten,
                       OutsideMoves, memory
  <2> QED
    BY <1>5, <2>4, <2>5, <2>6, <2>7, <2>8, <2>9, <2>10, <2>11, <2>12, <2>13, <2>14,
       <2>15
    DEF HNext, Next, Runner
<1> QED
  BY <1>4, <1>5

(* A position that one life of the runner left with one leg is closed by   *)
(* an emergency flatten or not touched at all: no signal ever trades on    *)
(* it, whatever the database held when the process started.                *)
THEOREM NakedLegStopsStrategy == HSpec => NakedLegOnlyFlattened
<1>1. HInit => NakedInv
  BY DEF HInit, Init, NakedInv
<1>2. TypeOK /\ StagedInv /\ NakedInv /\ [HNext]_hvars => NakedInv'
  BY NakedKept
<1>3. TypeOK /\ NakedInv /\ [HNext]_hvars
        => [naked /\ legs' # legs => ~Open(legs')]_hvars
  <2> SUFFICES ASSUME TypeOK, NakedInv, HNext, naked, legs' # legs
               PROVE  ~Open(legs')
    BY DEF hvars
  <2>1. ~Commit
    BY DEF NakedInv, Commit, Goto
  <2>2. FlattenBoth
    BY <2>1, LegsMove DEF HNext
  <2> QED
    BY <2>2 DEF FlattenBoth, Open
<1> QED
  BY <1>1, <1>2, <1>3, Observed, PTL DEF HSpec, NakedLegOnlyFlattened

=============================================================================
