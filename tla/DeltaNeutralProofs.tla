------------------------- MODULE DeltaNeutralProofs -------------------------
(***************************************************************************)
(* Theorems about DeltaNeutral.tla, for every quantity, set of prices,     *)
(* limit and number of faults and restarts.                                *)
(***************************************************************************)
EXTENDS DeltaNeutral, TLAPS

\* What the iteration's session has written, at each point of the iteration:
\* nothing outside a handler, one leg of an entry between its two legs, and
\* before the commit nothing that breaks the hedge of an open position.
StagedInv ==
  /\ pc \notin {"spot_leg", "commit"} => staged = legs
  /\ pc = "spot_leg" => ~Open(legs) /\ staged.perp = Qty /\ staged.spot = 0
  /\ pc = "commit" => Gap(staged) <= Gap(legs) \/ ~Open(legs)

\* The bounds, as numbers.
LEMMA Bounds ==
  /\ Qty \in Nat \ {0} /\ Qty \in 0..Qty /\ 0 + Qty = Qty
  /\ MaxFaults \in Nat /\ MaxRestarts \in Nat
  BY DeltaNeutralAssumption

\* A signal depends on the state as the strategy sees it.
LEMMA SignalGrounds ==
  ASSUME legs \in Legs
  PROVE  /\ evaluate(legs) = "ENTER" => ~Open(legs)
         /\ evaluate(legs) = "EXIT" => Open(legs)
         /\ evaluate(legs) = "REBALANCE" => Open(legs) /\ ~is_balanced(legs)
         /\ evaluate(legs) # "BLOCKED" /\ Open(legs) => ~paused
  BY DEF evaluate, Blocked

\* Other quantities and marks within the limits are legs again.
LEMMA LegsUpdate ==
  ASSUME NEW l \in Legs, NEW x \in 0..Qty, NEW p \in Prices \union {0}
  PROVE  /\ [l EXCEPT !.perp = x, !.perp_mark = p] \in Legs
         /\ [l EXCEPT !.spot = x, !.spot_mark = p] \in Legs
  BY DEF Legs

\* The gap between two legs is a number.
LEMMA GapIsNat ==
  ASSUME NEW l \in Legs
  PROVE  Gap(l) \in Nat
<1>1. l.perp \in Nat /\ l.spot \in Nat
  BY Bounds DEF Legs
<1> QED
  BY <1>1 DEF Gap

\* A contract opened or closed narrows the gap of unequal legs.
LEMMA RebalanceNarrows ==
  ASSUME legs \in Legs, Open(legs), ~is_balanced(legs)
  PROVE  LET perp == IF legs.spot > legs.perp THEN legs.perp + 1 ELSE legs.perp - 1
         IN  /\ perp \in 0..Qty
             /\ \A p : Gap([legs EXCEPT !.perp = perp, !.perp_mark = p]) < Gap(legs)
  BY DeltaNeutralAssumption DEF Legs, Open, is_balanced, Gap

-----------------------------------------------------------------------------
(* Types *)

\* The two bounds hold of what they count.
LEMMA CountersKept ==
  ASSUME CountersOK, [Next]_vars
  PROVE  CountersOK'
<1> USE Bounds DEF CountersOK
<1>1. CASE Runner
  BY <1>1 DEF Runner, BeginHalted, Begin, CheckEnabled, CheckGates, CheckCommand,
              Preflight, CheckLatch, NoFunding, Wait, EnterPerp, EnterPerpFails,
              EnterSpot, EnterSpotFails, Exit, Rebalance, HandlerFails, Commit,
              CommitFails, FlattenBoth, FlattenFails, Flatten, ClearCommand,
              ClearCommandFails, Decide, Raises
<1>2. CASE Restart
  BY <1>2 DEF Restart
<1> QED
  BY <1>1, <1>2
  DEF Next, vars, SetKillSwitch, SetStrategyControl, RequestFlatten, OutsideMoves

\* Controls, market, memory and the iteration's place keep their types.
LEMMA FlagsKept ==
  ASSUME FlagsOK, [Next]_vars
  PROVE  FlagsOK'
<1> USE DEF FlagsOK, Flattening, controls, outside, memory
<1>1. CASE Runner
  <2>1. CASE \/ BeginHalted \/ Begin \/ CheckEnabled \/ CheckGates \/ CheckCommand
             \/ Preflight \/ CheckLatch
    BY <2>1 DEF BeginHalted, Begin, CheckEnabled, CheckGates, CheckCommand,
                Preflight, CheckLatch, Goto
  <2>2. CASE \/ NoFunding \/ Wait \/ EnterPerp \/ EnterPerpFails \/ Exit
             \/ Rebalance \/ HandlerFails
    BY <2>2 DEF NoFunding, Wait, EnterPerp, EnterPerpFails, Exit, Rebalance,
                HandlerFails, Decide, Resume, Return
  <2>3. CASE EnterSpot \/ EnterSpotFails \/ Commit \/ CommitFails
    BY <2>3 DEF EnterSpot, EnterSpotFails, Commit, CommitFails, Goto, Return
  <2>4. CASE FlattenBoth \/ FlattenFails \/ ClearCommand \/ ClearCommandFails
    BY <2>4 DEF FlattenBoth, FlattenFails, Flatten, ClearCommand,
                ClearCommandFails, Goto
  <2> QED
    BY <1>1, <2>1, <2>2, <2>3, <2>4 DEF Runner
<1>2. CASE Restart
  BY <1>2 DEF Restart, Return
<1>3. CASE SetKillSwitch \/ SetStrategyControl \/ RequestFlatten \/ OutsideMoves
  BY <1>3 DEF SetKillSwitch, SetStrategyControl, RequestFlatten, OutsideMoves
<1> QED
  BY <1>1, <1>2, <1>3 DEF Next, vars

-----------------------------------------------------------------------------
(* The legs and what is staged of them *)

\* A step that leaves the committed legs alone, and either does not touch what
\* is staged away from the handlers, or ends the iteration.
Unmoved ==
  /\ legs' = legs
  /\ \/ staged' = staged /\ pc' = pc
     \/ staged' = staged /\ pc \notin {"spot_leg", "commit"}
                         /\ pc' \notin {"spot_leg", "commit"}
     \/ staged' = legs /\ pc' = "idle"

\* Such a step keeps what the invariant says of the legs.
LEMMA UnmovedKeepsStaged ==
  ASSUME PositionsOK, StagedInv, Unmoved
  PROVE  PositionsOK' /\ StagedInv'
  BY DEF PositionsOK, StagedInv, Unmoved

\* Most steps write nothing to the session.
LEMMA UnmovedSteps ==
  ASSUME \/ BeginHalted \/ Begin \/ CheckEnabled \/ CheckGates \/ CheckCommand
         \/ Preflight \/ CheckLatch \/ NoFunding \/ Wait \/ EnterPerpFails
         \/ HandlerFails \/ CommitFails \/ FlattenFails \/ ClearCommand
         \/ ClearCommandFails \/ Restart \/ SetKillSwitch \/ SetStrategyControl
         \/ RequestFlatten \/ OutsideMoves
  PROVE  Unmoved
  BY DEF BeginHalted, Begin, CheckEnabled, CheckGates, CheckCommand, Preflight,
         CheckLatch, NoFunding, Wait, EnterPerpFails, HandlerFails, CommitFails,
         FlattenFails, Flatten, ClearCommand, ClearCommandFails, Restart,
         SetKillSwitch, SetStrategyControl, RequestFlatten, OutsideMoves, Decide,
         Goto, Return, Flattening, Unmoved

\* The others keep both views of the legs within the configured quantity.
LEMMA PositionsKept ==
  ASSUME TypeOK, StagedInv, [Next]_vars
  PROVE  PositionsOK' /\ StagedInv'
<1> USE DEF TypeOK
<1>1. CASE EnterPerp
  <2>1. ~Open(legs)
    BY <1>1, SignalGrounds DEF EnterPerp, Decide, PositionsOK
  <2>2. legs.perp = 0 /\ legs.spot = 0
    BY <2>1 DEF Open, Legs, PositionsOK
  <2>3. staged' = [legs EXCEPT !.perp = Qty, !.perp_mark = price]
    BY <1>1, <2>2, Bounds, Zenon DEF EnterPerp
  <2>4. staged' \in Legs
    BY <2>3, LegsUpdate, Bounds, Zenon DEF PositionsOK, FlagsOK
  <2>5. staged'.perp = Qty /\ staged'.spot = 0
    BY <2>2, <2>3 DEF PositionsOK, Legs
  <2> QED
    BY <1>1, <2>1, <2>4, <2>5 DEF EnterPerp, Decide, StagedInv, PositionsOK, Open
<1>2. CASE EnterSpot
  <2>1. staged' = [staged EXCEPT !.spot = Qty, !.spot_mark = staged.perp_mark]
    BY <1>2, Bounds, Zenon DEF EnterSpot, Goto, StagedInv
  <2>2. staged.perp_mark \in Prices \union {0}
    BY DEF PositionsOK, Legs
  <2>3. staged' \in Legs
    BY <2>1, <2>2, LegsUpdate, Bounds, Zenon DEF PositionsOK
  <2> QED
    BY <1>2, <2>3 DEF EnterSpot, Goto, StagedInv, PositionsOK, Open
<1>3. CASE EnterSpotFails
  BY <1>3 DEF EnterSpotFails, Return, StagedInv, PositionsOK, Open
<1>4. CASE Exit
  <2>1. staged' \in Legs
    BY <1>4, Bounds DEF Exit, Legs, FlagsOK
  <2>2. Gap(staged') = 0
    BY <1>4 DEF Exit, Gap
  <2>3. legs' = legs /\ Gap(legs) \in Nat
    BY <1>4, GapIsNat DEF Exit, Decide, PositionsOK
  <2> QED
    BY <1>4, <2>1, <2>2, <2>3 DEF Exit, StagedInv, PositionsOK
<1>5. CASE Rebalance
  <2> DEFINE perp == IF legs.spot > legs.perp THEN legs.perp + 1 ELSE legs.perp - 1
  <2>1. Open(legs) /\ ~is_balanced(legs)
    BY <1>5, SignalGrounds DEF Rebalance, Decide, PositionsOK
  <2>2. staged' = [legs EXCEPT !.perp = perp, !.perp_mark = price]
    BY <1>5 DEF Rebalance
  <2>3. perp \in 0..Qty
    BY <2>1, RebalanceNarrows DEF PositionsOK
  <2>4. staged' \in Legs
    BY <2>2, <2>3, LegsUpdate DEF PositionsOK, FlagsOK
  <2>5. Gap(staged') < Gap(legs)
    BY <2>1, <2>2, RebalanceNarrows DEF PositionsOK
  <2>6. legs' = legs /\ Gap(staged') \in Nat /\ Gap(legs) \in Nat
    BY <1>5, <2>4, GapIsNat DEF Rebalance, Decide, PositionsOK
  <2> QED
    BY <1>5, <2>4, <2>5, <2>6 DEF Rebalance, StagedInv, PositionsOK
<1>6. CASE Commit
  BY <1>6 DEF Commit, Goto, StagedInv, PositionsOK
<1>7. CASE FlattenBoth
  <2>1. legs' \in Legs
    BY <1>7, Bounds DEF FlattenBoth, Legs, FlagsOK
  <2> QED
    BY <1>7, <2>1 DEF FlattenBoth, Flatten, StagedInv, PositionsOK
<1>8. CASE UNCHANGED vars
  BY <1>8, UnmovedKeepsStaged DEF vars, Unmoved
<1> QED
  BY <1>1, <1>2, <1>3, <1>4, <1>5, <1>6, <1>7, <1>8, UnmovedSteps,
     UnmovedKeepsStaged DEF Next, Runner

\* Types and staging together are inductive.
LEMMA Invariant == Spec => [](TypeOK /\ StagedInv)
<1>1. Init => TypeOK /\ StagedInv
  <2> SUFFICES ASSUME Init PROVE TypeOK /\ StagedInv
    OBVIOUS
  <2>1. legs \in Legs /\ staged = legs
    <3>1. PICK l \in InitialLegs :
            legs = [perp |-> l[1], spot |-> l[2], perp_mark |-> price,
                    spot_mark |-> price]
      BY DEF Init
    <3>2. l \in (0..Qty) \X (0..Qty)
      BY DeltaNeutralAssumption
    <3> QED
      BY <3>1, <3>2 DEF Init, Legs
  <2>2. FlagsOK
    BY DEF Init, FlagsOK, Market
  <2>3. CountersOK
    BY Bounds DEF Init, CountersOK
  <2> QED
    BY <2>1, <2>2, <2>3 DEF Init, TypeOK, PositionsOK, StagedInv
<1>2. TypeOK /\ StagedInv /\ [Next]_vars => TypeOK' /\ StagedInv'
  BY CountersKept, FlagsKept, PositionsKept DEF TypeOK
<1> QED
  BY <1>1, <1>2, PTL DEF Spec

\* The runner's state keeps its types: no leg exceeds the quantity the runner
\* is configured with, whatever fails and whenever it is restarted.
THEOREM TypeCorrect == Spec => []TypeOK
  BY Invariant, PTL

-----------------------------------------------------------------------------
(* The hedge *)

\* The committed legs change at a commit or in an emergency flatten.
LEMMA LegsMove ==
  ASSUME [Next]_vars
  PROVE  legs' = legs \/ Commit \/ FlattenBoth
  BY UnmovedSteps
  DEF Next, vars, Runner, Unmoved, EnterPerp, EnterSpot, EnterSpotFails, Exit,
      Rebalance, Decide

(* No exit, rebalance or emergency flatten ever widens the gap between the *)
(* legs, however it fails: what an iteration commits was at most as far    *)
(* apart as what it found, unless it found no position and entered one.    *)
THEOREM HedgeOnlyBrokenByEntry == Spec => GapOnlyFromEntry
<1>1. TypeOK /\ StagedInv /\ [Next]_vars =>
        [Gap(legs') > Gap(legs) => ~Open(legs)]_vars
  <2> SUFFICES ASSUME TypeOK, StagedInv, Next
               PROVE  Gap(legs') > Gap(legs) => ~Open(legs)
    BY DEF vars
  <2>1. Gap(legs) \in Nat /\ Gap(staged) \in Nat
    BY GapIsNat DEF TypeOK, PositionsOK
  <2>2. CASE legs' = legs
    BY <2>1, <2>2
  <2>3. CASE Commit
    BY <2>1, <2>3 DEF Commit, Goto, StagedInv
  <2>4. CASE FlattenBoth
    <3>1. Gap(legs') = 0
      BY <2>4 DEF FlattenBoth, Gap
    <3> QED
      BY <2>1, <3>1
  <2> QED
    BY <2>2, <2>3, <2>4, LegsMove
<1> QED
  BY <1>1, Invariant, PTL DEF Spec, GapOnlyFromEntry

\* Equal legs that are open are balanced, and legs apart are open.
LEMMA GapFacts ==
  ASSUME NEW l \in Legs
  PROVE  /\ Gap(l) = 0 /\ Open(l) => is_balanced(l)
         /\ Gap(l) > 0 => Open(l)
<1>1. l.perp \in Nat /\ l.spot \in Nat
  BY Bounds DEF Legs
<1> QED
  BY <1>1 DEF Gap, Open, is_balanced

=============================================================================
