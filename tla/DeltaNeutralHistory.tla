------------------------ MODULE DeltaNeutralHistory ------------------------
(***************************************************************************)
(* DeltaNeutral.tla with three history variables, for properties that relate *)
(* what the runner does to what happened earlier.  They observe, and never *)
(* restrict, the runner's steps.                                           *)
(***************************************************************************)
EXTENDS DeltaNeutral

VARIABLES
  naked,      (* this process broke the hedge, and it is broken still       *)
  attempted,  (* this process has attempted an emergency flatten            *)
  halted      (* the runner was between two iterations since the kill       *)
              (* switch was last turned on                                  *)

hvars == <<vars, naked, attempted, halted>>

HInit ==
  /\ Init
  /\ naked = FALSE
  /\ attempted = FALSE
  /\ halted = FALSE

HNext ==
  /\ Next
  /\ naked' = (restarts' = restarts /\ Gap(legs') > 0 /\ (naked \/ Gap(legs) = 0))
  /\ attempted' = (restarts' = restarts /\ (attempted \/ pc \in Flattening))
  /\ halted' = (kill_switch' /\ (halted \/ pc = "idle" \/ pc' = "idle"))

HSpec == HInit /\ [][HNext]_hvars

Opens == legs'.perp > legs.perp \/ legs'.spot > legs.spot

(* A position that this process left with one leg is not traded on: the    *)
(* next time its legs change, an emergency flatten closes both.  (The      *)
(* pause that sees to it is forgotten at a restart.)                       *)
NakedLegOnlyFlattened == [][naked /\ legs' # legs => ~Open(legs')]_hvars

(* From an emergency flatten on, whatever came of it, this process opens   *)
(* nothing more until it is restarted ("flatten blocks all subsequent      *)
(* signals", tests/unit/test_dn_risk_controls.py:244).                     *)
NothingOpensAfterFlatten == [][attempted => ~Opens]_hvars

(* "Setting kill_switch_active=True stops all new fills within one         *)
(* iteration" (RISK_POLICY.md:188): only the iteration under way when the  *)
(* switch is turned on can still open a position.                          *)
KillSwitchStopsEntries == [][halted /\ kill_switch => ~Opens]_hvars

=============================================================================
