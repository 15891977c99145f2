----------------------- MODULE MCDeltaNeutralHistory -----------------------
(***************************************************************************)
(* The runner and its history for TLC, with the positions a process may    *)
(* find in the database when it starts.                                    *)
(***************************************************************************)
EXTENDS DeltaNeutralHistory

\* What earlier configurations and manual repairs may leave behind
\* ("update DB manually if needed", docs/RUNBOOK.md:27), and no position.
AnyStart == (0..Qty) \X (0..Qty)

=============================================================================
