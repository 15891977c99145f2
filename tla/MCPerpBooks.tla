------------------------------ MODULE MCPerpBooks ------------------------------
(***************************************************************************)
(* The delta-neutral account on marks that are multiples of 12, so that    *)
(* averages and shares of margin are whole; accruals are two time steps    *)
(* apart and settlement windows three.                                     *)
(***************************************************************************)
EXTENDS PerpBooks

SomeContracts == {1, 3}
SomeMarks == {12, 24}
SomeRates == {-1, 2}

=============================================================================
