--------------------------- MODULE MCDeltaNeutral ---------------------------
(* The runner on a new account, for TLC.                                   *)
EXTENDS DeltaNeutral

FlatStart == {<<0, 0>>}

=============================================================================
