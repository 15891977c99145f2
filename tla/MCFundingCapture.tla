--------------------------- MODULE MCFundingCapture ---------------------------
(***************************************************************************)
(* The funding-capture loop on a small market.  The prices are multiples   *)
(* of 12, so that every average over up to four contracts is whole.        *)
(***************************************************************************)
EXTENDS FundingCapture

\* At the exit threshold or below, between, at the entry threshold or above.
SomeRates == {0, 1, 2}
SomeMarks == {12}
LossLimit == -20
SomeFeeds == {"fresh"}
SomeBooks == {[age |-> "fresh", spread_bps |-> 1]}

\* The last is too dear for MaxNotional.
SomeQuotes == {[bid |-> 24, ask |-> 36], [bid |-> 36, ask |-> 48], [bid |-> 60, ask |-> 72]}

=============================================================================
