--------------------------- MODULE MCMarketMaking ---------------------------
(***************************************************************************)
(* The market-making loop on books around 100.0 USD.                       *)
(***************************************************************************)
EXTENDS MarketMaking

\* Below a bid quoted around 1000, near it, above an offer.
SomeQuotes == {[bid |-> 978, ask |-> 982], [bid |-> 998, ask |-> 1002],
               [bid |-> 1022, ask |-> 1026]}
SomeLookbacks == {2, 3}
SomeConcavities == {100}

=============================================================================
