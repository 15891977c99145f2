----------------------------- MODULE TradingLedger -----------------------------
(***************************************************************************)
(* What the books of a paper account promise, whatever rows keep them: per *)
(* symbol a signed quantity and the cash its trades have taken or given,   *)
(* changed by trades inside a transaction that is settled or dropped as a  *)
(* whole.  Position rows with average prices and realized PnL implement    *)
(* it (FundingCapture.tla, PerpBooks.tla).                                 *)
(***************************************************************************)
EXTENDS Integers

CONSTANTS
  Symbols,
  Quantities,   (* signed quantities of one trade                          *)
  Prices,
  Erasable      (* whether an operator may clear the account               *)

VARIABLES
  settled,      (* the committed books                                     *)
  working       (* the books as the transaction under way has them         *)

books == <<settled, working>>

Flat == [s \in Symbols |-> [net |-> 0, cash |-> 0]]

Init == settled = Flat /\ working = Flat

Moves(s, q) == working'[s].net = working[s].net + q

Trade(s, q, p) ==
  /\ working' = [working EXCEPT ![s] = [net |-> @.net + q, cash |-> @.cash - q * p]]
  /\ UNCHANGED settled

Settle == settled' = working /\ UNCHANGED working

Drop == working' = settled /\ UNCHANGED settled

\* The trades of the transaction under way on some of the symbols.
Since(kept) ==
  [s \in Symbols |->
     IF s \in kept
     THEN [net |-> working[s].net - settled[s].net, cash |-> working[s].cash - settled[s].cash]
     ELSE Flat[s]]

\* The account is cleared.  Of the transaction under way some trades may stay,
\* to be settled with it or settled already; between two there are none.
Erase ==
  /\ Erasable
  /\ \E kept \in SUBSET Symbols : working' = Since(kept)
  /\ settled' \in {Flat, working'}

\* Moves follows from Trade; most steps are told not to be trades by it.
Next ==
  \/ \E s \in Symbols, q \in Quantities : Moves(s, q) /\ \E p \in Prices : Trade(s, q, p)
  \/ Settle \/ Drop \/ Erase

Spec == Init /\ [][Next]_books

=============================================================================
