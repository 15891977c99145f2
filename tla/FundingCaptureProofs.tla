-------------------------- MODULE FundingCaptureProofs --------------------------
(***************************************************************************)
(* The funding-capture account, whatever is quoted, rejected, left pending *)
(* or rolled back: its position rows are the sums of its fills; the two of *)
(* them differ by the legs that were not filled; its records keep their    *)
(* types; the one way in which an unhedged book is committed in silence;   *)
(* and its rows implement a plain ledger.                                  *)
(***************************************************************************)
EXTENDS FundingCapture, PaperAccountProofs, FiniteSetTheorems

\* The fields of a database, as the session's writes address them.
Fields == {"pending", "rejected", "rejected_ts", "position", "filled", "realized", "paid"}

\* A database whose position rows are what its fills have made of them.
GoodBooks(w) ==
  /\ DOMAIN w = Fields
  /\ w.pending \in Seq(Intents)
  /\ DOMAIN w.position = Symbols /\ DOMAIN w.filled = Symbols
  /\ \A s \in Symbols : GoodRow(w.position[s]) /\ Net(w.position[s]) = w.filled[s]

IInv ==
  /\ GoodBooks(db) /\ GoodBooks(work)
  /\ tick \in [Symbols -> Quotes \union {NoQuote}]
  /\ iterations \in Nat

(* What the strategy asks for is a sequence of legs                         *)
(* (funding_capture.py:112-153).                                            *)
LEMMA LegsAreIntents ==
  ASSUME NEW ts \in Nat
  PROVE  _enter(ts) \in Seq(Intents) /\ _exit(ts) \in Seq(Intents)
<1>1. \A s \in Symbols, side \in Sides, r \in BOOLEAN : Leg(s, side, r, ts) \in Intents
  BY DEF Leg, Intents
<1>2. Spot \in Symbols /\ Perp \in Symbols /\ "buy" \in Sides /\ "sell" \in Sides
  BY DEF Symbols, Sides
<1>3. \A a, b \in Intents : <<a, b>> \in Seq(Intents)
  OBVIOUS
<1> QED
  BY <1>1, <1>2, <1>3, Zenon DEF _enter, _exit

(* An order is filled in full at a price that was quoted                    *)
(* (simulator.py:31-84).                                                    *)
LEMMA FillIsGood ==
  ASSUME NEW intent \in Intents, tick[intent.symbol] \in Quotes
  PROVE  GoodFill(FillOf(intent))
<1>1. intent.side \in Sides
  BY DEF Intents
<1>2. tick[intent.symbol].bid \in Nat \ {0} /\ tick[intent.symbol].ask \in Nat \ {0}
  BY FundingCaptureAssumption
<1>3. FillPrice(intent.side, tick[intent.symbol]) \in Nat \ {0}
  BY <1>2 DEF FillPrice
<1> QED
  BY <1>1, <1>3, FundingCaptureAssumption DEF GoodFill, FillOf

(* A fill adds the same quantity to the sum and to its row, and leaves the  *)
(* other symbol alone (execution_flow.py:126-168).                          *)
LEMMA FilledIsGood ==
  ASSUME NEW w, GoodBooks(w), w.pending # <<>>, NEW s \in Symbols,
         NEW fill, GoodFill(fill)
  PROVE  GoodBooks(Filled(w, s, fill))
<1> DEFINE row == update_position_from_fill(w.position[s], fill)
           after == Filled(w, s, fill)
<1>1. GoodRow(row) /\ Net(row) = w.filled[s] + Signed(fill)
  BY UpdateIsSum DEF GoodBooks
<1>2. Tail(w.pending) \in Seq(Intents)
  BY DEF GoodBooks
<1>3. /\ DOMAIN after = Fields
      /\ after.pending = Tail(w.pending)
      /\ after.position = [w.position EXCEPT ![s] = row]
      /\ after.filled = [w.filled EXCEPT ![s] = @ + Signed(fill)]
  BY Zenon DEF Filled, MarkFilled, GoodBooks, Fields
<1> HIDE DEF row, after
<1>4. \A r \in Symbols :
        /\ after.position[r] = IF r = s THEN row ELSE w.position[r]
        /\ after.filled[r] = IF r = s THEN w.filled[r] + Signed(fill) ELSE w.filled[r]
  BY <1>3, Zenon DEF GoodBooks
<1>5. DOMAIN after.position = Symbols /\ DOMAIN after.filled = Symbols
  BY <1>3, Zenon DEF GoodBooks
<1>6. \A r \in Symbols : GoodRow(after.position[r]) /\ Net(after.position[r]) = after.filled[r]
  BY <1>1, <1>4, Zenon DEF GoodBooks
<1>7. GoodBooks(after)
  BY <1>2, <1>3, <1>5, <1>6, Zenon DEF GoodBooks
<1> QED
  BY <1>7 DEF after

\* Writing another field, or queueing and dropping intents, moves no position.
LEMMA OthersKeepGood ==
  ASSUME NEW w, GoodBooks(w), NEW after, DOMAIN after = Fields,
         after.pending \in Seq(Intents), after.position = w.position, after.filled = w.filled
  PROVE  GoodBooks(after)
<1> QED
  BY Zenon DEF GoodBooks

\* The two halves of the induction.
LEMMA InitIsGood == ASSUME Init PROVE IInv
<1>1. db = work /\ tick \in [Symbols -> Quotes \union {NoQuote}] /\ iterations \in Nat
  BY DEF Init, Loaded
<1>2. /\ db.pending = <<>>
      /\ db.position = [s \in Symbols |-> NoRow] /\ db.filled = [s \in Symbols |-> 0]
  BY DEF Init
<1>3. DOMAIN db = Fields
  BY DEF Init, Fields
<1>4. GoodRow(NoRow)
  BY DEF GoodRow, NoRow, Rows, Sides
<1>5. Net(NoRow) = 0
  BY <1>4, NetOfEmpty DEF NoRow
<1>6. <<>> \in Seq(Intents)
  OBVIOUS
<1> QED
  BY <1>1, <1>2, <1>3, <1>4, <1>5, <1>6, Zenon DEF IInv, GoodBooks

\* Whatever the loop, a fault or the collector does next.
LEMMA StepIsGood ==
  ASSUME IInv, [Next]_vars
  PROVE  IInv'
<1>1. ASSUME NEW rate, NEW mark, EvaluateStrategy(rate, mark) PROVE IInv'
  <2> DEFINE asked == IF evaluate(work, rate) = "entered" THEN _enter(iterations)
                      ELSE IF evaluate(work, rate) = "exited" THEN _exit(iterations) ELSE <<>>
  <2>1. asked \in Seq(Intents)
    BY LegsAreIntents DEF IInv
  <2>2. /\ work' = [work EXCEPT !.pending = @ \o asked]
        /\ UNCHANGED <<db, tick, iterations>>
    BY <1>1 DEF EvaluateStrategy
  <2> HIDE DEF asked
  <2>3. /\ DOMAIN work' = Fields /\ work'.pending = work.pending \o asked
        /\ work'.position = work.position /\ work'.filled = work.filled
    BY <2>2, Zenon DEF IInv, GoodBooks, Fields
  <2>4. work.pending \o asked \in Seq(Intents)
    BY <2>1 DEF IInv, GoodBooks
  <2>5. GoodBooks(work')
    BY <2>3, <2>4, OthersKeepGood DEF IInv
  <2> QED
    BY <2>2, <2>5 DEF IInv
<1>2. ASSUME StopDraining PROVE IInv'
  BY <1>2 DEF StopDraining, IInv
<1>3. ASSUME NEW late, ExecuteOne(late) PROVE IInv'
  <2> DEFINE intent == Head(work.pending)
  <2>1. /\ work.pending # <<>> /\ tick[intent.symbol] # NoQuote
        /\ UNCHANGED <<db, tick, iterations>>
    BY <1>3 DEF ExecuteOne
  <2>2. intent \in Intents /\ Tail(work.pending) \in Seq(Intents)
    BY <2>1 DEF IInv, GoodBooks
  <2>3. intent.symbol \in Symbols
    BY <2>2 DEF Intents
  <2>4. tick[intent.symbol] \in Quotes
    BY <2>1, <2>3 DEF IInv
  <2>5. GoodFill(FillOf(intent))
    BY <2>2, <2>4, FillIsGood
  <2>6. CASE Refused(work, intent, late)
    <3>1. work' = [work EXCEPT !.pending = Tail(@),
                     !.rejected[intent.symbol] = @ + _signed_qty(intent.side, PositionSize),
                     !.rejected_ts = @ \union {intent.created}]
      BY <1>3, <2>6 DEF ExecuteOne
    <3>2. /\ DOMAIN work' = Fields /\ work'.pending = Tail(work.pending)
          /\ work'.position = work.position /\ work'.filled = work.filled
      BY <3>1, Zenon DEF IInv, GoodBooks, Fields
    <3>3. GoodBooks(work')
      BY <2>2, <3>2, OthersKeepGood DEF IInv
    <3> QED
      BY <2>1, <3>3 DEF IInv
  <2>7. CASE ~Refused(work, intent, late)
    <3>1. work' = Filled(work, intent.symbol, FillOf(intent))
      BY <1>3, <2>7 DEF ExecuteOne
    <3>2. GoodBooks(work')
      BY <2>1, <2>3, <2>5, <3>1, FilledIsGood DEF IInv
    <3> QED
      BY <2>1, <3>2 DEF IInv
  <2> QED
    BY <2>6, <2>7
<1>4. ASSUME accrue_funding_payment PROVE IInv'
  <2>1. /\ work' = [work EXCEPT !.paid = @ + Payment(work)]
        /\ UNCHANGED <<db, tick, iterations>>
    BY <1>4 DEF accrue_funding_payment
  <2>2. /\ DOMAIN work' = Fields /\ work'.pending = work.pending
        /\ work'.position = work.position /\ work'.filled = work.filled
    BY <2>1, Zenon DEF IInv, GoodBooks, Fields
  <2>3. GoodBooks(work')
    BY <2>2, OthersKeepGood DEF IInv, GoodBooks
  <2> QED
    BY <2>1, <2>3 DEF IInv
<1>5. ASSUME NEW feed, NEW book, NEW quiet, NEW start,
             EvaluateAlerts(feed, book, quiet, start)
      PROVE  IInv'
  BY <1>5 DEF EvaluateAlerts, IInv
<1>6. ASSUME Commit \/ IterationFails PROVE IInv'
  BY <1>6 DEF Commit, IterationFails, EndIteration, IInv
<1>7. ASSUME NEW quotes \in [Symbols -> Quotes], _poll_once(quotes) PROVE IInv'
  BY <1>7 DEF _poll_once, IInv
<1>8. ASSUME UNCHANGED vars PROVE IInv'
  BY <1>8 DEF vars, IInv
<1> QED
  BY <1>1, <1>2, <1>3, <1>4, <1>5, <1>6, <1>7, <1>8 DEF Next, Done

(* Through additions, reductions, reversals, rejections and rollbacks, for  *)
(* every size and every market, a position row is the signed sum of its     *)
(* symbol's fills and has an average exactly while it is open               *)
(* (position_tracker.py:22-101).                                            *)
THEOREM PositionsAreSums == Spec => []PositionIsSumOfFills
<1>1. IInv => PositionIsSumOfFills
  BY DEF IInv, GoodBooks, GoodRow, PositionIsSumOfFills
<1> QED
  BY <1>1, InitIsGood, StepIsGood, PTL DEF Spec

-----------------------------------------------------------------------------
(* The two positions differ by the legs that are pending or were rejected.  *)
(* Every intent is worth one signed position size; queueing, filling and    *)
(* rejecting only move that worth from one heading to another.              *)

\* Where in a queue the legs of one symbol and side are.
At(queue, s, side) ==
  {i \in DOMAIN queue : queue[i].symbol = s /\ queue[i].side = side}

\* What a queue is worth on one symbol, and what one leg is.
Owed(queue, s) ==
  PositionSize * (Cardinality(At(queue, s, "buy")) - Cardinality(At(queue, s, "sell")))

Worth(leg, s) == IF leg.symbol = s THEN _signed_qty(leg.side, PositionSize) ELSE 0

LEMMA AtFinite ==
  ASSUME NEW queue \in Seq(Intents), NEW s, NEW side
  PROVE  IsFiniteSet(At(queue, s, side)) /\ Cardinality(At(queue, s, side)) \in Nat
<1>1. At(queue, s, side) \in SUBSET (1..Len(queue)) /\ Len(queue) \in Nat
  BY DEF At
<1>2. IsFiniteSet(1..Len(queue))
  BY <1>1, FS_Interval
<1>3. IsFiniteSet(At(queue, s, side))
  BY <1>1, <1>2, FS_Subset, Zenon
<1> QED
  BY <1>3, FS_CardinalityType

\* The places of the tail's legs are those of the queue's, one further on.
LEMMA TailCount ==
  ASSUME NEW queue \in Seq(Intents), queue # <<>>, NEW s, NEW side
  PROVE  Cardinality(At(queue, s, side)) = Cardinality(At(Tail(queue), s, side))
           + (IF Head(queue).symbol = s /\ Head(queue).side = side THEN 1 ELSE 0)
<1> DEFINE later == At(queue, s, side) \ {1}
           shifted == At(Tail(queue), s, side)
           next == [i \in shifted |-> i + 1]
<1>1. /\ Len(queue) \in Nat /\ Len(queue) >= 1 /\ DOMAIN queue = 1..Len(queue)
      /\ DOMAIN Tail(queue) = 1..(Len(queue) - 1)
      /\ \A i \in 1..(Len(queue) - 1) : Tail(queue)[i] = queue[i + 1]
      /\ Head(queue) = queue[1]
  OBVIOUS
<1>2. \A i \in shifted : i \in Nat /\ i + 1 \in later
  BY <1>1 DEF At
<1>3. \A j \in later : j \in Nat /\ j - 1 \in shifted /\ (j - 1) + 1 = j
  BY <1>1 DEF At
<1> HIDE DEF later, shifted
<1>4. next \in Bijection(shifted, later)
  <2>1. next \in [shifted -> later]
    BY <1>2
  <2>2. \A i, j \in shifted : next[i] = next[j] => i = j
    BY <1>2
  <2>3. \A j \in later : \E i \in shifted : next[i] = j
    BY <1>3
  <2> QED
    BY <2>1, <2>2, <2>3 DEF Bijection, Injection, Surjection, IsInjective
<1>5. Tail(queue) \in Seq(Intents)
  OBVIOUS
<1>6. IsFiniteSet(shifted) /\ Cardinality(shifted) \in Nat
  BY <1>5, AtFinite DEF shifted
<1>7. Cardinality(later) = Cardinality(shifted)
  BY <1>4, <1>6, FS_Bijection DEF ExistsBijection
<1>8. 1 \in At(queue, s, side) <=> Head(queue).symbol = s /\ Head(queue).side = side
  BY <1>1 DEF At
<1>9. /\ Cardinality(At(queue, s, side)) \in Nat
      /\ Cardinality(later) = IF 1 \in At(queue, s, side)
                              THEN Cardinality(At(queue, s, side)) - 1
                              ELSE Cardinality(At(queue, s, side))
  BY AtFinite, FS_RemoveElement DEF later
<1> QED
  BY <1>6, <1>7, <1>8, <1>9 DEF shifted

LEMMA AppendCount ==
  ASSUME NEW queue \in Seq(Intents), NEW leg \in Intents, NEW s, NEW side
  PROVE  Cardinality(At(Append(queue, leg), s, side)) = Cardinality(At(queue, s, side))
           + (IF leg.symbol = s /\ leg.side = side THEN 1 ELSE 0)
<1> DEFINE last == Len(queue) + 1
           before == At(queue, s, side)
           after == At(Append(queue, leg), s, side)
<1>1. /\ Len(queue) \in Nat /\ DOMAIN queue = 1..Len(queue)
      /\ DOMAIN Append(queue, leg) = 1..last
      /\ \A i \in 1..Len(queue) : Append(queue, leg)[i] = queue[i]
      /\ Append(queue, leg)[last] = leg
  OBVIOUS
<1>2. last \notin before
  BY <1>1 DEF At
<1>3. after = IF leg.symbol = s /\ leg.side = side THEN before \union {last} ELSE before
  BY <1>1 DEF At
<1>4. IsFiniteSet(before) /\ Cardinality(before) \in Nat
  BY AtFinite
<1> HIDE DEF before, after, last
<1>5. Cardinality(before \union {last}) = Cardinality(before) + 1
  BY <1>2, <1>4, FS_AddElement
<1>6. Cardinality(after) = Cardinality(before)
        + (IF leg.symbol = s /\ leg.side = side THEN 1 ELSE 0)
  BY <1>3, <1>4, <1>5
<1> QED
  BY <1>6 DEF before, after

(* What a leg adds to a queue is its worth, and what goes with the head is  *)
(* the head's (execution_flow.py:29-57).                                    *)
LEMMA QueueWorth ==
  ASSUME NEW queue \in Seq(Intents), NEW s
  PROVE  /\ Owed(queue, s) \in Int
         /\ \A leg \in Intents : Worth(leg, s) \in Int
         /\ \A leg \in Intents : Owed(Append(queue, leg), s) = Owed(queue, s) + Worth(leg, s)
         /\ queue # <<>> => Owed(queue, s) = Owed(Tail(queue), s) + Worth(Head(queue), s)
<1> DEFINE Plus(n, b) == n + (IF b THEN 1 ELSE 0)
<1>1. PositionSize \in Nat
  BY FundingCaptureAssumption
<1>2. \A q \in Seq(Intents), side \in Sides : Cardinality(At(q, s, side)) \in Nat
  BY AtFinite
<1>3. \A q \in Seq(Intents) : Owed(q, s) \in Int
  BY <1>1, <1>2 DEF Owed, Sides
<1>4. \A leg \in Intents : leg.side \in {"buy", "sell"}
  BY DEF Intents, Sides
<1>5. \A leg \in Intents : Worth(leg, s) \in Int
  BY <1>1, <1>4 DEF Worth, _signed_qty
<1>6. \A m, n \in Nat, leg \in Intents :
        PositionSize * (Plus(m, leg.symbol = s /\ leg.side = "buy")
                        - Plus(n, leg.symbol = s /\ leg.side = "sell"))
          = PositionSize * (m - n) + Worth(leg, s)
  <2>1. \A m, n \in Nat : /\ PositionSize * (m + 1 - n) = PositionSize * (m - n) + PositionSize
                          /\ PositionSize * (m - (n + 1)) = PositionSize * (m - n) - PositionSize
                          /\ PositionSize * (m - n) \in Int
    BY <1>1
  <2> QED
    BY <1>1, <1>4, <2>1 DEF Worth, _signed_qty
<1>7. ASSUME NEW leg \in Intents
      PROVE  Owed(Append(queue, leg), s) = Owed(queue, s) + Worth(leg, s)
  <2>1. \A side \in Sides : Cardinality(At(Append(queue, leg), s, side))
          = Plus(Cardinality(At(queue, s, side)), leg.symbol = s /\ leg.side = side)
    BY AppendCount
  <2> QED
    BY <1>2, <1>6, <2>1 DEF Owed, Sides
<1>8. ASSUME queue # <<>>
      PROVE  Owed(queue, s) = Owed(Tail(queue), s) + Worth(Head(queue), s)
  <2>1. Tail(queue) \in Seq(Intents) /\ Head(queue) \in Intents
    BY <1>8
  <2>2. \A side \in Sides : Cardinality(At(queue, s, side))
          = Plus(Cardinality(At(Tail(queue), s, side)),
                 Head(queue).symbol = s /\ Head(queue).side = side)
    BY <1>8, TailCount
  <2> DEFINE head == Head(queue)
             bought == Cardinality(At(Tail(queue), s, "buy"))
             sold == Cardinality(At(Tail(queue), s, "sell"))
  <2>3. bought \in Nat /\ sold \in Nat /\ head \in Intents
    BY <1>2, <2>1 DEF Sides
  <2>4. Owed(queue, s) = PositionSize * (Plus(bought, head.symbol = s /\ head.side = "buy")
                                         - Plus(sold, head.symbol = s /\ head.side = "sell"))
    BY <2>2 DEF Owed, Sides
  <2>5. Owed(Tail(queue), s) = PositionSize * (bought - sold)
    BY DEF Owed
  <2> HIDE DEF head, bought, sold, Plus
  <2>6. Owed(queue, s) = PositionSize * (bought - sold) + Worth(head, s)
    BY <1>6, <2>3, <2>4, Zenon
  <2> QED
    BY <2>5, <2>6 DEF head
<1> QED
  BY <1>3, <1>5, <1>7, <1>8

(* The two legs of an entry or an exit cancel (funding_capture.py:112-153). *)
LEMMA PairsCancel ==
  ASSUME NEW queue \in Seq(Intents), NEW ts \in Nat, NEW legs \in {<<>>, _enter(ts), _exit(ts)}
  PROVE  Owed(queue \o legs, Spot) + Owed(queue \o legs, Perp)
           = Owed(queue, Spot) + Owed(queue, Perp)
<1>1. \A r \in BOOLEAN, side \in Sides : /\ Leg(Spot, side, r, ts) \in Intents
                                         /\ Leg(Perp, side, r, ts) \in Intents
  BY DEF Leg, Intents, Symbols
<1>2. ASSUME NEW a \in Intents, NEW b \in Intents,
             Worth(a, Spot) + Worth(b, Spot) + Worth(a, Perp) + Worth(b, Perp) = 0
      PROVE  Owed(queue \o <<a, b>>, Spot) + Owed(queue \o <<a, b>>, Perp)
               = Owed(queue, Spot) + Owed(queue, Perp)
  <2>1. queue \o <<a, b>> = Append(Append(queue, a), b) /\ Append(queue, a) \in Seq(Intents)
    OBVIOUS
  <2>2. \A s : /\ Owed(queue \o <<a, b>>, s) = Owed(queue, s) + Worth(a, s) + Worth(b, s)
               /\ Owed(queue, s) \in Int /\ Worth(a, s) \in Int /\ Worth(b, s) \in Int
    BY <2>1, QueueWorth
  <2> DEFINE spot == Owed(queue, Spot)
             perp == Owed(queue, Perp)
             w1 == Worth(a, Spot)
             w2 == Worth(b, Spot)
             w3 == Worth(a, Perp)
             w4 == Worth(b, Perp)
  <2>3. spot \in Int /\ perp \in Int /\ w1 \in Int /\ w2 \in Int /\ w3 \in Int /\ w4 \in Int
    BY <2>2
  <2>4. /\ Owed(queue \o <<a, b>>, Spot) = spot + w1 + w2
        /\ Owed(queue \o <<a, b>>, Perp) = perp + w3 + w4
    BY <2>2, Zenon
  <2>5. w1 + w2 + w3 + w4 = 0
    BY <1>2
  <2> HIDE DEF spot, perp, w1, w2, w3, w4
  <2>6. (spot + w1 + w2) + (perp + w3 + w4) = spot + perp
    BY <2>3, <2>5
  <2> QED
    BY <2>4, <2>6 DEF spot, perp
<1>3. \A a, b \in Intents :
        /\ a.symbol = Spot /\ b.symbol = Perp
        /\ {a.side, b.side} = {"buy", "sell"}
        => Worth(a, Spot) + Worth(b, Spot) + Worth(a, Perp) + Worth(b, Perp) = 0
  <2>1. PositionSize \in Nat
    BY FundingCaptureAssumption
  <2> SUFFICES ASSUME NEW a \in Intents, NEW b \in Intents, a.symbol = Spot, b.symbol = Perp,
                      {a.side, b.side} = {"buy", "sell"}
               PROVE  Worth(a, Spot) + Worth(b, Spot) + Worth(a, Perp) + Worth(b, Perp) = 0
    OBVIOUS
  <2>2. /\ Worth(a, Spot) = _signed_qty(a.side, PositionSize) /\ Worth(a, Perp) = 0
        /\ Worth(b, Perp) = _signed_qty(b.side, PositionSize) /\ Worth(b, Spot) = 0
    BY DEF Worth, Spot, Perp
  <2>3. (a.side = "buy" /\ b.side = "sell") \/ (a.side = "sell" /\ b.side = "buy")
    OBVIOUS
  <2> QED
    BY <2>1, <2>2, <2>3 DEF _signed_qty
<1>4. CASE legs = <<>>
  BY <1>4
<1>5. ASSUME NEW side \in Sides, NEW other \in Sides, side # other, NEW r \in BOOLEAN,
             legs = <<Leg(Spot, side, r, ts), Leg(Perp, other, r, ts)>>
      PROVE  Owed(queue \o legs, Spot) + Owed(queue \o legs, Perp)
               = Owed(queue, Spot) + Owed(queue, Perp)
  <2>1. /\ Leg(Spot, side, r, ts).symbol = Spot /\ Leg(Perp, other, r, ts).symbol = Perp
        /\ Leg(Spot, side, r, ts).side = side /\ Leg(Perp, other, r, ts).side = other
    BY DEF Leg
  <2>2. {side, other} = {"buy", "sell"}
    BY <1>5 DEF Sides
  <2> QED
    BY <1>1, <1>2, <1>3, <1>5, <2>1, <2>2
<1>6. "buy" \in Sides /\ "sell" \in Sides
  BY DEF Sides
<1> QED
  BY <1>4, <1>5, <1>6 DEF _enter, _exit

\* Sum of the fills, the pending and the rejected, of one symbol.
Asked(w, s) == w.filled[s] + Owed(w.pending, s) + w.rejected[s]

Paired(w) ==
  /\ DOMAIN w.rejected = Symbols
  /\ \A s \in Symbols : w.filled[s] \in Int /\ w.rejected[s] \in Int
  /\ Asked(w, Spot) + Asked(w, Perp) = 0

EInv == Paired(db) /\ Paired(work)

\* A session that moves the worth of the head elsewhere leaves the sum alone.
LEMMA HeadMoved ==
  ASSUME NEW w, GoodBooks(w), Paired(w), w.pending # <<>>, NEW after,
         after.pending = Tail(w.pending), DOMAIN after.rejected = Symbols,
         \A s \in Symbols :
           \/ /\ after.filled[s] = w.filled[s] + Worth(Head(w.pending), s)
              /\ after.rejected[s] = w.rejected[s]
           \/ /\ after.filled[s] = w.filled[s]
              /\ after.rejected[s] = w.rejected[s] + Worth(Head(w.pending), s)
  PROVE  Paired(after)
<1>1. w.pending \in Seq(Intents)
  BY DEF GoodBooks
<1>2. Head(w.pending) \in Intents /\ Tail(w.pending) \in Seq(Intents)
  BY <1>1
<1>3. \A s \in Symbols :
        /\ Worth(Head(w.pending), s) \in Int
        /\ Owed(Tail(w.pending), s) \in Int
        /\ Owed(w.pending, s) = Owed(Tail(w.pending), s) + Worth(Head(w.pending), s)
  BY <1>1, <1>2, QueueWorth
<1>4. \A s \in Symbols : /\ after.filled[s] \in Int /\ after.rejected[s] \in Int
                         /\ Asked(after, s) = Asked(w, s)
  <2> TAKE s \in Symbols
  <2>1. w.filled[s] \in Int /\ w.rejected[s] \in Int
    BY DEF Paired
  <2> QED
    BY <1>3, <2>1 DEF Asked
<1> QED
  BY <1>4 DEF Paired, Symbols

\* An empty queue owes nothing.
LEMMA EmptyOwed == \A s : Owed(<<>>, s) = 0
<1>1. \A s, side : At(<<>>, s, side) = {}
  BY DEF At
<1>2. PositionSize \in Nat
  BY FundingCaptureAssumption
<1>3. Cardinality({}) = 0
  BY FS_EmptySet
<1>4. PositionSize * (0 - 0) = 0
  BY <1>2
<1> QED
  BY <1>1, <1>3, <1>4, Zenon DEF Owed

LEMMA InitIsPaired == ASSUME Init PROVE EInv
<1>1. db = work /\ db.pending = <<>>
      /\ db.rejected = [s \in Symbols |-> 0] /\ db.filled = [s \in Symbols |-> 0]
  BY DEF Init
<1>2. \A s : Owed(<<>>, s) = 0
  BY EmptyOwed
<1> QED
  BY <1>1, <1>2 DEF EInv, Paired, Asked, Symbols

\* Whatever the loop, a fault or the collector does next.
LEMMA StepIsPaired ==
  ASSUME IInv, EInv, [Next]_vars
  PROVE  EInv'
<1>1. ASSUME NEW rate, NEW mark, EvaluateStrategy(rate, mark) PROVE EInv'
  <2> DEFINE asked == IF evaluate(work, rate) = "entered" THEN _enter(iterations)
                      ELSE IF evaluate(work, rate) = "exited" THEN _exit(iterations) ELSE <<>>
  <2>1. asked \in {<<>>, _enter(iterations), _exit(iterations)} /\ asked \in Seq(Intents)
    BY LegsAreIntents DEF IInv
  <2>2. work' = [work EXCEPT !.pending = @ \o asked] /\ db' = db
    BY <1>1 DEF EvaluateStrategy
  <2> HIDE DEF asked
  <2>3. /\ work'.pending = work.pending \o asked
        /\ work'.filled = work.filled /\ work'.rejected = work.rejected
    BY <2>2, Zenon DEF IInv, GoodBooks, Fields
  <2>4. work.pending \in Seq(Intents) /\ work.pending \o asked \in Seq(Intents)
    BY <2>1 DEF IInv, GoodBooks
  <2>5. \A s : Owed(work.pending, s) \in Int /\ Owed(work.pending \o asked, s) \in Int
    BY <2>4, QueueWorth
  <2>6. Owed(work.pending \o asked, Spot) + Owed(work.pending \o asked, Perp)
          = Owed(work.pending, Spot) + Owed(work.pending, Perp)
    BY <2>1, <2>4, PairsCancel DEF IInv
  <2> DEFINE old(s) == Owed(work.pending, s)
             new(s) == Owed(work.pending \o asked, s)
             done(s) == work.filled[s]
             lost(s) == work.rejected[s]
  <2>7. /\ \A s \in {Spot, Perp} : /\ old(s) \in Int /\ new(s) \in Int
                                   /\ done(s) \in Int /\ lost(s) \in Int
        /\ new(Spot) + new(Perp) = old(Spot) + old(Perp)
        /\ done(Spot) + old(Spot) + lost(Spot) + (done(Perp) + old(Perp) + lost(Perp)) = 0
    BY <2>5, <2>6 DEF EInv, Paired, Asked, Symbols
  <2>8. /\ Asked(work', Spot) = done(Spot) + new(Spot) + lost(Spot)
        /\ Asked(work', Perp) = done(Perp) + new(Perp) + lost(Perp)
    BY <2>3 DEF Asked
  <2> HIDE DEF old, new, done, lost
  <2>9. Asked(work', Spot) + Asked(work', Perp) = 0
    BY <2>7, <2>8
  <2>10. Paired(work')
    BY <2>3, <2>9 DEF EInv, Paired
  <2> QED
    BY <2>2, <2>10 DEF EInv
<1>2. ASSUME NEW late, ExecuteOne(late) PROVE EInv'
  <2> DEFINE intent == Head(work.pending)
             worth == _signed_qty(intent.side, PositionSize)
  <2>1. work.pending # <<>> /\ db' = db
    BY <1>2 DEF ExecuteOne
  <2>2. intent.symbol \in Symbols
    <3>1. work.pending \in Seq(Intents)
      BY DEF IInv, GoodBooks
    <3>2. intent \in Intents
      BY <2>1, <3>1
    <3> QED
      BY <3>2 DEF Intents
  <2>3. \A s \in Symbols : Worth(intent, s) = IF s = intent.symbol THEN worth ELSE 0
    BY DEF Worth
  <2>4. /\ \A s \in Symbols : work.filled[s] \in Int /\ work.rejected[s] \in Int
        /\ DOMAIN work.filled = Symbols /\ DOMAIN work.rejected = Symbols
    BY DEF IInv, EInv, GoodBooks, Paired
  <2>5. Signed(FillOf(intent)) = worth
    BY DEF Signed, FillOf
  <2> HIDE DEF intent, worth
  <2>6. CASE Refused(work, intent, late)
    <3>1. work' = [work EXCEPT !.pending = Tail(@), !.rejected[intent.symbol] = @ + worth,
                               !.rejected_ts = @ \union {intent.created}]
      BY <1>2, <2>6 DEF ExecuteOne, intent, worth
    <3>2. /\ work'.pending = Tail(work.pending) /\ work'.filled = work.filled
          /\ work'.rejected = [work.rejected EXCEPT ![intent.symbol] = @ + worth]
      BY <3>1, Zenon DEF IInv, GoodBooks, Fields
    <3>3. /\ DOMAIN work'.rejected = Symbols
          /\ \A s \in Symbols : work'.rejected[s] = work.rejected[s] + Worth(intent, s)
      BY <2>2, <2>3, <2>4, <3>2
    <3>4. Paired(work')
      BY <2>1, <3>2, <3>3, HeadMoved DEF IInv, EInv, intent
    <3> QED
      BY <2>1, <3>4 DEF EInv
  <2>7. CASE ~Refused(work, intent, late)
    <3>1. work' = Filled(work, intent.symbol, FillOf(intent))
      BY <1>2, <2>7 DEF ExecuteOne, intent
    <3>2. /\ work'.pending = Tail(work.pending) /\ work'.rejected = work.rejected
          /\ work'.filled = [work.filled EXCEPT ![intent.symbol] = @ + worth]
      BY <2>5, <3>1, Zenon DEF Filled, MarkFilled, IInv, GoodBooks, Fields
    <3>3. \A s \in Symbols : work'.filled[s] = work.filled[s] + Worth(intent, s)
      BY <2>2, <2>3, <2>4, <3>2
    <3>4. Paired(work')
      BY <2>1, <2>4, <3>2, <3>3, HeadMoved DEF IInv, EInv, intent
    <3> QED
      BY <2>1, <3>4 DEF EInv
  <2> QED
    BY <2>6, <2>7
<1>3. ASSUME accrue_funding_payment PROVE EInv'
  <2>1. work' = [work EXCEPT !.paid = @ + Payment(work)] /\ db' = db
    BY <1>3 DEF accrue_funding_payment
  <2>2. /\ work'.pending = work.pending /\ work'.rejected = work.rejected
        /\ work'.filled = work.filled
    BY <2>1, Zenon DEF IInv, GoodBooks, Fields
  <2> QED
    BY <2>1, <2>2 DEF EInv, Paired, Asked
<1>4. ASSUME Commit \/ IterationFails PROVE EInv'
  BY <1>4 DEF Commit, IterationFails, EInv
<1>5. ASSUME UNCHANGED <<db, work>> PROVE EInv'
  BY <1>5 DEF EInv
<1> QED
  BY <1>1, <1>2, <1>3, <1>4, <1>5
     DEF Next, StopDraining, EvaluateAlerts, _poll_once, Done, vars

(* Whatever is rejected, left without a tick or rolled back, the two        *)
(* positions differ by the legs that are still pending or were rejected,    *)
(* for every position size and every market (main.py:336-385,               *)
(* execution_flow.py:29-170).                                               *)
THEOREM ExposureIsAccounted == Spec => []ExposureIsUnfilledLegs
<1>1. EInv => ExposureIsUnfilledLegs
  BY DEF EInv, Paired, Asked, Owed, At, ExposureIsUnfilledLegs, Issued, PendingOf, Waiting
<1> QED
  BY <1>1, InitIsGood, StepIsGood, InitIsPaired, StepIsPaired, PTL DEF Spec

-----------------------------------------------------------------------------
(* Types.  An iteration under way has not been counted yet, and the counts  *)
(* and sums of a database stay whole numbers.                               *)

TInv ==
  /\ db \in Books /\ work \in Books
  /\ given \in [rate : FundingRates, mark : Marks] \union {NotGiven}
  /\ pc \in {"idle", "drain", "accrue", "alert", "commit"} /\ alerts \subseteq AlertTypes
  /\ window_start \in 0..MaxIterations
  /\ iterations \in Nat /\ iterations <= MaxIterations
  /\ pc # "idle" => iterations < MaxIterations
  /\ faults \in Nat /\ faults <= MaxFaults

(* Whatever an evaluator reads, what it raises are alerts                   *)
(* (evaluator.py:95-130).                                                   *)
LEMMA AlertsAreNamed ==
  ASSUME NEW r
  PROVE  evaluate_alerts(r) \subseteq AlertTypes
<1>1. \A name \in AlertTypes : \A condition : Alert(name, condition) \subseteq AlertTypes
  BY DEF Alert
<1>2. /\ _check_stale_funding_data(r) \subseteq AlertTypes
      /\ _check_stale_order_book(r) \subseteq AlertTypes
      /\ _check_spread_too_tight(r) \subseteq AlertTypes
      /\ _check_position_pnl_drawdown(r) \subseteq AlertTypes
      /\ _check_open_position_no_recent_fill(r) \subseteq AlertTypes
      /\ _check_no_funding_edge(r) \subseteq AlertTypes
      /\ _check_exchange_disconnected(r) \subseteq AlertTypes
      /\ _check_order_rejected(r) \subseteq AlertTypes
      /\ _check_strategy_disabled(r) \subseteq AlertTypes
      /\ _check_position_mismatch(r) \subseteq AlertTypes
      /\ \A flushed : _check_daily_loss_threshold_hit(r, flushed) \subseteq AlertTypes
  BY DEF Alert, AlertTypes, _check_stale_funding_data, _check_stale_order_book,
         _check_spread_too_tight, _check_position_pnl_drawdown,
         _check_open_position_no_recent_fill, _check_no_funding_edge,
         _check_exchange_disconnected, _check_order_rejected, _check_strategy_disabled,
         _check_position_mismatch, _check_daily_loss_threshold_hit
<1> QED
  BY <1>2 DEF evaluate_alerts

\* What a payment comes to, whatever the iteration was given.
LEMMA PaymentTyped ==
  ASSUME TInv, NEW w \in Books
  PROVE  Payment(w) \in Int
<1>1. given.mark \in Int /\ given.rate \in Int
  <2>1. Marks \subseteq Int /\ FundingRates \subseteq Int
    BY FundingCaptureAssumption
  <2>2. CASE given \in [rate : FundingRates, mark : Marks]
    BY <2>1, <2>2
  <2>3. CASE given = NotGiven
    BY <2>3 DEF NotGiven
  <2> QED
    BY <2>2, <2>3 DEF TInv
<1>2. w.position[Perp].quantity \in Int
  BY DEF Books, Rows, Symbols
<1>3. \A k, m, n \in Int : -(k * m * n) \in Int
  OBVIOUS
<1> QED
  BY <1>1, <1>2, <1>3 DEF Payment

\* Storing one field at a time keeps a database a database.
LEMMA FieldsStored ==
  ASSUME NEW w \in Books
  PROVE  /\ \A q \in Seq(Intents) : [w EXCEPT !.pending = q] \in Books
         /\ \A s \in Symbols, n \in Int : /\ [w EXCEPT !.rejected[s] = n] \in Books
                                          /\ [w EXCEPT !.realized[s] = n] \in Books
                                          /\ [w EXCEPT !.filled[s] = n] \in Books
         /\ \A s \in Symbols, row \in Rows : [w EXCEPT !.position[s] = row] \in Books
         /\ \A times \in SUBSET Nat : [w EXCEPT !.rejected_ts = times] \in Books
         /\ \A n \in Int : [w EXCEPT !.paid = n] \in Books
<1>1. \A q \in Seq(Intents) : [w EXCEPT !.pending = q] \in Books
  BY Zenon DEF Books
<1>2. \A f \in [Symbols -> Int], s \in Symbols, n \in Int : [f EXCEPT ![s] = n] \in [Symbols -> Int]
  OBVIOUS
<1>3. \A f \in [Symbols -> Rows], s \in Symbols, row \in Rows :
        [f EXCEPT ![s] = row] \in [Symbols -> Rows]
  OBVIOUS
<1>4. /\ \A f \in [Symbols -> Int] : /\ [w EXCEPT !.rejected = f] \in Books
                                     /\ [w EXCEPT !.realized = f] \in Books
                                     /\ [w EXCEPT !.filled = f] \in Books
      /\ \A f \in [Symbols -> Rows] : [w EXCEPT !.position = f] \in Books
      /\ \A times \in SUBSET Nat : [w EXCEPT !.rejected_ts = times] \in Books
      /\ \A n \in Int : [w EXCEPT !.paid = n] \in Books
  BY Zenon DEF Books
<1>5. /\ w.rejected \in [Symbols -> Int] /\ w.realized \in [Symbols -> Int]
      /\ w.filled \in [Symbols -> Int] /\ w.position \in [Symbols -> Rows]
  BY DEF Books
<1>6. \A s \in Symbols, n \in Int : /\ [w EXCEPT !.rejected[s] = n] \in Books
                                    /\ [w EXCEPT !.realized[s] = n] \in Books
                                    /\ [w EXCEPT !.filled[s] = n] \in Books
  BY <1>2, <1>4, <1>5, Zenon
<1>7. \A s \in Symbols, row \in Rows : [w EXCEPT !.position[s] = row] \in Books
  BY <1>3, <1>4, <1>5, Zenon
<1> QED
  BY <1>1, <1>4, <1>6, <1>7

(* A fill leaves a database of rows (execution_flow.py:126-168).            *)
LEMMA FilledTyped ==
  ASSUME NEW w \in Books, GoodBooks(w), w.pending # <<>>, NEW s \in Symbols,
         NEW fill, GoodFill(fill)
  PROVE  Filled(w, s, fill) \in Books
<1> DEFINE row == update_position_from_fill(w.position[s], fill)
           gain == _compute_realized_pnl(w.position[s], fill)
           w1 == [w EXCEPT !.pending = MarkFilled(@)]
           w2 == [w1 EXCEPT !.position[s] = row]
           w3 == [w2 EXCEPT !.realized[s] = @ + gain]
           w4 == [w3 EXCEPT !.filled[s] = @ + Signed(fill)]
<1>1. Tail(w.pending) \in Seq(Intents)
  BY DEF GoodBooks
<1>2. row \in Rows /\ gain \in Int
  BY UpdateIsSum, RealizedIsInteger DEF GoodBooks, GoodRow
<1>3. Signed(fill) \in Int
  BY DEF Signed, _signed_qty, GoodFill
<1>4. Filled(w, s, fill) = w4
  BY DEF Filled
<1> HIDE DEF row, gain
<1>5. w1 \in Books
  BY <1>1, FieldsStored DEF MarkFilled
<1> HIDE DEF w1
<1>6. w2 \in Books
  BY <1>2, <1>5, FieldsStored
<1> HIDE DEF w2
<1>7. w3 \in Books
  <2>1. w2.realized[s] + gain \in Int
    BY <1>2, <1>6 DEF Books
  <2> QED
    BY <1>6, <2>1, FieldsStored
<1> HIDE DEF w3
<1>8. w4 \in Books
  <2>1. w3.filled[s] + Signed(fill) \in Int
    BY <1>3, <1>7 DEF Books
  <2> QED
    BY <1>7, <2>1, FieldsStored
<1> QED
  BY <1>4, <1>8

(* A rejection is a row of its own (execution_flow.py:59-90).               *)
LEMMA RejectedTyped ==
  ASSUME NEW w \in Books, w.pending # <<>>, NEW s \in Symbols, NEW side,
         NEW ts \in Nat
  PROVE  [w EXCEPT !.pending = Tail(@),
                   !.rejected[s] = @ + _signed_qty(side, PositionSize),
                   !.rejected_ts = @ \union {ts}] \in Books
<1> DEFINE w1 == [w EXCEPT !.pending = Tail(@)]
           w2 == [w1 EXCEPT !.rejected[s] = @ + _signed_qty(side, PositionSize)]
           w3 == [w2 EXCEPT !.rejected_ts = @ \union {ts}]
<1>1. w.pending \in Seq(Intents)
  BY DEF Books
<1>2. w1 \in Books
  <2>1. Tail(w.pending) \in Seq(Intents)
    BY <1>1
  <2> QED
    BY <2>1, FieldsStored
<1>3. _signed_qty(side, PositionSize) \in Int
  BY FundingCaptureAssumption DEF _signed_qty
<1> HIDE DEF w1
<1>4. w2 \in Books
  <2>1. w1.rejected[s] + _signed_qty(side, PositionSize) \in Int
    BY <1>2, <1>3 DEF Books
  <2> QED
    BY <1>2, <2>1, FieldsStored
<1> HIDE DEF w2
<1>5. w3 \in Books
  <2>1. w2.rejected_ts \union {ts} \in SUBSET Nat
    BY <1>4 DEF Books
  <2> QED
    BY <1>4, <2>1, FieldsStored
<1> QED
  BY <1>5 DEF w1, w2

LEMMA InitTyped == ASSUME Init PROVE TInv
<1>1. <<>> \in Seq(Intents) /\ NoRow \in Rows
  BY DEF NoRow, Rows
<1>2. db \in Books /\ work = db
  BY <1>1 DEF Init, Books
<1> QED
  BY <1>2, FundingCaptureAssumption DEF Init, TInv

\* Whatever the loop, a fault or the collector does next.
LEMMA StepTyped ==
  ASSUME IInv, TInv, [Next]_vars
  PROVE  TInv'
<1>1. ASSUME NEW rate \in FundingRates, NEW mark \in Marks, EvaluateStrategy(rate, mark)
      PROVE  TInv'
  <2> DEFINE asked == IF evaluate(work, rate) = "entered" THEN _enter(iterations)
                      ELSE IF evaluate(work, rate) = "exited" THEN _exit(iterations) ELSE <<>>
  <2>1. asked \in Seq(Intents)
    BY LegsAreIntents DEF IInv
  <2>2. work' = [work EXCEPT !.pending = @ \o asked]
    BY <1>1 DEF EvaluateStrategy
  <2> HIDE DEF asked
  <2>3. work' \in Books
    <3>1. work.pending \o asked \in Seq(Intents)
      BY <2>1 DEF TInv, Books
    <3> QED
      BY <2>2, <3>1, FieldsStored DEF TInv
  <2>4. given' \in [rate : FundingRates, mark : Marks]
    BY <1>1 DEF EvaluateStrategy
  <2>5. /\ UNCHANGED <<db, alerts, window_start, iterations, faults>> /\ iterations < MaxIterations
        /\ pc' \in {"drain", "accrue"}
    BY <1>1 DEF EvaluateStrategy, Goto
  <2> QED
    BY <2>3, <2>4, <2>5 DEF TInv
<1>2. ASSUME StopDraining PROVE TInv'
  BY <1>2 DEF StopDraining, Goto, TInv
<1>3. ASSUME NEW late, ExecuteOne(late) PROVE TInv'
  <2> DEFINE intent == Head(work.pending)
  <2>1. /\ work.pending # <<>> /\ tick[intent.symbol] # NoQuote
        /\ UNCHANGED <<db, given, alerts, window_start, iterations, faults>>
        /\ pc = "drain" /\ pc' \in {"drain", "accrue"}
    BY <1>3 DEF ExecuteOne
  <2>2. intent \in Intents
    BY <2>1 DEF IInv, GoodBooks
  <2>3. intent.symbol \in Symbols
    BY <2>2 DEF Intents
  <2>4. work' \in Books
    <3>1. CASE Refused(work, intent, late)
      <4>1. work' = [work EXCEPT !.pending = Tail(@),
                       !.rejected[intent.symbol] = @ + _signed_qty(intent.side, PositionSize),
                       !.rejected_ts = @ \union {intent.created}]
        BY <1>3, <3>1 DEF ExecuteOne
      <4>2. intent.created \in Nat
        BY <2>2 DEF Intents
      <4> QED
        BY <2>1, <2>3, <4>1, <4>2, RejectedTyped, Zenon DEF TInv
    <3>2. CASE ~Refused(work, intent, late)
      <4>1. work' = Filled(work, intent.symbol, FillOf(intent))
        BY <1>3, <3>2 DEF ExecuteOne
      <4>2. GoodFill(FillOf(intent))
        BY <2>1, <2>2, <2>3, FillIsGood DEF IInv
      <4> QED
        BY <2>1, <2>3, <4>1, <4>2, FilledTyped DEF TInv, IInv
    <3> QED
      BY <3>1, <3>2
  <2> HIDE DEF intent
  <2> QED
    BY <2>1, <2>4 DEF TInv
<1>4. ASSUME accrue_funding_payment PROVE TInv'
  <2>1. work.paid + Payment(work) \in Int
    <3>1. work \in Books /\ work.paid \in Int
      BY DEF TInv, Books
    <3>2. Payment(work) \in Int
      BY <3>1, PaymentTyped
    <3> QED
      BY <3>1, <3>2
  <2>2. work' \in Books
    BY <1>4, <2>1, FieldsStored DEF accrue_funding_payment, TInv
  <2> QED
    BY <1>4, <2>2 DEF accrue_funding_payment, Goto, TInv
<1>5. ASSUME NEW feed, NEW book, NEW quiet, NEW start \in 0..(iterations + 1),
             EvaluateAlerts(feed, book, quiet, start)
      PROVE  TInv'
  <2>1. start \in 0..MaxIterations
    BY <1>5, FundingCaptureAssumption DEF EvaluateAlerts, Goto, TInv
  <2> QED
    BY <1>5, <2>1, AlertsAreNamed DEF EvaluateAlerts, Goto, TInv
<1>6. ASSUME Commit \/ IterationFails PROVE TInv'
  BY <1>6, FundingCaptureAssumption DEF Commit, IterationFails, EndIteration, TInv
<1>7. ASSUME NEW quotes, _poll_once(quotes) PROVE TInv'
  BY <1>7 DEF _poll_once, TInv
<1>8. ASSUME UNCHANGED vars PROVE TInv'
  BY <1>8 DEF vars, TInv
<1> QED
  BY <1>1, <1>2, <1>3, <1>4, <1>5, <1>6, <1>7, <1>8 DEF Next, Done

(* Rows stay rows of numbers, sums stay whole numbers, alerts stay alerts,  *)
(* for every market and every configuration (models.py, main.py:227-312).   *)
THEOREM TypeCorrect == Spec => []TypeOK
<1>1. IInv /\ TInv => TypeOK
  BY FundingCaptureAssumption DEF IInv, TInv, TypeOK
<1> QED
  BY <1>1, InitIsGood, StepIsGood, InitTyped, StepTyped, PTL DEF Spec

-----------------------------------------------------------------------------
(* An unhedged book is alarmed.  The positions are multiples of one size,   *)
(* so their quantities are equal or differ by more than the tolerance.      *)
(* Equal legs on one side need a rejection: until there is one the queue    *)
(* holds whole pairs, or begins with the second leg of one, and the         *)
(* positions differ by at most one leg.                                     *)

\* A spot leg is followed by its opposite perp leg, and that by another pair.
Matched(queue) ==
  \A i \in 1..Len(queue) :
    /\ queue[i].symbol = Spot =>
         i < Len(queue) /\ queue[i + 1].symbol = Perp /\ queue[i + 1].side # queue[i].side
    /\ queue[i].symbol = Perp /\ i < Len(queue) => queue[i + 1].symbol = Spot

\* What a queue owes on both symbols, and what it owes when it is matched.
Total(queue) == Owed(queue, Spot) + Owed(queue, Perp)

HalfDone(queue) ==
  IF queue # <<>> /\ Head(queue).symbol = Perp THEN Worth(Head(queue), Perp) ELSE 0

InPairs(queue) == Matched(queue) /\ Total(queue) = HalfDone(queue)

\* Positions are multiples of one size; a queue nothing was taken from is paired.
Stepwise(w) ==
  /\ \A s \in Symbols : \E k \in Int : w.filled[s] = k * PositionSize
  /\ w.rejected_ts = {} => w.rejected[Spot] = 0 /\ w.rejected[Perp] = 0 /\ InPairs(w.pending)

AInv == Stepwise(db) /\ Stepwise(work) /\ UnhedgedIsAlarmed

(* The head of a paired queue leaves a paired queue                         *)
(* (execution_flow.py:29-57).                                               *)
LEMMA TailInPairs ==
  ASSUME NEW queue \in Seq(Intents), queue # <<>>, InPairs(queue)
  PROVE  InPairs(Tail(queue))
<1>1. /\ Len(queue) \in Nat /\ Len(queue) >= 1 /\ Head(queue) = queue[1]
      /\ \A i \in 1..Len(queue) : queue[i] \in Intents
      /\ Tail(queue) \in Seq(Intents) /\ Len(Tail(queue)) = Len(queue) - 1
      /\ \A i \in 1..(Len(queue) - 1) : Tail(queue)[i] = queue[i + 1]
      /\ Len(queue) > 1 => Tail(queue) # <<>> /\ Head(Tail(queue)) = queue[2]
      /\ Len(queue) = 1 => Tail(queue) = <<>>
  <2>1. /\ Len(queue) \in Nat /\ Len(queue) >= 1 /\ Head(queue) = queue[1]
        /\ \A i \in 1..Len(queue) : queue[i] \in Intents
        /\ Tail(queue) \in Seq(Intents) /\ Len(Tail(queue)) = Len(queue) - 1
        /\ \A i \in 1..(Len(queue) - 1) : Tail(queue)[i] = queue[i + 1]
    OBVIOUS
  <2>2. \A rest \in Seq(Intents) : /\ Len(rest) > 0 => rest # <<>> /\ Head(rest) = rest[1]
                                   /\ Len(rest) = 0 => rest = <<>>
    OBVIOUS
  <2>3. Len(queue) > 1 => Tail(queue)[1] = queue[2]
    BY <2>1
  <2> QED
    BY <2>1, <2>2, <2>3
<1>2. Matched(Tail(queue))
  BY <1>1 DEF InPairs, Matched
<1>3. /\ Head(queue) \in Intents /\ Head(queue).symbol \in {Spot, Perp}
      /\ Head(queue).side \in {"buy", "sell"}
  BY <1>1 DEF Intents, Symbols, Sides
<1>4. \A s : /\ Owed(queue, s) = Owed(Tail(queue), s) + Worth(Head(queue), s)
             /\ Owed(Tail(queue), s) \in Int /\ Worth(Head(queue), s) \in Int
  BY <1>1, <1>3, QueueWorth
<1>5. Total(queue) = Total(Tail(queue)) + Worth(Head(queue), Spot) + Worth(Head(queue), Perp)
      /\ Total(Tail(queue)) \in Int
      /\ Worth(Head(queue), Spot) \in Int /\ Worth(Head(queue), Perp) \in Int
  BY <1>4 DEF Total
<1>6. Total(queue) = HalfDone(queue)
  BY DEF InPairs
<1>7. Spot # Perp
  BY DEF Spot, Perp
<1>8. CASE Head(queue).symbol = Spot
  <2>1. /\ Len(queue) > 1 /\ queue[2].symbol = Perp
        /\ queue[2].side # Head(queue).side /\ queue[2] \in Intents
    BY <1>1, <1>8 DEF InPairs, Matched
  <2>2. queue[2].side \in {"buy", "sell"}
    BY <2>1 DEF Intents, Sides
  <2>3. HalfDone(Tail(queue)) = Worth(queue[2], Perp) /\ HalfDone(queue) = 0
    BY <1>1, <1>7, <1>8, <2>1 DEF HalfDone
  <2>4. Worth(queue[2], Perp) = - Worth(Head(queue), Spot) /\ Worth(Head(queue), Perp) = 0
    <3>1. PositionSize \in Nat
      BY FundingCaptureAssumption
    <3> QED
      BY <1>3, <1>7, <1>8, <2>1, <2>2, <3>1 DEF Worth, _signed_qty
  <2>5. Total(Tail(queue)) = HalfDone(Tail(queue))
    <3>1. \A t, a, b \in Int : 0 = t + a + b /\ b = 0 => t = -a
      OBVIOUS
    <3>2. 0 = Total(Tail(queue)) + Worth(Head(queue), Spot) + Worth(Head(queue), Perp)
      BY <1>5, <1>6, <2>3, Zenon
    <3>3. Total(Tail(queue)) = - Worth(Head(queue), Spot)
      BY <1>5, <2>4, <3>1, <3>2
    <3> QED
      BY <2>3, <2>4, <3>3, Zenon
  <2> QED
    BY <1>2, <2>5 DEF InPairs
<1>9. CASE Head(queue).symbol = Perp
  <2>1. HalfDone(queue) = Worth(Head(queue), Perp) /\ Worth(Head(queue), Spot) = 0
    BY <1>7, <1>9 DEF HalfDone, Worth
  <2>2. HalfDone(Tail(queue)) = 0
    <3>1. Len(queue) > 1 => queue[2].symbol = Spot
      BY <1>1, <1>9 DEF InPairs, Matched
    <3> QED
      BY <1>1, <1>7, <3>1 DEF HalfDone
  <2>3. Total(Tail(queue)) = HalfDone(Tail(queue))
    BY <1>5, <1>6, <2>1, <2>2
  <2> QED
    BY <1>2, <2>3 DEF InPairs
<1> QED
  BY <1>3, <1>8, <1>9

(* An entry or an exit adds a pair (funding_capture.py:112-153).            *)
LEMMA PairQueued ==
  ASSUME NEW queue \in Seq(Intents), InPairs(queue),
         NEW ts \in Nat, NEW legs \in {<<>>, _enter(ts), _exit(ts)}
  PROVE  InPairs(queue \o legs)
<1>1. Spot # Perp
  BY DEF Spot, Perp
<1>2. Total(queue \o legs) = Total(queue)
  BY PairsCancel DEF Total
<1>3. ASSUME NEW a \in Intents, NEW b \in Intents, legs = <<a, b>>,
             a.symbol = Spot, b.symbol = Perp, b.side # a.side
      PROVE  InPairs(queue \o legs)
  <2> DEFINE n == Len(queue)
             longer == queue \o legs
  <2>1. /\ n \in Nat /\ Len(longer) = n + 2 /\ longer[n + 1] = a /\ longer[n + 2] = b
        /\ \A i \in 1..n : longer[i] = queue[i] /\ queue[i] \in Intents
        /\ longer # <<>> /\ Head(longer) = longer[1]
        /\ queue # <<>> => n >= 1 /\ Head(queue) = queue[1]
        /\ queue = <<>> => n = 0
    BY <1>3
  <2> HIDE DEF longer
  <2>2. \A i \in 1..n : queue[i].symbol \in {Spot, Perp}
    BY <2>1 DEF Intents, Symbols
  <2>3. Matched(longer)
    <3> SUFFICES ASSUME NEW i \in 1..(n + 2)
                 PROVE  /\ longer[i].symbol = Spot =>
                             /\ i < n + 2 /\ longer[i + 1].symbol = Perp
                             /\ longer[i + 1].side # longer[i].side
                        /\ longer[i].symbol = Perp /\ i < n + 2 => longer[i + 1].symbol = Spot
      BY <2>1 DEF Matched
    <3>1. CASE i < n
      BY <2>1, <3>1 DEF InPairs, Matched
    <3>2. CASE i = n
      BY <1>3, <2>1, <2>2, <3>2 DEF InPairs, Matched
    <3>3. CASE i = n + 1 \/ i = n + 2
      BY <1>1, <1>3, <2>1, <3>3
    <3> QED
      BY <2>1, <3>1, <3>2, <3>3
  <2>4. HalfDone(longer) = HalfDone(queue)
    <3>1. CASE queue = <<>>
      BY <1>1, <1>3, <2>1, <3>1 DEF HalfDone
    <3>2. CASE queue # <<>>
      BY <2>1, <3>2 DEF HalfDone
    <3> QED
      BY <3>1, <3>2
  <2> QED
    BY <1>2, <2>3, <2>4 DEF InPairs, longer
<1>4. CASE legs = <<>>
  BY <1>4
<1>5. ASSUME NEW side \in Sides, NEW other \in Sides, other # side, NEW r \in BOOLEAN,
             legs = <<Leg(Spot, side, r, ts), Leg(Perp, other, r, ts)>>
      PROVE  InPairs(queue \o legs)
  <2>1. /\ Leg(Spot, side, r, ts) \in Intents /\ Leg(Spot, side, r, ts).symbol = Spot
        /\ Leg(Perp, other, r, ts) \in Intents /\ Leg(Perp, other, r, ts).symbol = Perp
        /\ Leg(Spot, side, r, ts).side = side /\ Leg(Perp, other, r, ts).side = other
    BY DEF Leg, Intents, Symbols
  <2> QED
    BY <1>3, <1>5, <2>1, Zenon
<1>6. "buy" \in Sides /\ "sell" \in Sides
  BY DEF Sides
<1> QED
  BY <1>4, <1>5, <1>6 DEF _enter, _exit

(* Two multiples of one size that differ in quantity differ by at least     *)
(* that size (evaluator.py:487-504).                                        *)
LEMMA MismatchSeen ==
  ASSUME MismatchTolerance < PositionSize, NEW k \in Int, NEW l \in Int, k # l, k # -l,
         NEW spot, NEW perp, spot = k * PositionSize, perp = l * PositionSize
  PROVE  Abs(Abs(spot) - Abs(perp)) > MismatchTolerance
<1> DEFINE size == PositionSize
           m == IF k >= 0 THEN k ELSE -k
           n == IF l >= 0 THEN l ELSE -l
<1>1. size \in Nat /\ size > 0 /\ MismatchTolerance \in Nat /\ MismatchTolerance < size
  BY FundingCaptureAssumption, AlertAssumption
<1>2. m \in Nat /\ n \in Nat /\ m # n
  OBVIOUS
<1>3. \A j \in Int : /\ (-j) * size = -(j * size) /\ j * size \in Int
                     /\ j >= 0 => j * size >= 0
                     /\ j <= 0 => j * size <= 0
  BY <1>1
<1>4. ASSUME NEW j \in Int
      PROVE  Abs(j * size) = (IF j >= 0 THEN j ELSE -j) * size
  <2> DEFINE x == j * size
             y == (-j) * size
  <2>1. x \in Int /\ y = -x /\ (j >= 0 => x >= 0) /\ (j <= 0 => x <= 0)
    BY <1>3
  <2> HIDE DEF size
  <2>2. CASE j >= 0
    <3> HIDE DEF x, y
    <3>1. Abs(x) = x
      BY <2>1, <2>2 DEF Abs
    <3> QED
      BY <2>2, <3>1 DEF x
  <2>3. CASE ~(j >= 0)
    <3>1. j <= 0
      BY <2>3
    <3> HIDE DEF x, y
    <3>2. Abs(x) = y
      BY <2>1, <3>1 DEF Abs
    <3> QED
      BY <2>3, <3>2 DEF x, y
  <2> QED
    BY <2>2, <2>3
<1>5. Abs(spot) = m * size /\ Abs(perp) = n * size
  BY <1>4
<1> HIDE DEF size, m, n
<1>6. \A i, j \in Nat : i > j => i * size - j * size >= size
  <2>1. \A i, j \in Nat : i * size - j * size = (i - j) * size
    BY <1>1
  <2>2. \A d \in Nat : d >= 1 => d * size >= size
    BY <1>1
  <2> QED
    BY <2>1, <2>2
<1>7. m * size \in Int /\ n * size \in Int
  BY <1>1, <1>2
<1>8. m * size - n * size >= size \/ n * size - m * size >= size
  BY <1>2, <1>6
<1>9. \A x, y \in Int : x - y >= size \/ y - x >= size => Abs(x - y) > MismatchTolerance
  BY <1>1 DEF Abs
<1> QED
  BY <1>5, <1>7, <1>8, <1>9

\* What is raised on a rejection, and on legs of different quantity.
LEMMA AlarmsRaised ==
  ASSUME NEW r
  PROVE  /\ r.rejections # {} => "order_rejected" \in evaluate_alerts(r)
         /\ Abs(Abs(r.spot) - Abs(r.perp)) > MismatchTolerance
              => "position_mismatch" \in evaluate_alerts(r)
<1>1. r.rejections # {} => "order_rejected" \in _check_order_rejected(r)
  BY DEF _check_order_rejected, Alert
<1>2. Abs(Abs(r.spot) - Abs(r.perp)) > MismatchTolerance
        => "position_mismatch" \in _check_position_mismatch(r)
  BY DEF _check_position_mismatch, Alert
<1>3. /\ _check_order_rejected(r) \subseteq evaluate_alerts(r)
      /\ _check_position_mismatch(r) \subseteq evaluate_alerts(r)
  BY Zenon DEF evaluate_alerts
<1> QED
  BY <1>1, <1>2, <1>3

\* A leg that is still to be filled leaves no two equal legs on one side.
LEMMA HalfPairIsUneven ==
  ASSUME NEW k \in Int, k * PositionSize + k * PositionSize \in {PositionSize, -PositionSize}
  PROVE  FALSE
<1> DEFINE size == PositionSize
           x == k * size
<1>1. size \in Nat /\ size > 0
  BY FundingCaptureAssumption
<1>2. x + x = size \/ x + x = -size
  OBVIOUS
<1> HIDE DEF size
<1>3. x \in Int /\ (k >= 1 => x >= size) /\ (k = 0 => x = 0)
  BY <1>1
<1>4. k <= -1 => x <= -size
  <2>1. \A j \in Nat : j >= 1 => j * size >= size
    BY <1>1
  <2>2. (-k) * size = -x
    BY <1>1
  <2>3. k <= -1 => -k \in Nat /\ -k >= 1
    OBVIOUS
  <2>4. k <= -1 => -x >= size
    BY <2>1, <2>2, <2>3, Zenon
  <2> HIDE DEF x
  <2> QED
    BY <1>1, <1>3, <2>4
<1> HIDE DEF x
<1>5. k >= 1 \/ k = 0 \/ k <= -1
  OBVIOUS
<1> QED
  BY <1>1, <1>2, <1>3, <1>4, <1>5

(* The alarm itself: without a rejection the positions differ by nothing or *)
(* by the leg that is still to be filled, and with rejections that are all  *)
(* older than the window only two equal legs on one side raise nothing      *)
(* (evaluator.py:419-518).                                                  *)
LEMMA EvaluationAlarms ==
  ASSUME MismatchTolerance < PositionSize, IInv, EInv, TInv, AInv,
         NEW feed, NEW book, NEW quiet, NEW start \in 0..(iterations + 1),
         EvaluateAlerts(feed, book, quiet, start)
  PROVE  \/ Net(work.position[Spot]) + Net(work.position[Perp]) = 0
         \/ alerts' \intersect {"position_mismatch", "order_rejected"} # {}
         \/ /\ Net(work.position[Spot]) = Net(work.position[Perp])
            /\ work.rejected_ts # {} /\ \A ts \in work.rejected_ts : ts < window_start'
<1> DEFINE r == Reading(work, feed, book, quiet, start)
           spot == work.filled[Spot]
           perp == work.filled[Perp]
<1>1. alerts' = evaluate_alerts(r) /\ window_start' = start
  BY DEF EvaluateAlerts
<1>2. /\ r.rejections = {ts \in work.rejected_ts : ts >= start}
      /\ r.spot = Net(work.position[Spot]) /\ r.perp = Net(work.position[Perp])
  BY DEF Reading
<1>3. Net(work.position[Spot]) = spot /\ Net(work.position[Perp]) = perp
  BY DEF IInv, GoodBooks, Symbols
<1>4. work.rejected_ts \subseteq Nat /\ start \in Int
  BY DEF TInv, Books
<1> HIDE DEF r
<1>5. CASE \E ts \in work.rejected_ts : ts >= start
  <2>1. r.rejections # {}
    BY <1>2, <1>5
  <2> QED
    BY <1>1, <2>1, AlarmsRaised
<1>6. CASE ~(\E ts \in work.rejected_ts : ts >= start)
  <2>1. \A ts \in work.rejected_ts : ts < window_start'
    BY <1>1, <1>4, <1>6
  <2>2. PICK k \in Int, l \in Int : spot = k * PositionSize /\ perp = l * PositionSize
    BY DEF AInv, Stepwise, Symbols
  <2>3. PositionSize \in Nat /\ PositionSize > 0
    BY FundingCaptureAssumption
  <2>4. spot \in Int /\ perp \in Int
    BY <2>2, <2>3
  <2>5. CASE k = -l
    <3>1. (-l) * PositionSize + l * PositionSize = 0
      BY <2>3
    <3> QED
      BY <1>3, <2>2, <2>5, <3>1
  <2>6. CASE k # l /\ k # -l
    <3>1. Abs(Abs(spot) - Abs(perp)) > MismatchTolerance
      BY <2>2, <2>6, MismatchSeen
    <3> QED
      BY <1>1, <1>2, <1>3, <3>1, AlarmsRaised
  <2>7. CASE k = l /\ work.rejected_ts # {}
    BY <1>3, <2>1, <2>2, <2>7
  <2>8. CASE k = l /\ work.rejected_ts = {}
    <3>1. /\ work.rejected[Spot] = 0 /\ work.rejected[Perp] = 0
          /\ Total(work.pending) = HalfDone(work.pending)
      BY <2>8 DEF AInv, Stepwise, InPairs
    <3>2. HalfDone(work.pending) \in {0, PositionSize, -PositionSize}
      BY Zenon DEF HalfDone, Worth, _signed_qty
    <3>3. spot + perp + Total(work.pending) = 0
      <4>1. Asked(work, Spot) + Asked(work, Perp) = 0
        BY DEF EInv, Paired, Symbols
      <4>2. Owed(work.pending, Spot) \in Int /\ Owed(work.pending, Perp) \in Int
        BY QueueWorth DEF IInv, GoodBooks
      <4> QED
        BY <2>4, <3>1, <4>1, <4>2 DEF Asked, Total
    <3>4. spot + perp = 0 \/ spot + perp \in {PositionSize, -PositionSize}
      BY <2>3, <2>4, <3>1, <3>2, <3>3
    <3>5. spot + perp \notin {PositionSize, -PositionSize}
      BY <2>2, <2>8, HalfPairIsUneven
    <3> QED
      BY <1>3, <3>4, <3>5
  <2> QED
    BY <2>5, <2>6, <2>7, <2>8
<1> QED
  BY <1>5, <1>6

LEMMA InitStepwise == ASSUME Init PROVE AInv
<1>1. /\ db = work /\ db.pending = <<>> /\ pc = "idle"
      /\ \A s \in Symbols : db.filled[s] = 0 /\ db.rejected[s] = 0
  BY DEF Init
<1>2. InPairs(<<>>)
  <2>1. Matched(<<>>) /\ HalfDone(<<>>) = 0
    BY DEF Matched, HalfDone
  <2>2. Total(<<>>) = 0
    BY EmptyOwed DEF Total
  <2> QED
    BY <2>1, <2>2 DEF InPairs
<1>3. 0 \in Int /\ 0 = 0 * PositionSize
  BY FundingCaptureAssumption
<1>4. Spot \in Symbols /\ Perp \in Symbols
  BY DEF Symbols
<1>5. Stepwise(db)
  BY <1>1, <1>2, <1>3, <1>4, Zenon DEF Stepwise
<1> QED
  BY <1>1, <1>5 DEF AInv, UnhedgedIsAlarmed

\* Fills move a position by one size, and the queue by its head.
LEMMA FilledStepwise ==
  ASSUME NEW w, GoodBooks(w), w.pending # <<>>, Stepwise(w), NEW after,
         after.pending = Tail(w.pending), after.rejected = w.rejected,
         after.rejected_ts = w.rejected_ts,
         \A s \in Symbols : after.filled[s] = w.filled[s] + Worth(Head(w.pending), s)
  PROVE  Stepwise(after)
<1>1. PositionSize \in Nat
  BY FundingCaptureAssumption
<1>2. ASSUME NEW s \in Symbols
      PROVE  \E k \in Int : after.filled[s] = k * PositionSize
  <2>1. PICK k \in Int : w.filled[s] = k * PositionSize
    BY DEF Stepwise
  <2>2. Worth(Head(w.pending), s) \in {0, PositionSize, -PositionSize}
    BY DEF Worth, _signed_qty
  <2>3. /\ k * PositionSize + 0 = k * PositionSize
        /\ k * PositionSize + PositionSize = (k + 1) * PositionSize
        /\ k * PositionSize + (-PositionSize) = (k - 1) * PositionSize
    BY <1>1
  <2>4. k + 1 \in Int /\ k - 1 \in Int
    OBVIOUS
  <2>5. after.filled[s] = k * PositionSize + Worth(Head(w.pending), s)
    BY <2>1
  <2> QED
    BY <2>2, <2>3, <2>4, <2>5, Zenon
<1>3. w.rejected_ts = {} => InPairs(after.pending)
  BY TailInPairs DEF GoodBooks, Stepwise
<1> QED
  BY <1>2, <1>3 DEF Stepwise

\* A rejection moves no position.
LEMMA RejectedStepwise ==
  ASSUME NEW w, Stepwise(w), NEW after, after.filled = w.filled, after.rejected_ts # {}
  PROVE  Stepwise(after)
<1> QED
  BY DEF Stepwise

\* Whatever the loop, a fault or the collector does next.
LEMMA StepStepwise ==
  ASSUME MismatchTolerance < PositionSize, IInv, EInv, TInv, AInv, [Next]_vars
  PROVE  AInv'
<1>1. ASSUME NEW rate, NEW mark, EvaluateStrategy(rate, mark) PROVE AInv'
  <2> DEFINE asked == IF evaluate(work, rate) = "entered" THEN _enter(iterations)
                      ELSE IF evaluate(work, rate) = "exited" THEN _exit(iterations) ELSE <<>>
  <2>1. asked \in {<<>>, _enter(iterations), _exit(iterations)}
    OBVIOUS
  <2>2. work' = [work EXCEPT !.pending = @ \o asked] /\ db' = db /\ pc' # "commit"
    BY <1>1 DEF EvaluateStrategy, Goto
  <2> HIDE DEF asked
  <2>3. /\ work'.pending = work.pending \o asked /\ work'.filled = work.filled
        /\ work'.rejected = work.rejected /\ work'.rejected_ts = work.rejected_ts
    BY <2>2, Zenon DEF IInv, GoodBooks, Fields
  <2>4. InPairs(work.pending) => InPairs(work.pending \o asked)
    BY <2>1, PairQueued DEF IInv, GoodBooks
  <2>5. Stepwise(work')
    BY <2>3, <2>4, Zenon DEF AInv, Stepwise
  <2> QED
    BY <2>2, <2>5 DEF AInv, UnhedgedIsAlarmed
<1>2. ASSUME NEW late, ExecuteOne(late) PROVE AInv'
  <2> DEFINE intent == Head(work.pending)
             worth == _signed_qty(intent.side, PositionSize)
  <2>1. work.pending # <<>> /\ db' = db /\ pc' # "commit"
    BY <1>2 DEF ExecuteOne
  <2>2. intent.symbol \in Symbols
    <3>1. intent \in Intents
      BY <2>1 DEF IInv, GoodBooks
    <3> QED
      BY <3>1 DEF Intents
  <2>3. CASE Refused(work, intent, late)
    <3>1. work' = [work EXCEPT !.pending = Tail(@), !.rejected[intent.symbol] = @ + worth,
                               !.rejected_ts = @ \union {intent.created}]
      BY <1>2, <2>3 DEF ExecuteOne
    <3>2. work'.filled = work.filled /\ work'.rejected_ts # {}
      BY <3>1, Zenon DEF IInv, GoodBooks, Fields
    <3>3. Stepwise(work')
      BY <3>2, RejectedStepwise DEF AInv
    <3> QED
      BY <2>1, <3>3 DEF AInv, UnhedgedIsAlarmed
  <2>4. CASE ~Refused(work, intent, late)
    <3>1. work' = Filled(work, intent.symbol, FillOf(intent))
      BY <1>2, <2>4 DEF ExecuteOne
    <3>2. Signed(FillOf(intent)) = worth
      BY DEF Signed, FillOf
    <3> HIDE DEF worth
    <3>3. /\ work'.pending = Tail(work.pending) /\ work'.rejected = work.rejected
          /\ work'.rejected_ts = work.rejected_ts
          /\ work'.filled = [work.filled EXCEPT ![intent.symbol] = @ + worth]
      BY <3>1, <3>2, Zenon DEF Filled, MarkFilled, IInv, GoodBooks, Fields
    <3>4. ASSUME NEW s \in Symbols
          PROVE  work'.filled[s] = work.filled[s] + Worth(intent, s)
      <4>1. DOMAIN work.filled = Symbols /\ work.filled[s] \in Int
        BY DEF IInv, EInv, GoodBooks, Paired
      <4>2. Worth(intent, s) = IF s = intent.symbol THEN worth ELSE 0
        BY DEF Worth, worth
      <4> HIDE DEF intent
      <4> QED
        BY <2>2, <3>3, <4>1, <4>2
    <3>5. Stepwise(work')
      BY <2>1, <3>3, <3>4, FilledStepwise DEF IInv, AInv
    <3> QED
      BY <2>1, <3>5 DEF AInv, UnhedgedIsAlarmed
  <2> QED
    BY <2>3, <2>4
<1>3. ASSUME accrue_funding_payment PROVE AInv'
  <2>1. work' = [work EXCEPT !.paid = @ + Payment(work)] /\ db' = db /\ pc' # "commit"
    BY <1>3 DEF accrue_funding_payment, Goto
  <2>2. /\ work'.pending = work.pending /\ work'.rejected = work.rejected
        /\ work'.rejected_ts = work.rejected_ts /\ work'.filled = work.filled
    BY <2>1, Zenon DEF IInv, GoodBooks, Fields
  <2>3. Stepwise(work')
    BY <2>2, Zenon DEF AInv, Stepwise
  <2> QED
    BY <2>1, <2>3 DEF AInv, UnhedgedIsAlarmed
<1>4. ASSUME NEW feed, NEW book, NEW quiet, NEW start \in 0..(iterations + 1),
             EvaluateAlerts(feed, book, quiet, start)
      PROVE  AInv'
  <2>1. work' = work /\ db' = db
    BY <1>4 DEF EvaluateAlerts
  <2>2. \/ Net(work.position[Spot]) + Net(work.position[Perp]) = 0
        \/ alerts' \intersect {"position_mismatch", "order_rejected"} # {}
        \/ /\ Net(work.position[Spot]) = Net(work.position[Perp])
           /\ work.rejected_ts # {} /\ \A ts \in work.rejected_ts : ts < window_start'
    BY <1>4, EvaluationAlarms
  <2>3. UnhedgedIsAlarmed'
    BY <2>1, <2>2, Zenon DEF UnhedgedIsAlarmed
  <2> QED
    BY <2>1, <2>3 DEF AInv
<1>5. ASSUME Commit \/ IterationFails PROVE AInv'
  BY <1>5 DEF Commit, IterationFails, EndIteration, AInv, UnhedgedIsAlarmed
<1>6. ASSUME StopDraining PROVE AInv'
  BY <1>6 DEF StopDraining, Goto, AInv, UnhedgedIsAlarmed
<1>7. ASSUME UNCHANGED <<db, work, pc, alerts, window_start>> PROVE AInv'
  BY <1>7, Zenon DEF AInv, UnhedgedIsAlarmed
<1> QED
  BY <1>1, <1>2, <1>3, <1>4, <1>5, <1>6, <1>7 DEF Next, _poll_once, Done, vars

(* With a tolerance below the size of a position (0.01 and 1 as deployed,   *)
(* evaluator.py:49, main.py:953) an unhedged book is committed in silence   *)
(* in one way only, whatever was filled, rejected or left pending: the      *)
(* legs are equal and on the same side, which the mismatch check does not   *)
(* look at, and every rejected intent was issued before the window          *)
(* (evaluator.py:419-518, main.py:290-303).                                 *)
THEOREM SilenceMeansHedged ==
  ASSUME MismatchTolerance < PositionSize
  PROVE  Spec => []UnhedgedIsAlarmed
<1>1. IInv /\ EInv /\ TInv /\ AInv /\ [Next]_vars => AInv'
  BY StepStepwise
<1>2. AInv => UnhedgedIsAlarmed
  BY DEF AInv
<1> QED
  BY <1>1, <1>2, InitIsGood, StepIsGood, InitIsPaired, StepIsPaired, InitTyped, StepTyped,
     InitStepwise, PTL DEF Spec

-----------------------------------------------------------------------------
(* The rows keep the books of a plain ledger.  Prices are whole in the      *)
(* model, and so is an average only when its division leaves nothing; the   *)
(* code divides decimals, and the theorem is about the runs whose averages  *)
(* are whole.                                                               *)

\* The fill the drain may make next leaves a whole average.
WholeAverages ==
  pc = "drain" /\ work.pending # <<>> /\ tick[Head(work.pending).symbol] # NoQuote =>
    ExactAverage(work.position[Head(work.pending).symbol], FillOf(Head(work.pending)))

QuotedPrices == UNION {{q.bid, q.ask} : q \in Quotes}

\* The books of a session that leaves rows and PnL alone stay as they are.
LEMMA SameBooks ==
  ASSUME NEW w, NEW after, after.position = w.position, after.realized = w.realized
  PROVE  BooksOf(after) = BooksOf(w)
<1> QED
  BY Zenon DEF BooksOf

LEMMA InitIsFlat == ASSUME Init PROVE Ledger!Init
<1>1. /\ db = work
      /\ \A s \in Symbols : db.position[s] = NoRow /\ db.realized[s] = 0
  BY DEF Init
<1>2. Net(NoRow) = 0 /\ NoRow.avg_entry_price = 0
  BY NetOfEmpty DEF NoRow, GoodRow, Rows, Sides
<1>3. 0 - 0 * 0 = 0
  OBVIOUS
<1>4. BooksOf(db) = [s \in Symbols |-> [net |-> 0, cash |-> 0]]
  BY <1>1, <1>2, <1>3, Zenon DEF BooksOf
<1> QED
  BY <1>1, <1>4 DEF Ledger!Init, Ledger!Flat

(* A fill is a trade of the ledger, of one position size at a quoted price  *)
(* (execution_flow.py:126-168).                                             *)
LEMMA FillIsTrade ==
  ASSUME NEW w \in Books, GoodBooks(w), w.pending # <<>>, NEW s \in Symbols,
         NEW fill, GoodFill(fill), ExactAverage(w.position[s], fill)
  PROVE  BooksOf(Filled(w, s, fill)) =
           [BooksOf(w) EXCEPT ![s] = [net |-> @.net + Signed(fill),
                                      cash |-> @.cash - Signed(fill) * fill.price]]
<1> DEFINE row == w.position[s]
           new == update_position_from_fill(row, fill)
           gain == _compute_realized_pnl(row, fill)
           after == Filled(w, s, fill)
           q == Signed(fill)
           p == fill.price
<1>1. GoodRow(row) /\ w.realized \in [Symbols -> Int] /\ w.position \in [Symbols -> Rows]
  BY DEF GoodBooks, Books
<1>2. /\ after.position = [w.position EXCEPT ![s] = new]
      /\ after.realized = [w.realized EXCEPT ![s] = @ + gain]
  BY Zenon DEF Filled, Books
<1>3. Net(new) = Net(row) + q /\ GoodRow(new)
  BY <1>1, UpdateIsSum
<1>4. gain - Net(new) * new.avg_entry_price = - (Net(row) * row.avg_entry_price) - q * p
  BY <1>1, FillMovesItsMoney
<1>5. gain \in Int
  BY <1>1, RealizedIsInteger
<1>6. /\ Net(row) \in Int /\ Net(new) \in Int /\ q \in Int /\ p \in Int
      /\ row.avg_entry_price \in Int /\ new.avg_entry_price \in Int
  BY <1>1, <1>3 DEF GoodRow, GoodFill, Rows, Net, Signed, _signed_qty
<1> HIDE DEF new, gain, q, p
<1>7. (w.realized[s] + gain) - Net(new) * new.avg_entry_price
        = (w.realized[s] - Net(row) * row.avg_entry_price) - q * p
  <2>1. \A m, n \in Int : m * n \in Int
    OBVIOUS
  <2> DEFINE x == Net(new) * new.avg_entry_price
             y == Net(row) * row.avg_entry_price
             z == q * p
             before == w.realized[s]
  <2>2. x \in Int /\ y \in Int /\ z \in Int /\ before \in Int
    BY <1>1, <1>6, <2>1
  <2>3. gain - x = -y - z
    BY <1>4
  <2> HIDE DEF x, y, z, before
  <2>4. (before + gain) - x = (before - y) - z
    BY <1>5, <2>2, <2>3
  <2> QED
    BY <2>4 DEF x, y, z, before
<1> DEFINE old == BooksOf(w)
           entry == [net |-> old[s].net + q, cash |-> old[s].cash - q * p]
<1>8. /\ after.position[s] = new /\ after.realized[s] = w.realized[s] + gain
      /\ \A r \in Symbols \ {s} : /\ after.position[r] = w.position[r]
                                  /\ after.realized[r] = w.realized[r]
  BY <1>1, <1>2
<1>9. old[s].net = Net(row) /\ old[s].cash = w.realized[s] - Net(row) * row.avg_entry_price
  BY DEF BooksOf
<1> HIDE DEF row, after
<1>10. /\ BooksOf(after)[s] = entry
       /\ \A r \in Symbols \ {s} : BooksOf(after)[r] = old[r]
  <2>1. BooksOf(after)[s] = [net |-> Net(new),
                             cash |-> (w.realized[s] + gain) - Net(new) * new.avg_entry_price]
    BY <1>8, Zenon DEF BooksOf
  <2>2. ASSUME NEW r \in Symbols \ {s}
        PROVE  BooksOf(after)[r] = old[r]
    BY <1>8, Zenon DEF BooksOf
  <2> QED
    BY <1>3, <1>7, <1>9, <2>1, <2>2, Zenon
<1> HIDE DEF entry
<1>11. BooksOf(after) = [old EXCEPT ![s] = entry]
  <2>1. /\ BooksOf(after) = [r \in Symbols |-> BooksOf(after)[r]]
        /\ old = [r \in Symbols |-> old[r]]
    BY DEF BooksOf
  <2> HIDE DEF old
  <2> QED
    BY <1>10, <2>1
<1> QED
  BY <1>11 DEF entry, after, q, p

\* Every step of the loop is one of the ledger, or leaves its books alone.
LEMMA StepIsLedger ==
  ASSUME IInv, TInv, WholeAverages, [Next]_vars
  PROVE  [Ledger!Next]_(Ledger!books)
<1>1. BooksOf(db)' = BooksOf(db') /\ BooksOf(work)' = BooksOf(work')
  BY DEF BooksOf
<1>2. ASSUME db' = db, work'.position = work.position, work'.realized = work.realized
      PROVE  UNCHANGED Ledger!books
  BY <1>1, <1>2, SameBooks DEF Ledger!books
<1>3. ASSUME NEW rate, NEW mark, EvaluateStrategy(rate, mark)
      PROVE  UNCHANGED Ledger!books
  <2> DEFINE asked == IF evaluate(work, rate) = "entered" THEN _enter(iterations)
                      ELSE IF evaluate(work, rate) = "exited" THEN _exit(iterations) ELSE <<>>
  <2>1. work' = [work EXCEPT !.pending = @ \o asked] /\ db' = db
    BY <1>3 DEF EvaluateStrategy
  <2> HIDE DEF asked
  <2>2. work'.position = work.position /\ work'.realized = work.realized
    BY <2>1, Zenon DEF TInv, Books
  <2> QED
    BY <1>2, <2>1, <2>2
<1>4. ASSUME NEW late, ExecuteOne(late)
      PROVE  [Ledger!Next]_(Ledger!books)
  <2> DEFINE intent == Head(work.pending)
             fill == FillOf(intent)
             s == intent.symbol
  <2>1. /\ work.pending # <<>> /\ tick[s] # NoQuote /\ db' = db /\ pc = "drain"
    BY <1>4 DEF ExecuteOne
  <2>2. intent \in Intents
    BY <2>1 DEF IInv, GoodBooks
  <2>3. s \in Symbols /\ intent.side \in {"buy", "sell"}
    BY <2>2 DEF Intents, Sides
  <2>4. CASE Refused(work, intent, late)
    <3>1. work' = [work EXCEPT !.pending = Tail(@),
                     !.rejected[s] = @ + _signed_qty(intent.side, PositionSize),
                     !.rejected_ts = @ \union {intent.created}]
      BY <1>4, <2>4 DEF ExecuteOne
    <3>2. work'.position = work.position /\ work'.realized = work.realized
      BY <3>1, Zenon DEF TInv, Books
    <3> QED
      BY <1>2, <2>1, <3>2
  <2>5. CASE ~Refused(work, intent, late)
    <3>1. work' = Filled(work, s, fill)
      BY <1>4, <2>5 DEF ExecuteOne
    <3>2. tick[s] \in Quotes
      BY <2>1, <2>3 DEF IInv
    <3>3. GoodFill(fill)
      BY <2>2, <3>2, FillIsGood
    <3>4. ExactAverage(work.position[s], fill)
      BY <2>1 DEF WholeAverages
    <3>5. /\ Signed(fill) \in {PositionSize, -PositionSize}
          /\ fill.price \in QuotedPrices
      <4>1. fill.price \in {tick[s].bid, tick[s].ask}
        BY DEF FillOf, FillPrice
      <4> QED
        BY <3>2, <4>1 DEF QuotedPrices, Signed, _signed_qty, FillOf
    <3> DEFINE q == Signed(fill)
               p == fill.price
    <3> HIDE DEF fill, s, intent
    <3>6. BooksOf(work)' =
            [BooksOf(work) EXCEPT ![s] = [net |-> @.net + q, cash |-> @.cash - q * p]]
      BY <1>1, <2>1, <2>3, <3>1, <3>3, <3>4, FillIsTrade DEF IInv, TInv
    <3>7. BooksOf(work)'[s].net = BooksOf(work)[s].net + q
      <4>1. DOMAIN BooksOf(work) = Symbols
        BY DEF BooksOf
      <4> DEFINE old == BooksOf(work)
                 entry == [net |-> old[s].net + q, cash |-> old[s].cash - q * p]
      <4>2. entry.net = old[s].net + q
        OBVIOUS
      <4>3. BooksOf(work)' = [old EXCEPT ![s] = entry] /\ s \in DOMAIN old
        BY <2>3, <3>6, <4>1
      <4> HIDE DEF old, entry
      <4>4. BooksOf(work)'[s] = entry
        BY <4>3
      <4> QED
        BY <4>2, <4>4 DEF old
    <3>8. BooksOf(db)' = BooksOf(db)
      BY <1>1, <2>1
    <3> HIDE DEF q, p
    <3>9. Ledger!Moves(s, q) /\ Ledger!Trade(s, q, p)
      BY <3>6, <3>7, <3>8 DEF Ledger!Moves, Ledger!Trade
    <3>10. q \in {PositionSize, -PositionSize} /\ p \in QuotedPrices
      BY <3>5 DEF q, p
    <3> QED
      BY <2>3, <3>9, <3>10 DEF Ledger!Next, QuotedPrices
  <2> QED
    BY <2>4, <2>5
<1>5. ASSUME accrue_funding_payment PROVE UNCHANGED Ledger!books
  <2>1. work' = [work EXCEPT !.paid = @ + Payment(work)] /\ db' = db
    BY <1>5 DEF accrue_funding_payment
  <2>2. work'.position = work.position /\ work'.realized = work.realized
    BY <2>1, Zenon DEF TInv, Books
  <2> QED
    BY <1>2, <2>1, <2>2
<1>6. ASSUME Commit PROVE Ledger!Settle
  BY <1>1, <1>6 DEF Commit, Ledger!Settle
<1>7. ASSUME IterationFails PROVE Ledger!Drop
  BY <1>1, <1>7 DEF IterationFails, Ledger!Drop
<1>8. ASSUME UNCHANGED <<db, work>> PROVE UNCHANGED Ledger!books
  BY <1>1, <1>8 DEF Ledger!books
<1> QED
  BY <1>3, <1>4, <1>5, <1>6, <1>7, <1>8
     DEF Next, StopDraining, EvaluateAlerts, _poll_once, Done, vars, Ledger!Next

(* Rows with average prices and realized PnL implement the plain ledger, on *)
(* every run whose averages are whole: each fill moves realized PnL less    *)
(* the cost of the position by exactly its money, and an iteration settles  *)
(* whole or not at all (pnl_calculator.py:31-60, position_tracker.py:22-101,*)
(* ARCHITECTURE.md:207).                                                    *)
THEOREM LedgerIsKept == Spec /\ []WholeAverages => KeepsLedger
<1>1. IInv /\ TInv /\ WholeAverages /\ [Next]_vars => [Ledger!Next]_(Ledger!books)
  BY StepIsLedger
<1>2. Init => Ledger!Init
  BY InitIsFlat
<1> QED
  BY <1>1, <1>2, InitIsGood, StepIsGood, InitTyped, StepTyped, PTL
     DEF Spec, KeepsLedger, Ledger!Spec

=============================================================================
