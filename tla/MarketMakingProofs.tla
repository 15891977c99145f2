--------------------------- MODULE MarketMakingProofs ---------------------------
(***************************************************************************)
(* Market making, for every book, price, size and schedule, in five parts. *)
(*  - At most one quote rests on each side.  The sides an iteration may    *)
(*    quote are counted two queries before it quotes them; the induction   *)
(*    carries that nothing comes to rest on them in between, not even when *)
(*    the account is reset.                                                *)
(*  - A commit leaves no quote that is stale.                              *)
(*  - Types, which need that the TWAP is a number: its sum by induction on *)
(*    the number of summands, in first-order form.                         *)
(*  - Whatever rests can be filled.                                        *)
(*  - No sale below cost, where the profit outweighs the rounding.         *)
(***************************************************************************)
EXTENDS MarketMaking, PaperAccountProofs, FiniteSetTheorems, SequenceTheorems,
        WellFoundedInduction, TLAPS

OneEach(quotes) == \A i, j \in quotes : i.side = j.side => i = j

Clear(quotes, sides) == \A intent \in quotes : intent.side \notin sides

IInv ==
  /\ "pending" \in DOMAIN db /\ "pending" \in DOMAIN work /\ "allowed" \in DOMAIN it
  /\ OneEach(db.pending) /\ OneEach(work.pending)
  /\ pc \in {"position", "quote"} => Clear(work.pending, it.allowed)

(* The strategy offers at most one quote for each side it was allowed       *)
(* (market_making.py:64-321).                                               *)
LEMMA EvaluateOneEach ==
  ASSUME NEW w, NEW book, NEW seen, NEW allowed, NEW concavity
  PROVE  LET quotes == evaluate(w, book, seen, allowed, concavity)
         IN OneEach(quotes) /\ \A quote \in quotes : quote.side \in allowed
<1>1. \A p, n, cap : /\ _build_intent("buy", p, n, cap).side = "buy"
                     /\ _build_intent("sell", p, n, cap).side = "sell"
  BY DEF _build_intent
<1> QED
  BY <1>1 DEF evaluate, OneEach

(* Dropping quotes keeps sides clear and single.                            *)
LEMMA SubsetOneEach ==
  ASSUME NEW quotes, NEW fewer \in SUBSET quotes, NEW sides
  PROVE  /\ OneEach(quotes) => OneEach(fewer)
         /\ Clear(quotes, sides) => Clear(fewer, sides)
<1> QED
  BY DEF OneEach, Clear

\* Nothing that rests is on a side found free.
LEMMA FreeSidesClear ==
  ASSUME NEW quotes
  PROVE  Clear(quotes, FreeSides(quotes))
<1> QED
  BY DEF Clear, FreeSides

\* The two halves of the induction.
LEMMA InitOneEach == ASSUME Init PROVE IInv
<1> QED
  BY DEF Init, IInv, OneEach, Empty, NotRunning

\* Whatever the collector, the operator or the loop does next.
LEMMA StepOneEach ==
  ASSUME IInv, [Next]_vars
  PROVE  IInv'
<1>1. ASSUME Begin PROVE IInv'
  <2>1. PICK list : it' = [NotRunning EXCEPT !.book = Latest, !.list = list]
    BY <1>1 DEF Begin
  <2>2. "allowed" \in DOMAIN it'
    BY <2>1 DEF NotRunning
  <2> QED
    BY <1>1, <2>2 DEF Begin, IInv
<1>2. ASSUME _run_market_making_dry_run PROVE IInv'
  BY <1>2 DEF _run_market_making_dry_run, IInv
<1>3. ASSUME CheckIntent PROVE IInv'
  <2>1. pc' \notin {"position", "quote"} /\ db' = db /\ "allowed" \in DOMAIN it'
    BY <1>3 DEF CheckIntent, IInv
  <2>2. CASE work' = work
    BY <2>1, <2>2 DEF IInv
  <2>3. CASE work' = Filled(work, Head(it.list))
    <3>1. "pending" \in DOMAIN work' /\ work'.pending = work.pending \ {Head(it.list)}
      BY <2>3 DEF Filled
    <3> QED
      BY <2>1, <3>1, SubsetOneEach DEF IInv
  <2> QED
    BY <1>3, <2>2, <2>3 DEF CheckIntent
<1>4. ASSUME ListChecked PROVE IInv'
  BY <1>4 DEF ListChecked, IInv
<1>5. ASSUME _reconcile_market_making_quotes PROVE IInv'
  <2> DEFINE stale == StaleQuotes(work)
             left == work.pending \ stale
  <2>1. /\ db' = db
        /\ work' = [work EXCEPT !.pending = left]
        /\ it' = [it EXCEPT !.cancelled = @ \union stale, !.allowed = FreeSides(left)]
    BY <1>5 DEF _reconcile_market_making_quotes
  <2> HIDE DEF stale
  <2>2. "pending" \in DOMAIN work' /\ work'.pending = left
    BY <2>1 DEF IInv
  <2>3. "allowed" \in DOMAIN it' /\ it'.allowed = FreeSides(left)
    BY <2>1, Zenon DEF IInv
  <2> QED
    BY <2>1, <2>2, <2>3, SubsetOneEach, FreeSidesClear DEF IInv
<1>6. ASSUME _current_position PROVE IInv'
  <2>1. "allowed" \in DOMAIN it' /\ it'.allowed = it.allowed
    BY <1>6 DEF _current_position, IInv
  <2> QED
    BY <1>6, <2>1 DEF _current_position, IInv
<1>7. ASSUME NEW concavity, _generate_and_persist_quotes(concavity)
      PROVE  IInv'
  <2> DEFINE quotes == evaluate(work, it.book, it.seen, it.allowed, concavity)
  <2>1. OneEach(quotes) /\ \A quote \in quotes : quote.side \in it.allowed
    BY EvaluateOneEach
  <2>2. /\ db' = db /\ it' = it /\ pc = "quote"
        /\ work' = [work EXCEPT !.pending = @ \union quotes]
        /\ pc' \in {"commit", "check"}
    BY <1>7 DEF _generate_and_persist_quotes, AfterReconcile
  <2> HIDE DEF quotes
  <2>3. "pending" \in DOMAIN work' /\ work'.pending = work.pending \union quotes
    BY <2>2 DEF IInv
  <2>4. OneEach(work.pending \union quotes)
    BY <2>1, <2>2 DEF IInv, OneEach, Clear
  <2> QED
    BY <2>2, <2>3, <2>4 DEF IInv
<1>8. ASSUME Commit PROVE IInv'
  BY <1>8 DEF Commit, IInv, NotRunning
<1>9. ASSUME FillOfDeletedIntent \/ IterationFails PROVE IInv'
  BY <1>9 DEF FillOfDeletedIntent, IterationFails, Rollback, IInv, NotRunning
<1>10. ASSUME reset_run_history PROVE IInv'
  <2>1. /\ db' = Empty /\ pc' = pc
        /\ work' = [Empty EXCEPT !.pending = work.pending \ db.pending]
        /\ it' = [it EXCEPT !.torn = @ \/ ReadPosition]
    BY <1>10 DEF reset_run_history
  <2>2. "pending" \in DOMAIN work' /\ work'.pending = work.pending \ db.pending
    BY <2>1 DEF Empty
  <2>3. "allowed" \in DOMAIN it' /\ it'.allowed = it.allowed
    BY <2>1 DEF IInv
  <2>4. "pending" \in DOMAIN db' /\ OneEach(db'.pending)
    BY <2>1 DEF Empty, OneEach
  <2> QED
    BY <2>1, <2>2, <2>3, <2>4, SubsetOneEach DEF IInv
<1>11. ASSUME UNCHANGED <<db, work, pc, it>> PROVE IInv'
  BY <1>11 DEF IInv
<1> QED
  BY <1>1, <1>2, <1>3, <1>4, <1>5, <1>6, <1>7, <1>8, <1>9, <1>10, <1>11
     DEF Next, OrderBookArrives, twap_lookback_set, deposit_create, Done, vars

(* However fills, cancellations, requotes, failures and resets follow one   *)
(* another, no account rests two quotes on one side (main.py:599-625).      *)
THEOREM OneQuotePerSide == Spec => []OnePerSide
<1>1. IInv => OnePerSide
  BY DEF IInv, OneEach, OnePerSide
<1> QED
  BY <1>1, InitOneEach, StepOneEach, PTL DEF Spec

-----------------------------------------------------------------------------
(* No stale quote is left by a commit.  The last thing an iteration does    *)
(* with the resting quotes is a reconciliation, after which only quotes of  *)
(* this very iteration are added; the induction carries that from the       *)
(* reconciliation to the commit.                                            *)

Dated(quotes) == \A intent \in quotes : intent.created \in Int

Fresh(quotes) == \A intent \in quotes : now - intent.created <= StaleAfter

SInv ==
  /\ now \in Nat
  /\ "pending" \in DOMAIN db /\ "pending" \in DOMAIN work
  /\ Dated(db.pending) /\ Dated(work.pending)
  /\ pc \in {"position", "quote", "commit"} => Fresh(work.pending)

(* Every quote of the strategy carries the time of its iteration            *)
(* (market_making.py:301-321).                                              *)
LEMMA EvaluateIsNow ==
  ASSUME NEW w, NEW book, NEW seen, NEW allowed, NEW concavity
  PROVE  \A quote \in evaluate(w, book, seen, allowed, concavity) : quote.created = now
<1>1. \A side, p, n, cap : _build_intent(side, p, n, cap).created = now
  BY DEF _build_intent
<1> QED
  BY <1>1 DEF evaluate

LEMMA InitFresh == ASSUME Init PROVE SInv
<1> QED
  BY DEF Init, SInv, Dated, Empty

LEMMA StepFresh ==
  ASSUME SInv, [Next]_vars
  PROVE  SInv'
<1>1. ASSUME Begin \/ _run_market_making_dry_run PROVE SInv'
  <2>1. /\ db' = db /\ work' = work /\ now' = now + 1
        /\ pc' \in {"check", "idle"}
    BY <1>1 DEF Begin, _run_market_making_dry_run
  <2> QED
    BY <2>1 DEF SInv, Dated
<1>2. ASSUME CheckIntent PROVE SInv'
  <2>1. pc' \in {"check", "reconcile"} /\ db' = db /\ now' = now
    BY <1>2 DEF CheckIntent
  <2>2. CASE work' = work
    BY <2>1, <2>2 DEF SInv, Dated
  <2>3. CASE work' = Filled(work, Head(it.list))
    <3>1. "pending" \in DOMAIN work' /\ work'.pending \subseteq work.pending
      BY <2>3 DEF Filled
    <3> QED
      BY <2>1, <3>1 DEF SInv, Dated
  <2> QED
    BY <1>2, <2>2, <2>3 DEF CheckIntent
<1>3. ASSUME ListChecked PROVE SInv'
  BY <1>3 DEF ListChecked, SInv, Dated
<1>4. ASSUME _reconcile_market_making_quotes PROVE SInv'
  <2> DEFINE left == work.pending \ StaleQuotes(work)
  <2>1. db' = db /\ now' = now /\ work' = [work EXCEPT !.pending = left]
    BY <1>4 DEF _reconcile_market_making_quotes
  <2>2. "pending" \in DOMAIN work' /\ work'.pending = left
    BY <2>1 DEF SInv
  <2>3. Dated(left) /\ Fresh(left)
    BY MarketMakingAssumption DEF SInv, Dated, Fresh, StaleQuotes
  <2> QED
    BY <2>1, <2>2, <2>3 DEF SInv, Dated, Fresh
<1>5. ASSUME _current_position PROVE SInv'
  BY <1>5 DEF _current_position, SInv, Dated, Fresh
<1>6. ASSUME NEW concavity, _generate_and_persist_quotes(concavity)
      PROVE  SInv'
  <2> DEFINE quotes == evaluate(work, it.book, it.seen, it.allowed, concavity)
  <2>1. \A quote \in quotes : quote.created = now
    BY EvaluateIsNow
  <2>2. /\ db' = db /\ now' = now /\ pc = "quote"
        /\ work' = [work EXCEPT !.pending = @ \union quotes]
    BY <1>6 DEF _generate_and_persist_quotes
  <2> HIDE DEF quotes
  <2>3. "pending" \in DOMAIN work' /\ work'.pending = work.pending \union quotes
    BY <2>2 DEF SInv
  <2>4. Dated(work.pending \union quotes) /\ Fresh(work.pending \union quotes)
    BY <2>1, <2>2, MarketMakingAssumption DEF SInv, Dated, Fresh
  <2> QED
    BY <2>2, <2>3, <2>4 DEF SInv, Dated, Fresh
<1>7. ASSUME Commit \/ FillOfDeletedIntent \/ IterationFails PROVE SInv'
  BY <1>7 DEF Commit, FillOfDeletedIntent, IterationFails, Rollback, SInv, Dated
<1>8. ASSUME reset_run_history PROVE SInv'
  <2>1. /\ db' = Empty /\ pc' = pc /\ now' = now
        /\ work' = [Empty EXCEPT !.pending = work.pending \ db.pending]
    BY <1>8 DEF reset_run_history
  <2>2. "pending" \in DOMAIN work' /\ work'.pending = work.pending \ db.pending
    BY <2>1 DEF Empty
  <2>3. "pending" \in DOMAIN db' /\ db'.pending = {}
    BY <2>1 DEF Empty
  <2> QED
    BY <2>1, <2>2, <2>3 DEF SInv, Dated, Fresh
<1>9. ASSUME UNCHANGED <<db, work, pc, now>> PROVE SInv'
  BY <1>9 DEF SInv, Dated, Fresh
<1> QED
  BY <1>1, <1>2, <1>3, <1>4, <1>5, <1>6, <1>7, <1>8, <1>9
     DEF Next, OrderBookArrives, twap_lookback_set, deposit_create, Done, vars

(* Whatever way an iteration takes from its last reconciliation to its      *)
(* commit, through fills, cancellations and resets, no quote older than the *)
(* staleness limit is left resting (main.py:599-648).                       *)
THEOREM CommitsNoStaleQuote == Spec => NoStaleQuoteCommitted
<1>1. ASSUME SInv, [Next]_vars, pc = "commit", pc' = "idle", db' = work
      PROVE  \A intent \in db'.pending : now - intent.created <= StaleAfter
  BY <1>1 DEF SInv, Fresh
<1>2. Spec => []SInv
  BY InitFresh, StepFresh, PTL DEF Spec
<1> QED
  BY <1>1, <1>2, PTL DEF Spec, NoStaleQuoteCommitted

-----------------------------------------------------------------------------
(* Types.  An intent at rest has a quantity, and a sell a price; rows are   *)
(* as fills leave them; a running iteration has a quoted book in hand.      *)

GoodBook == [bid : Nat \ {0}, ask : Nat \ {0}, ts : Nat]

Resting == {intent \in Intents : /\ intent.quantity > 0
                                 /\ intent.side = "sell" => intent.limit_price > 0}

GoodRows(w) ==
  /\ w \in [pending : SUBSET Resting, position : Rows, realized : Int, fees : Nat]
  /\ IsFiniteSet(w.pending)
  /\ GoodRow(w.position)

Locals == [book : [bid : Nat, ask : Nat, ts : Nat], list : Seq(Resting),
           cancelled : SUBSET Resting, allowed : SUBSET Sides,
           seen : Int, last : BOOLEAN, dirty : BOOLEAN, torn : BOOLEAN]

BooksTyped == books \in Seq(GoodBook) /\ books # <<>>

LoopTyped ==
  /\ pc \in {"idle", "check", "reconcile", "position", "quote", "commit"}
  /\ it \in Locals
  /\ pc # "idle" => it.book \in GoodBook

OutsideTyped ==
  /\ now \in 0..MaxIterations /\ deposited \in 0..MaxDeposits
  /\ lookback \in Lookbacks /\ override \in Lookbacks
  /\ torn \in BOOLEAN /\ unified_sizing_enabled \in BOOLEAN
  /\ faults \in 0..MaxFaults /\ resets \in 0..MaxResets

TInv == GoodRows(db) /\ GoodRows(work) /\ BooksTyped /\ LoopTyped /\ OutsideTyped

-----------------------------------------------------------------------------
(* Arithmetic of the strategy *)

(* Every set of naturals that is not empty has a least element.             *)
LEMMA LeastNatural ==
  ASSUME NEW T, T \subseteq Nat, T # {}
  PROVE  \E n \in T : \A m \in T : n <= m
<1>1. \E n \in T : \A m \in T : <<m, n>> \notin OpToRel(<, Nat)
  BY NatLessThanWellFounded, WFMin, Zenon
<1>2. \A m, n \in Nat : <<m, n>> \notin OpToRel(<, Nat) => n <= m
  BY DEF OpToRel
<1> QED
  BY <1>1, <1>2, Zenon

(* The sum of naturals is one: the equation of the sum has a solution,      *)
(* because partial solutions extend by one summand, and no place of a       *)
(* solution can be the first that is not a natural.                         *)
LEMMA SumIsNatural ==
  ASSUME NEW N \in Nat, NEW x \in [1..N -> Nat]
  PROVE  SumTo(x, N) \in Nat
<1> DEFINE Step(g) == [k \in 0..N |-> IF k = 0 THEN 0 ELSE g[k - 1] + x[k]]
           Solves(g) == g = Step(g)
           Upto(n, g) == /\ g \in [0..n -> Nat] /\ g[0] = 0
                         /\ \A k \in 1..n : g[k] = g[k - 1] + x[k]
           Bad == {n \in 0..N : \A g : ~Upto(n, g)}
           sum[k \in 0..N] == IF k = 0 THEN 0 ELSE sum[k - 1] + x[k]
<1>1. ASSUME Bad # {} PROVE FALSE
  <2>1. Bad \subseteq Nat /\ Bad \subseteq 0..N
    OBVIOUS
  <2> HIDE DEF Bad
  <2>2. PICK n \in Bad : \A m \in Bad : n <= m
    BY <1>1, <2>1, LeastNatural
  <2>3. n \in 0..N /\ \A g : ~Upto(n, g)
    BY DEF Bad
  <2>4. CASE n = 0
    <3>1. Upto(0, [k \in 0..0 |-> 0])
      OBVIOUS
    <3> QED
      BY <2>3, <2>4, <3>1
  <2>5. CASE n # 0
    <3>1. n - 1 \in 0..N /\ n - 1 \notin Bad /\ n \in 1..N
      BY <2>1, <2>2, <2>5
    <3>2. \E g : Upto(n - 1, g)
      BY <3>1, Zenon DEF Bad
    <3>3. PICK g : Upto(n - 1, g)
      BY <3>2
    <3> DEFINE h == [k \in 0..n |-> IF k = n THEN g[n - 1] + x[n] ELSE g[k]]
    <3>4. h \in [0..n -> Nat]
      <4>1. g[n - 1] \in Nat /\ x[n] \in Nat
        BY <3>1, <3>3
      <4>2. \A k \in 0..n : k # n => g[k] \in Nat
        BY <2>1, <3>1, <3>3
      <4> QED
        BY <4>1, <4>2
    <3>5. h[0] = 0 /\ \A k \in 1..n : h[k] = h[k - 1] + x[k]
      <4>1. h[0] = 0
        BY <2>5, <3>1, <3>3
      <4>2. \A k \in 1..n : k # n => h[k] = h[k - 1] + x[k]
        <5> SUFFICES ASSUME NEW k \in 1..n, k # n PROVE h[k] = h[k - 1] + x[k]
          OBVIOUS
        <5>1. k \in 1..(n - 1) /\ k \in 0..n /\ k - 1 \in 0..n /\ k - 1 # n
          BY <3>1
        <5> QED
          BY <3>3, <5>1
      <4>3. h[n] = h[n - 1] + x[n]
        BY <3>1
      <4> QED
        BY <4>1, <4>2, <4>3
    <3>6. Upto(n, h)
      BY <3>4, <3>5
    <3> QED
      BY <2>3, <3>6, Zenon
  <2> QED
    BY <2>4, <2>5
<1>2. \E g : Upto(N, g)
  <2>1. N \in 0..N
    OBVIOUS
  <2> QED
    BY <1>1, <2>1, Zenon
<1>3. PICK g : Upto(N, g)
  BY <1>2
<1>4. Solves(g)
  BY <1>3
<1>5. sum = CHOOSE f : Solves(f)
  OBVIOUS
<1> HIDE DEF Solves, sum
<1>6. Solves(sum)
  BY <1>4, <1>5, Zenon
<1>7. /\ sum[0] = 0
      /\ \A k \in 1..N : sum[k] = sum[k - 1] + x[k]
  BY <1>6 DEF Solves
<1> DEFINE Off == {n \in 0..N : sum[n] \notin Nat}
<1>8. ASSUME Off # {} PROVE FALSE
  <2>1. Off \subseteq Nat /\ Off \subseteq 0..N
    OBVIOUS
  <2>2. \A n \in Off : sum[n] \notin Nat
    OBVIOUS
  <2>3. \A n \in 0..N : n \notin Off => sum[n] \in Nat
    OBVIOUS
  <2> HIDE DEF Off
  <2>4. PICK n \in Off : \A m \in Off : n <= m
    BY <1>8, <2>1, LeastNatural
  <2>5. n \in 1..N /\ n - 1 \in 0..N /\ n - 1 \notin Off
    BY <1>7, <2>1, <2>2, <2>4
  <2>6. sum[n - 1] \in Nat /\ x[n] \in Nat /\ sum[n] \notin Nat
    BY <2>2, <2>3, <2>5
  <2> QED
    BY <1>7, <2>5, <2>6
<1>9. sum[N] \in Nat
  <2>1. N \in 0..N
    OBVIOUS
  <2> QED
    BY <1>8, <2>1, Zenon
<1> QED
  BY <1>9 DEF SumTo, sum

LEMMA MultiplyTypes ==
  /\ \A x, y \in Int : x * y \in Int
  /\ \A x, y \in Nat : x * y \in Nat
  /\ \A x, y \in Nat \ {0} : x * y \in Nat \ {0}
  OBVIOUS

\* Rounding half up to whole steps.
LEMMA RoundedTypes ==
  ASSUME NEW n \in Int, NEW d \in Nat \ {0}
  PROVE  /\ Rounded(n, d) \in Int
         /\ n >= 0 => Rounded(n, d) \in Nat
         /\ n >= d => Rounded(n, d) \in Nat \ {0}
<1>1. \A x \in Int, y \in Nat \ {0} : /\ x \div y \in Int
                                      /\ x >= 0 => x \div y >= 0
                                      /\ x >= y => x \div y >= 1
  OBVIOUS
<1>2. 2 * n + d \in Int /\ 2 * d \in Nat \ {0} /\ (n >= 0 => 2 * n + d >= 0)
      /\ (n >= d => 2 * n + d >= 2 * d)
  OBVIOUS
<1> QED
  BY <1>1, <1>2 DEF Rounded

LEMMA MidIsPrice ==
  ASSUME NEW book \in GoodBook
  PROVE  mid_price(book) \in Nat \ {0}
<1>1. book.bid \in Nat \ {0} /\ book.ask \in Nat \ {0}
  BY DEF GoodBook
<1> QED
  BY <1>1 DEF mid_price

(* The quotes of the strategy are made from a price: the average entry, a   *)
(* TWAP, or the middle of the book (market_making.py:143-161).              *)
LEMMA TwapIsNumber ==
  ASSUME BooksTyped
  PROVE  _latest_twap_snapshot \in Nat
<1> DEFINE window == {k \in DOMAIN books : books[k].ts > now - Larger(LeastLookback, lookback)}
           counted == [k \in 1..Len(books) |-> IF k \in window THEN mid_price(books[k]) ELSE 0]
           total == SumTo(counted, Len(books))
<1>1. Len(books) \in Nat /\ DOMAIN books = 1..Len(books)
      /\ \A k \in 1..Len(books) : books[k] \in GoodBook
  BY DEF BooksTyped
<1>2. counted \in [1..Len(books) -> Nat]
  <2>1. \A k \in 1..Len(books) : mid_price(books[k]) \in Nat
    BY <1>1, MidIsPrice
  <2> QED
    BY <2>1
<1>3. total \in Nat
  <2> HIDE DEF counted
  <2> QED
    BY <1>1, <1>2, SumIsNatural
<1>4. Cardinality(window) \in Nat
  <2>1. IsFiniteSet(1..Len(books)) /\ window \subseteq 1..Len(books)
    BY <1>1, FS_Interval
  <2> HIDE DEF window
  <2> QED
    BY <2>1, FS_Subset, FS_CardinalityType
<1>5. _latest_twap_snapshot = IF Cardinality(window) < 2 THEN 0
                              ELSE total \div Cardinality(window)
  BY DEF _latest_twap_snapshot
<1> HIDE DEF window, total
<1> QED
  BY <1>3, <1>4, <1>5

LEMMA AskIsPrice ==
  ASSUME NEW reference \in Nat \ {0}
  PROVE  AskPrice(reference) \in Nat \ {0}
<1>1. TotalMarkup \in Nat
  BY MarketMakingAssumption DEF TotalMarkup
<1>2. reference * (10000 + TotalMarkup) \in Int /\ reference * (10000 + TotalMarkup) >= 10000
  <2>1. \A x, y \in Nat : x >= 1 => x * (10000 + y) \in Int /\ x * (10000 + y) >= 10000
    OBVIOUS
  <2> QED
    BY <1>1, <2>1
<1> HIDE DEF AskPrice
<1> QED
  BY <1>2, RoundedTypes DEF AskPrice

LEMMA BidIsNumber ==
  ASSUME NEW ask \in Nat
  PROVE  BidPrice(ask) \in Nat
<1>1. 10000 - BidOffsetBps \in Nat
  BY MarketMakingAssumption
<1>2. ask * (10000 - BidOffsetBps) \in Int /\ ask * (10000 - BidOffsetBps) >= 0
  BY <1>1, MultiplyTypes
<1> QED
  BY <1>2, RoundedTypes DEF BidPrice

LEMMA SlopeIsNamed ==
  _compute_twap_slope \in
    {"neutral", "steep_falling", "mild_falling", "mild_rising", "steep_rising"}
  BY DEF _compute_twap_slope

LEMMA SizeIsInteger ==
  ASSUME NEW side \in Sides, NEW size \in Int, NEW ask \in Int, NEW market \in Int,
         NEW concavity \in Concavities,
         NEW slope \in {"neutral", "steep_falling", "mild_falling", "mild_rising", "steep_rising"}
  PROVE  Scaled(side, size,
                _compute_unified_size_multiplier(side, ask, market, slope, concavity)) \in Int
<1> DEFINE multiplier == _compute_unified_size_multiplier(side, ask, market, slope, concavity)
<1>1. \A zone \in {"near", "mid", "far"} : Matrix[side][slope][zone] \in Nat
  BY DEF Matrix, Row, Sides
<1>2. \A zone \in {"near", "mid", "far"} : Matrix[side][slope][zone] * concavity \in Int
  BY <1>1, MultiplyTypes, MarketMakingAssumption
<1>3. multiplier \in Int
  BY <1>2 DEF _compute_unified_size_multiplier
<1> HIDE DEF multiplier
<1>4. Rounded(size * multiplier, 10000) \in Int
  BY <1>3, MultiplyTypes, RoundedTypes
<1>5. Scaled(side, size, multiplier) \in Int
  BY <1>4 DEF Scaled
<1> QED
  BY <1>5 DEF multiplier

(* What rests after an evaluation is typed; a sell offers no more than the  *)
(* position it was given, a buy no more than the inventory still takes      *)
(* (market_making.py:64-321).                                               *)
LEMMA EvaluateBounds ==
  ASSUME BooksTyped, deposited \in Nat, now \in Nat,
         NEW w, GoodRows(w), NEW book \in GoodBook, NEW seen \in Int,
         NEW allowed \in SUBSET Sides, NEW concavity \in Concavities
  PROVE  LET quotes == evaluate(w, book, seen, allowed, concavity)
             reference == AskReference(w.position.avg_entry_price, _latest_twap_snapshot,
                                       mid_price(book))
         IN /\ quotes \subseteq Resting /\ IsFiniteSet(quotes)
            /\ \A quote \in quotes :
                 IF quote.side = "sell"
                 THEN quote.quantity <= seen /\ quote.limit_price = AskPrice(reference)
                 ELSE /\ seen + quote.quantity <= quote.cap
                      /\ quote.limit_price = BidPrice(AskPrice(reference))
<1> DEFINE mid == mid_price(book)
           reference == AskReference(w.position.avg_entry_price, _latest_twap_snapshot, mid)
           ask == AskPrice(reference)
           value == account_value_for_limits(w, book, seen)
           cap == PctOf(value, MaxInventoryPct, mid)
           Size(side) == Scaled(side, PctOf(value, QuoteSizePct, mid),
             _compute_unified_size_multiplier(side, ask, mid, _compute_twap_slope, concavity))
           bid == _build_intent("buy", BidPrice(ask), BuySize(Size("buy"), cap - seen), cap)
           offer == _build_intent("sell", ask, SellSize(Size("sell"), seen), cap)
           quotes == evaluate(w, book, seen, allowed, concavity)
<1>1. mid \in Nat \ {0} /\ mid \in Int
  BY MidIsPrice
<1>2. w.position.avg_entry_price \in Nat /\ w.position.quantity \in Nat
      /\ w.realized \in Int /\ w.fees \in Nat
  BY DEF GoodRows, Rows
<1>3. reference \in Nat \ {0}
  <2>1. _latest_twap_snapshot \in Nat
    BY TwapIsNumber
  <2> HIDE DEF mid
  <2> QED
    BY <1>1, <1>2, <2>1 DEF AskReference
<1>4. ask \in Nat \ {0} /\ BidPrice(ask) \in Nat /\ ask \in Int
  <2> HIDE DEF reference
  <2> QED
    BY <1>3, AskIsPrice, BidIsNumber
<1>5. value \in Int
  <2>1. mid_price(Latest) \in Int
    <3>1. Latest \in GoodBook
      BY DEF BooksTyped, Latest
    <3> QED
      BY <3>1, MidIsPrice
  <2>2. Net(w.position) \in Int
    BY <1>2 DEF Net, _signed_qty
  <2>3. Net(w.position) * mid_price(Latest) \in Int /\ seen * mid \in Int
        /\ Deposit * deposited \in Int
    BY <1>1, <2>1, <2>2, MultiplyTypes, MarketMakingAssumption
  <2> HIDE DEF mid
  <2>4. account_value(w) \in Int
    BY <1>2, <2>3, MarketMakingAssumption DEF account_value
  <2>5. value = account_value(w) - Net(w.position) * mid_price(Latest) + seen * mid
    BY DEF account_value_for_limits, mid
  <2> HIDE DEF value
  <2> QED
    BY <2>3, <2>4, <2>5
<1>6. \A pct \in Nat : PctOf(value, pct, mid) \in Int
  <2> HIDE DEF value, mid
  <2>1. \A pct \in Nat : value * pct \in Int
    BY <1>5, MultiplyTypes
  <2>2. 100 * mid \in Nat \ {0}
    BY <1>1
  <2> QED
    BY <2>1, <2>2, RoundedTypes DEF PctOf
<1>7. cap \in Int
  BY <1>6, MarketMakingAssumption
<1>8. /\ Size("buy") \in Int
      /\ Size("sell") \in Int
  <2>1. PctOf(value, QuoteSizePct, mid) \in Int
    BY <1>6, MarketMakingAssumption
  <2> HIDE DEF ask, mid, value
  <2>2. "buy" \in Sides /\ "sell" \in Sides
    BY DEF Sides
  <2> QED
    BY <1>1, <1>4, <2>1, <2>2, SlopeIsNamed, SizeIsInteger
<1>9. quotes \subseteq {bid, offer}
      /\ \A quote \in quotes : quote.quantity > 0
  BY DEF evaluate, mid, _latest_avg_entry_price, _calculate_twap
<1> HIDE DEF mid, reference, ask, value, cap, Size, quotes
<1>10. bid.quantity > 0 => bid \in Resting /\ seen + bid.quantity <= bid.cap
  <2>1. Size("buy") \in Int
    BY <1>8
  <2>2. BuySize(Size("buy"), cap - seen) \in Int
    BY <1>7, <2>1 DEF BuySize, Lesser, Larger
  <2>3. BuySize(Size("buy"), cap - seen) > 0 => seen + BuySize(Size("buy"), cap - seen) <= cap
    BY <1>7, <2>1 DEF BuySize, Lesser, Larger
  <2> QED
    BY <1>4, <1>7, <2>2, <2>3 DEF _build_intent, Resting, Intents, Sides
<1>11. offer.quantity > 0 => offer \in Resting /\ offer.quantity <= seen
  <2>1. Size("sell") \in Int
    BY <1>8
  <2>2. SellSize(Size("sell"), seen) \in Int
    BY <2>1 DEF SellSize, Lesser
  <2>3. SellSize(Size("sell"), seen) > 0 => SellSize(Size("sell"), seen) <= seen
    BY <2>1 DEF SellSize, Lesser
  <2> QED
    BY <1>4, <1>7, <2>2, <2>3 DEF _build_intent, Resting, Intents, Sides
<1>12. /\ bid.side = "buy" /\ bid.limit_price = BidPrice(ask)
       /\ offer.side = "sell" /\ offer.limit_price = ask
  BY DEF _build_intent
<1> HIDE DEF bid, offer
<1>13. IsFiniteSet(quotes)
  <2>1. IsFiniteSet({bid}) /\ IsFiniteSet({offer})
    BY FS_Singleton
  <2>2. {bid, offer} = {bid} \union {offer}
    OBVIOUS
  <2>3. IsFiniteSet({bid, offer})
    BY <2>1, <2>2, FS_Union
  <2> QED
    BY <1>9, <2>3, FS_Subset
<1>14. \A quote \in quotes : quote \in Resting
  BY <1>9, <1>10, <1>11
<1>15. \A quote \in quotes :
         IF quote.side = "sell"
         THEN quote.quantity <= seen /\ quote.limit_price = ask
         ELSE seen + quote.quantity <= quote.cap /\ quote.limit_price = BidPrice(ask)
  BY <1>9, <1>10, <1>11, <1>12
<1> QED
  BY <1>13, <1>14, <1>15 DEF quotes, ask, reference, mid

(* What a touched intent fills is a fill; the rows after it are rows, and   *)
(* the position has moved by the intent (execution_flow.py:199-343).        *)
LEMMA FilledRows ==
  ASSUME NEW w, GoodRows(w), NEW intent \in w.pending, NEW book \in GoodBook,
         Touched(intent, book)
  PROVE  /\ GoodFill(FillAt(intent)) /\ intent \in Resting
         /\ GoodRows(Filled(w, intent))
         /\ Filled(w, intent).pending = w.pending \ {intent}
         /\ Net(Filled(w, intent).position) =
              Net(w.position) + _signed_qty(intent.side, intent.quantity)
<1> DEFINE fill == FillAt(intent)
<1>1. intent \in Resting
  BY DEF GoodRows
<1>2. intent.side \in Sides /\ intent.quantity \in Nat /\ intent.quantity > 0
      /\ intent.limit_price \in Nat
  BY <1>1 DEF Resting, Intents
<1>3. intent.limit_price > 0
  BY <1>1, <1>2 DEF Resting, Touched, GoodBook, Sides
<1>4. GoodFill(fill)
  BY <1>2, <1>3 DEF GoodFill, FillAt
<1>5. fill.side = intent.side /\ fill.quantity = intent.quantity
      /\ fill.price = intent.limit_price
  BY DEF FillAt
<1>6. /\ GoodRow(update_position_from_fill(w.position, fill))
      /\ Net(update_position_from_fill(w.position, fill)) = Net(w.position) + Signed(fill)
  BY <1>4, UpdateIsSum DEF GoodRows
<1>7. _compute_realized_pnl(w.position, fill) \in Int
  BY <1>4, RealizedIsInteger DEF GoodRows
<1>8. compute_fee(fill) \in Nat
  <2>1. fill.quantity * fill.price \in Nat
    BY <1>2, <1>5, MultiplyTypes
  <2>2. fill.quantity * fill.price * FeeBps \in Nat
    BY <2>1, MultiplyTypes, MarketMakingAssumption
  <2> HIDE DEF fill
  <2> QED
    BY <2>2 DEF compute_fee
<1> HIDE DEF fill
<1>9. Filled(w, intent) =
        [pending  |-> w.pending \ {intent},
         position |-> update_position_from_fill(w.position, fill),
         realized |-> w.realized + _compute_realized_pnl(w.position, fill),
         fees     |-> w.fees + compute_fee(fill)]
  BY DEF Filled, fill
<1>10. IsFiniteSet(w.pending \ {intent}) /\ w.pending \ {intent} \subseteq Resting
  BY FS_Subset DEF GoodRows
<1>11. w.realized \in Int /\ w.fees \in Nat
  BY DEF GoodRows
<1>12. w.realized + _compute_realized_pnl(w.position, fill) \in Int
       /\ w.fees + compute_fee(fill) \in Nat
  BY <1>7, <1>8, <1>11
<1> HIDE DEF Filled
<1>13. GoodRows(Filled(w, intent))
  <2>1. update_position_from_fill(w.position, fill) \in Rows
    BY <1>6 DEF GoodRow
  <2> QED
    BY <1>6, <1>9, <1>10, <1>12, <2>1 DEF GoodRows
<1> QED
  BY <1>1, <1>4, <1>5, <1>6, <1>9, <1>13 DEF fill, Signed


-----------------------------------------------------------------------------
(* Every step keeps the types. *)

LEMMA InitTyped == ASSUME Init PROVE TInv
<1>1. GoodRows(Empty)
  <2>1. GoodRow(NoRow) /\ NoRow \in Rows
    BY DEF GoodRow, NoRow, Rows
  <2>2. IsFiniteSet({})
    BY FS_EmptySet
  <2> QED
    BY <2>1, <2>2 DEF GoodRows, Empty
<1>2. BooksTyped
  <2>1. PICK q \in Quotes : books = <<[bid |-> q.bid, ask |-> q.ask, ts |-> 0]>>
    BY DEF Init
  <2>2. [bid |-> q.bid, ask |-> q.ask, ts |-> 0] \in GoodBook
    BY MarketMakingAssumption DEF GoodBook
  <2> QED
    BY <2>1, <2>2 DEF BooksTyped
<1>3. NotRunning \in Locals
  BY DEF NotRunning, NoBook, Locals
<1>4. OutsideTyped
  <2>1. /\ MaxIterations \in Nat /\ MaxFaults \in Nat /\ MaxResets \in Nat
        /\ MaxDeposits \in Nat /\ FirstLookback \in Lookbacks
    BY MarketMakingAssumption
  <2>2. /\ now = 0 /\ deposited = 0 /\ lookback = FirstLookback /\ override = lookback
        /\ torn = FALSE /\ unified_sizing_enabled \in BOOLEAN /\ faults = 0 /\ resets = 0
    BY DEF Init
  <2>3. torn \in BOOLEAN /\ lookback \in Lookbacks /\ override \in Lookbacks
    BY <2>1, <2>2, Zenon
  <2>4. \A n \in Nat : 0 \in 0..n
    OBVIOUS
  <2> QED
    BY <2>1, <2>2, <2>3, <2>4, Zenon DEF OutsideTyped
<1>5. LoopTyped
  BY <1>3 DEF Init, LoopTyped
<1> QED
  BY <1>1, <1>2, <1>4, <1>5 DEF Init, TInv

\* The list of an iteration holds intents at rest, and so does what is left of it.
LEMMA TailTyped ==
  ASSUME NEW S, NEW list \in Seq(S), list # <<>>
  PROVE  Head(list) \in S /\ Tail(list) \in Seq(S)
  OBVIOUS

LEMMA ListingTyped ==
  ASSUME NEW w, GoodRows(w), NEW list \in Listing(w)
  PROVE  list \in Seq(Resting)
<1>1. Cardinality(w.pending) \in Nat /\ w.pending \subseteq Resting
  BY FS_CardinalityType DEF GoodRows
<1>2. list \in [1..Cardinality(w.pending) -> w.pending]
  BY DEF Listing
<1>3. list \in [1..Cardinality(w.pending) -> Resting]
  BY <1>1, <1>2
<1> QED
  BY <1>1, <1>3

\* An intent that is executed still rests.
LEMMA ExecutedRests ==
  ASSUME CheckIntent, Executes(Head(it.list))
  PROVE  Head(it.list) \in work.pending /\ Touched(Head(it.list), it.book)
  BY DEF CheckIntent, Executes, Deleted, IsPending

\* Rows that lose some of what rests, and a row of an account that was erased.
LEMMA FewerTyped ==
  ASSUME NEW w, GoodRows(w), NEW fewer \in SUBSET w.pending
  PROVE  GoodRows([w EXCEPT !.pending = fewer])
<1>1. IsFiniteSet(fewer) /\ fewer \subseteq Resting
  BY FS_Subset DEF GoodRows
<1> DEFINE after == [w EXCEPT !.pending = fewer]
<1>2. after = [pending |-> fewer, position |-> w.position, realized |-> w.realized,
               fees |-> w.fees]
  BY DEF GoodRows
<1>3. w.position \in Rows /\ w.realized \in Int /\ w.fees \in Nat /\ GoodRow(w.position)
  BY DEF GoodRows
<1> QED
  BY <1>1, <1>2, <1>3 DEF GoodRows

LEMMA EmptyTyped == GoodRows(Empty) /\ GoodRow(NoRow) /\ Net(NoRow) = 0
<1>1. GoodRow(NoRow) /\ NoRow \in Rows
  BY DEF GoodRow, NoRow, Rows
<1>2. IsFiniteSet({})
  BY FS_EmptySet
<1>3. Net(NoRow) = 0
  BY <1>1, NetOfEmpty DEF NoRow
<1> QED
  BY <1>1, <1>2, <1>3 DEF GoodRows, Empty

LEMMA StepTyped ==
  ASSUME TInv, [Next]_vars
  PROVE  TInv'
<1>1. CASE Begin
  <2>1. PICK list \in Listing(work) : it' = [NotRunning EXCEPT !.book = Latest, !.list = list]
    BY <1>1, Zenon DEF Begin
  <2>2. list \in Seq(Resting)
    BY ListingTyped DEF TInv
  <2>3. Latest \in GoodBook
    BY DEF TInv, BooksTyped, Latest
  <2>4. it' = [book |-> Latest, list |-> list, cancelled |-> {}, allowed |-> {},
               seen |-> 0, last |-> FALSE, dirty |-> FALSE, torn |-> FALSE]
    BY <2>1 DEF NotRunning
  <2>5. it' \in Locals /\ it'.book \in GoodBook
    BY <2>2, <2>3, <2>4 DEF Locals, GoodBook
  <2>6. pc' = "check" /\ now' \in 0..MaxIterations /\ lookback' \in Lookbacks
        /\ UNCHANGED <<db, work, books, torn, faults, deposited, override, resets,
                       unified_sizing_enabled>>
    BY <1>1, MarketMakingAssumption
       DEF Begin, _apply_twap_lookback_override, TInv, OutsideTyped, outside
  <2> QED
    BY <2>5, <2>6 DEF TInv, BooksTyped, LoopTyped, OutsideTyped
<1>2. CASE _run_market_making_dry_run
  <2>1. now' \in 0..MaxIterations /\ lookback' \in Lookbacks
        /\ UNCHANGED <<db, work, books, pc, it, torn, faults, deposited, override, resets,
                       unified_sizing_enabled>>
    BY <1>2, MarketMakingAssumption
       DEF _run_market_making_dry_run, _apply_twap_lookback_override, TInv, OutsideTyped, outside
  <2> QED
    BY <2>1 DEF TInv, BooksTyped, LoopTyped, OutsideTyped
<1>3. CASE CheckIntent
  <2>1. it.list \in Seq(Resting) /\ it.list # <<>> /\ it.book \in GoodBook /\ it \in Locals
    BY <1>3 DEF CheckIntent, TInv, LoopTyped, Locals
  <2>2. Tail(it.list) \in Seq(Resting)
    BY <2>1, TailTyped
  <2>3. it' \in Locals /\ it'.book = it.book /\ pc' \in {"check", "reconcile"}
    <3>1. CASE Executes(Head(it.list))
      BY <1>3, <2>1, <2>2, <3>1 DEF CheckIntent, Locals
    <3>2. CASE ~Executes(Head(it.list))
      BY <1>3, <2>1, <2>2, <3>2 DEF CheckIntent, Locals
    <3> QED
      BY <3>1, <3>2
  <2>4. GoodRows(work')
    <3>1. CASE Executes(Head(it.list))
      <4>1. GoodRows(Filled(work, Head(it.list)))
        BY <1>3, <2>1, <3>1, ExecutedRests, FilledRows DEF TInv
      <4> QED
        BY <1>3, <3>1, <4>1 DEF CheckIntent
    <3>2. CASE ~Executes(Head(it.list))
      BY <1>3, <3>2 DEF CheckIntent, TInv
    <3> QED
      BY <3>1, <3>2
  <2>5. UNCHANGED <<db, books, now, lookback, torn, faults, deposited, override, resets,
                    unified_sizing_enabled>>
    BY <1>3 DEF CheckIntent, outside
  <2> QED
    BY <2>1, <2>3, <2>4, <2>5 DEF TInv, BooksTyped, LoopTyped, OutsideTyped
<1>4. CASE ListChecked
  <2>1. it' \in Locals /\ it'.book = it.book
    BY <1>4 DEF ListChecked, TInv, LoopTyped, Locals
  <2> QED
    BY <1>4, <2>1 DEF ListChecked, TInv, BooksTyped, LoopTyped, OutsideTyped, outside
<1>5. CASE _reconcile_market_making_quotes
  <2> DEFINE stale == StaleQuotes(work)
             free == FreeSides(work.pending \ stale)
  <2>1. /\ work' = [work EXCEPT !.pending = @ \ stale]
        /\ it' = [it EXCEPT !.cancelled = @ \union stale, !.allowed = free]
        /\ pc = "reconcile" /\ pc' \in {"commit", "check", "position"}
        /\ UNCHANGED <<db, books, now, lookback, torn, faults, deposited, override, resets,
                       unified_sizing_enabled>>
    BY <1>5 DEF _reconcile_market_making_quotes, AfterReconcile, outside
  <2>2. stale \subseteq Resting /\ free \subseteq Sides
    BY DEF StaleQuotes, FreeSides, TInv, GoodRows
  <2> HIDE DEF stale, free
  <2>3. it' \in Locals /\ it'.book = it.book
    BY <2>1, <2>2 DEF TInv, LoopTyped, Locals
  <2>4. GoodRows(work')
    BY <2>1, FewerTyped DEF TInv
  <2> QED
    BY <2>1, <2>3, <2>4 DEF TInv, BooksTyped, LoopTyped, OutsideTyped
<1>6. CASE _current_position
  <2>1. Net(work.position) \in Int
    BY DEF TInv, GoodRows, Rows, Net, _signed_qty
  <2>2. it' \in Locals /\ it'.book = it.book
    BY <1>6, <2>1 DEF _current_position, TInv, LoopTyped, Locals
  <2> QED
    BY <1>6, <2>2 DEF _current_position, TInv, BooksTyped, LoopTyped, OutsideTyped, outside
<1>7. ASSUME NEW concavity \in Concavities, _generate_and_persist_quotes(concavity)
      PROVE  TInv'
  <2> DEFINE quotes == evaluate(work, it.book, it.seen, it.allowed, concavity)
  <2>1. it.book \in GoodBook /\ it.seen \in Int /\ it.allowed \in SUBSET Sides
    BY <1>7 DEF _generate_and_persist_quotes, TInv, LoopTyped, Locals
  <2>2. quotes \subseteq Resting /\ IsFiniteSet(quotes)
    <3>1. BooksTyped /\ GoodRows(work) /\ deposited \in Nat /\ now \in Nat
      BY DEF TInv, OutsideTyped
    <3> HIDE DEF quotes
    <3> QED
      BY <2>1, <3>1, EvaluateBounds DEF quotes
  <2>3. /\ work' = [work EXCEPT !.pending = @ \union quotes]
        /\ pc = "quote" /\ pc' \in {"commit", "check"}
        /\ UNCHANGED <<db, books, it, now, lookback, torn, faults, deposited, override, resets,
                       unified_sizing_enabled>>
    BY <1>7 DEF _generate_and_persist_quotes, AfterReconcile, outside
  <2> HIDE DEF quotes
  <2>4. GoodRows(work')
    <3>1. IsFiniteSet(work.pending \union quotes) /\ work.pending \union quotes \subseteq Resting
      BY <2>2, FS_Union DEF TInv, GoodRows
    <3>2. work' = [pending |-> work.pending \union quotes, position |-> work.position,
                   realized |-> work.realized, fees |-> work.fees]
      BY <2>3, Zenon DEF TInv, GoodRows
    <3> QED
      BY <3>1, <3>2 DEF TInv, GoodRows
  <2> QED
    BY <2>3, <2>4 DEF TInv, BooksTyped, LoopTyped, OutsideTyped
<1>8. CASE Commit \/ FillOfDeletedIntent \/ IterationFails
  <2>1. NotRunning \in Locals
    BY DEF NotRunning, NoBook, Locals
  <2>2. /\ it' = NotRunning /\ pc' = "idle"
        /\ db' \in {db, work} /\ work' \in {db, work} /\ torn' \in BOOLEAN
        /\ faults' \in 0..MaxFaults
        /\ UNCHANGED <<books, now, lookback, deposited, override, resets, unified_sizing_enabled>>
    <3>1. it.torn \in BOOLEAN /\ torn \in BOOLEAN /\ faults \in 0..MaxFaults
      BY DEF TInv, LoopTyped, Locals, OutsideTyped
    <3>2. CASE Commit
      BY <3>1, <3>2 DEF Commit, outside
    <3>3. CASE FillOfDeletedIntent
      BY <3>1, <3>3 DEF FillOfDeletedIntent, Rollback, outside
    <3>4. CASE IterationFails
      BY <3>1, <3>4, MarketMakingAssumption DEF IterationFails, Rollback, outside
    <3> QED
      BY <1>8, <3>2, <3>3, <3>4
  <2> QED
    BY <2>1, <2>2 DEF TInv, BooksTyped, LoopTyped, OutsideTyped
<1>9. ASSUME NEW quote \in Quotes, OrderBookArrives(quote)
      PROVE  TInv'
  <2>1. [bid |-> quote.bid, ask |-> quote.ask, ts |-> now] \in GoodBook
    BY MarketMakingAssumption DEF GoodBook, TInv, OutsideTyped
  <2>2. books' \in Seq(GoodBook) /\ books' # <<>>
    BY <1>9, <2>1 DEF OrderBookArrives, TInv, BooksTyped
  <2> QED
    BY <1>9, <2>2 DEF OrderBookArrives, TInv, BooksTyped, LoopTyped, OutsideTyped, outside
<1>10. CASE deposit_create \/ \E hours \in Lookbacks : twap_lookback_set(hours)
  <2>1. deposited' \in 0..MaxDeposits /\ override' \in Lookbacks
        /\ UNCHANGED <<db, work, books, pc, it, now, lookback, torn, unified_sizing_enabled,
                       faults, resets>>
    BY <1>10, MarketMakingAssumption DEF deposit_create, twap_lookback_set, TInv, OutsideTyped
  <2> QED
    BY <2>1 DEF TInv, BooksTyped, LoopTyped, OutsideTyped
<1>11. CASE reset_run_history
  <2>1. /\ db' = Empty
        /\ work' = [Empty EXCEPT !.pending = work.pending \ db.pending]
        /\ it' = [it EXCEPT !.torn = @ \/ ReadPosition]
        /\ torn' = FALSE /\ resets' \in 0..MaxResets
        /\ UNCHANGED <<books, pc, now, deposited, lookback, override, faults,
                       unified_sizing_enabled>>
    BY <1>11, MarketMakingAssumption DEF reset_run_history, TInv, OutsideTyped
  <2>2. it' \in Locals /\ it'.book = it.book
    BY <2>1 DEF ReadPosition, TInv, LoopTyped, Locals
  <2>3. GoodRows(work')
    <3>1. IsFiniteSet(work.pending \ db.pending) /\ work.pending \ db.pending \subseteq Resting
      BY FS_Subset DEF TInv, GoodRows
    <3>2. work' = [pending |-> work.pending \ db.pending, position |-> NoRow,
                   realized |-> 0, fees |-> 0]
      BY <2>1 DEF Empty
    <3>3. NoRow \in Rows /\ GoodRow(NoRow)
      BY EmptyTyped DEF GoodRow
    <3> QED
      BY <3>1, <3>2, <3>3 DEF GoodRows
  <2> QED
    BY <2>1, <2>2, <2>3, EmptyTyped DEF TInv, BooksTyped, LoopTyped, OutsideTyped
<1>12. CASE UNCHANGED vars
  BY <1>12 DEF vars, TInv, BooksTyped, LoopTyped, OutsideTyped
<1> QED
  BY <1>1, <1>2, <1>3, <1>4, <1>5, <1>6, <1>7, <1>8, <1>9, <1>10, <1>11, <1>12 DEF Next, Done

(* Prices, sizes, averages and fees stay numbers of the types the rows      *)
(* declare, through every rounding and division the strategy makes          *)
(* (market_making.py:64-321, execution_flow.py:199-343).                    *)
THEOREM TypeCorrect == Spec => []TypeOK
<1>1. TInv => TypeOK
  <2> SUFFICES ASSUME TInv PROVE TypeOK
    OBVIOUS
  <2>1. \A w \in {db, work} : /\ w.pending \subseteq Intents /\ w.position \in Rows
                              /\ w.realized \in Int /\ w.fees \in Nat
    BY DEF TInv, GoodRows, Resting
  <2>2. books \in Seq([bid : Nat, ask : Nat, ts : Nat])
    <3>1. GoodBook \subseteq [bid : Nat, ask : Nat, ts : Nat]
      BY DEF GoodBook
    <3>2. books \in Seq(GoodBook)
      BY DEF TInv, BooksTyped
    <3> HIDE DEF GoodBook
    <3> QED
      BY <3>1, <3>2, SeqMonotonic
  <2>3. it \in Locals
    BY DEF TInv, LoopTyped
  <2>4. \A k \in DOMAIN it.list : it.list[k] \in Intents
    BY <2>3 DEF Locals, Resting
  <2>5. /\ it.cancelled \subseteq Intents /\ it.allowed \subseteq Sides /\ it.seen \in Int
        /\ it.last \in BOOLEAN /\ it.dirty \in BOOLEAN /\ it.torn \in BOOLEAN
    BY <2>3 DEF Locals, Resting
  <2> QED
    BY <2>1, <2>2, <2>4, <2>5 DEF TypeOK, TInv, LoopTyped, OutsideTyped
<1> QED
  BY <1>1, InitTyped, StepTyped, PTL DEF Spec

-----------------------------------------------------------------------------
(* Whatever rests can be filled.  A quote is sized by a position that was   *)
(* read before it; the induction carries that, unless a reset came between, *)
(* the position is still the one read, and that a fill of one side only     *)
(* makes room for the other.                                                *)

Covered(w) ==
  /\ Net(w.position) >= 0
  /\ \A intent \in w.pending :
       IF intent.side = "sell" THEN intent.quantity <= Net(w.position)
       ELSE Net(w.position) + intent.quantity <= intent.cap

SeenIsHeld == pc = "quote" => it.seen = Net(work.position)

BInv ==
  /\ pc = "idle" => work = db /\ ~it.torn
  /\ ~torn => Covered(db)
  /\ ~torn /\ ~it.torn => Covered(work) /\ SeenIsHeld

\* Rows with fewer quotes on the same position.
LEMMA FewerCovered ==
  ASSUME NEW v, NEW w, v.position = w.position, v.pending \subseteq w.pending, Covered(w)
  PROVE  Covered(v)
<1> QED
  BY DEF Covered

LEMMA EmptyCovered == Covered(Empty)
<1>1. Empty.position = NoRow /\ Empty.pending = {}
  BY DEF Empty
<1> QED
  BY <1>1, EmptyTyped DEF Covered

(* A fill of one side leaves room for the other: a sale lowers the position *)
(* a buy fits under, a buy raises the one a sale is covered by.             *)
LEMMA FillCovered ==
  ASSUME NEW w, GoodRows(w), OneEach(w.pending), Covered(w),
         NEW intent \in w.pending, NEW book \in GoodBook, Touched(intent, book)
  PROVE  Covered(Filled(w, intent))
<1> DEFINE after == Filled(w, intent)
<1>1. /\ after.pending = w.pending \ {intent}
      /\ Net(after.position) = Net(w.position) + _signed_qty(intent.side, intent.quantity)
  BY FilledRows
<1>2. Net(w.position) \in Int
  BY DEF GoodRows, Rows, Net, _signed_qty
<1>3. \A other \in w.pending : /\ other.side \in {"buy", "sell"} /\ other.quantity \in Nat
                               /\ other.quantity > 0 /\ other.cap \in Int
  BY DEF GoodRows, Resting, Intents, Sides
<1>4. \A other \in w.pending \ {intent} : other.side # intent.side
  BY DEF OneEach
<1> HIDE DEF after
<1>5. CASE intent.side = "sell"
  <2>1. intent.quantity <= Net(w.position)
    BY <1>5 DEF Covered
  <2>2. Net(after.position) = Net(w.position) - intent.quantity
    BY <1>1, <1>2, <1>3, <1>5 DEF _signed_qty
  <2>3. Net(after.position) >= 0 /\ Net(after.position) <= Net(w.position)
        /\ Net(after.position) \in Int
    BY <1>2, <1>3, <2>1, <2>2
  <2>4. \A other \in after.pending : other.side = "buy" /\ other \in w.pending
    BY <1>1, <1>3, <1>4, <1>5
  <2>5. \A other \in after.pending : Net(after.position) + other.quantity <= other.cap
    <3> SUFFICES ASSUME NEW other \in after.pending
                 PROVE  Net(after.position) + other.quantity <= other.cap
      OBVIOUS
    <3>1. Net(w.position) + other.quantity <= other.cap
      BY <2>4 DEF Covered
    <3> QED
      BY <1>2, <1>3, <2>3, <2>4, <3>1
  <2> QED
    BY <2>3, <2>4, <2>5 DEF Covered, after
<1>6. CASE intent.side = "buy"
  <2>1. Net(after.position) = Net(w.position) + intent.quantity
    BY <1>1, <1>6 DEF _signed_qty
  <2>2. Net(after.position) >= Net(w.position) /\ Net(w.position) >= 0
        /\ Net(after.position) \in Int
    BY <1>2, <1>3, <2>1 DEF Covered
  <2>3. \A other \in after.pending : other.side = "sell" /\ other \in w.pending
    BY <1>1, <1>3, <1>4, <1>6
  <2>4. \A other \in after.pending : other.quantity <= Net(after.position)
    <3> SUFFICES ASSUME NEW other \in after.pending
                 PROVE  other.quantity <= Net(after.position)
      OBVIOUS
    <3>1. other.quantity <= Net(w.position)
      BY <2>3 DEF Covered
    <3> QED
      BY <1>2, <1>3, <2>2, <2>3, <3>1
  <2> QED
    BY <1>2, <2>2, <2>3, <2>4 DEF Covered, after
<1> QED
  BY <1>3, <1>5, <1>6

\* What holds of the committed rows and of the session's, holds of every view.
LEMMA ViewsHold ==
  ASSUME NEW v \in Views, ~v[2]
  PROVE  ~torn /\ (v[1] = db \/ (v[1] = work /\ ~it.torn))
<1>1. CASE v = <<db, torn>>
  <2>1. v[1] = db /\ v[2] = torn
    BY <1>1
  <2> QED
    BY <2>1
<1>2. CASE v = <<work, torn \/ it.torn>>
  <2>1. v[1] = work /\ v[2] = (torn \/ it.torn)
    BY <1>2
  <2> QED
    BY <2>1
<1> QED
  BY <1>1, <1>2 DEF Views

LEMMA InitCovered == ASSUME Init PROVE BInv
<1> QED
  BY EmptyCovered DEF Init, BInv, NotRunning, SeenIsHeld

LEMMA StepCovered ==
  ASSUME TInv, IInv, BInv, [Next]_vars
  PROVE  BInv'
<1>1. it \in Locals /\ GoodRows(work) /\ GoodRows(db)
  BY DEF TInv, LoopTyped
<1>2. CASE Begin
  <2>1. PICK list : it' = [NotRunning EXCEPT !.book = Latest, !.list = list]
    BY <1>2, Zenon DEF Begin
  <2>2. ~it'.torn /\ ~it.torn
    BY <1>2, <2>1 DEF NotRunning, Begin, BInv
  <2>3. pc' = "check" /\ UNCHANGED <<db, work, torn>>
    BY <1>2 DEF Begin
  <2> QED
    BY <2>2, <2>3 DEF BInv, SeenIsHeld
<1>3. CASE CheckIntent
  <2>1. /\ pc = "check" /\ pc' \in {"check", "reconcile"} /\ UNCHANGED <<db, torn>>
        /\ it'.torn = it.torn
    BY <1>1, <1>3 DEF CheckIntent, Locals
  <2>2. ~torn /\ ~it.torn => Covered(work')
    <3>1. CASE Executes(Head(it.list))
      <4>1. work' = Filled(work, Head(it.list)) /\ it.book \in GoodBook
        BY <1>3, <3>1 DEF CheckIntent, TInv, LoopTyped
      <4>2. Head(it.list) \in work.pending /\ Touched(Head(it.list), it.book)
        BY <1>3, <3>1, ExecutedRests
      <4> QED
        BY <1>1, <4>1, <4>2, FillCovered DEF BInv, IInv
    <3>2. CASE ~Executes(Head(it.list))
      BY <1>3, <3>2 DEF CheckIntent, BInv
    <3> QED
      BY <3>1, <3>2
  <2> QED
    BY <2>1, <2>2 DEF BInv, SeenIsHeld
<1>4. CASE ListChecked
  <2>1. /\ pc # "idle" /\ pc' = "reconcile" /\ UNCHANGED <<db, work, torn>>
        /\ it'.torn = it.torn
    BY <1>1, <1>4 DEF ListChecked, Locals
  <2> QED
    BY <2>1 DEF BInv, SeenIsHeld
<1>5. CASE _reconcile_market_making_quotes
  <2> DEFINE stale == StaleQuotes(work)
             free == FreeSides(work.pending \ stale)
  <2>1. /\ work' = [work EXCEPT !.pending = @ \ stale]
        /\ it' = [it EXCEPT !.cancelled = @ \union stale, !.allowed = free]
        /\ pc' \in {"commit", "check", "position"} /\ UNCHANGED <<db, torn>>
    BY <1>5 DEF _reconcile_market_making_quotes, AfterReconcile
  <2> HIDE DEF stale, free
  <2>2. it'.torn = it.torn
    BY <1>1, <2>1 DEF Locals
  <2>3. work'.position = work.position /\ work'.pending = work.pending \ stale
    BY <1>1, <2>1 DEF GoodRows
  <2>4. ~torn /\ ~it.torn => Covered(work')
    BY <2>3, FewerCovered DEF BInv
  <2> QED
    BY <2>1, <2>2, <2>4 DEF BInv, SeenIsHeld
<1>6. CASE _current_position
  <2>1. /\ it'.seen = Net(work.position) /\ it'.torn = it.torn
        /\ pc' = "quote" /\ UNCHANGED <<db, work, torn>>
    BY <1>1, <1>6 DEF _current_position, Locals
  <2> QED
    BY <2>1 DEF BInv, SeenIsHeld
<1>7. ASSUME NEW concavity \in Concavities, _generate_and_persist_quotes(concavity)
      PROVE  BInv'
  <2> DEFINE quotes == evaluate(work, it.book, it.seen, it.allowed, concavity)
  <2>1. /\ work' = [work EXCEPT !.pending = @ \union quotes]
        /\ pc = "quote" /\ pc' \in {"commit", "check"} /\ UNCHANGED <<db, it, torn>>
    BY <1>7 DEF _generate_and_persist_quotes, AfterReconcile
  <2>2. \A quote \in quotes : IF quote.side = "sell" THEN quote.quantity <= it.seen
                              ELSE it.seen + quote.quantity <= quote.cap
    <3>1. BooksTyped /\ deposited \in Nat /\ now \in Nat
      BY DEF TInv, OutsideTyped
    <3>2. it.book \in GoodBook /\ it.seen \in Int /\ it.allowed \in SUBSET Sides
      BY <1>1, <2>1 DEF TInv, LoopTyped, Locals
    <3> HIDE DEF quotes
    <3> QED
      BY <1>1, <3>1, <3>2, EvaluateBounds DEF quotes
  <2> HIDE DEF quotes
  <2>3. work'.position = work.position /\ work'.pending = work.pending \union quotes
    BY <1>1, <2>1 DEF GoodRows
  <2>4. ~torn /\ ~it.torn => Covered(work')
    BY <2>1, <2>2, <2>3 DEF BInv, SeenIsHeld, Covered
  <2> QED
    BY <2>1, <2>4 DEF BInv, SeenIsHeld
<1>8. CASE Commit
  BY <1>8 DEF Commit, BInv, SeenIsHeld, NotRunning
<1>9. CASE FillOfDeletedIntent \/ IterationFails
  BY <1>9 DEF FillOfDeletedIntent, IterationFails, Rollback, BInv, SeenIsHeld, NotRunning
<1>10. CASE reset_run_history
  <2>1. /\ db' = Empty /\ pc' = pc /\ torn' = FALSE
        /\ work' = [Empty EXCEPT !.pending = work.pending \ db.pending]
        /\ it' = [it EXCEPT !.torn = @ \/ ReadPosition]
    BY <1>10 DEF reset_run_history
  <2>2. it'.torn = (it.torn \/ ReadPosition)
    BY <1>1, <2>1 DEF Locals
  <2>3. ~ReadPosition => pc # "quote" /\ work' = Empty
    <3>1. ~ReadPosition => work.pending \ db.pending = {}
      BY DEF ReadPosition
    <3>2. Empty = [Empty EXCEPT !.pending = {}]
      BY DEF Empty
    <3> QED
      BY <2>1, <3>1, <3>2 DEF ReadPosition
  <2>4. pc = "idle" => ~ReadPosition
    BY DEF BInv, ReadPosition
  <2> QED
    BY <2>1, <2>2, <2>3, <2>4, EmptyCovered DEF BInv, SeenIsHeld
<1>11. CASE UNCHANGED <<db, work, pc, it, torn>>
  BY <1>11 DEF BInv, SeenIsHeld
<1> QED
  BY <1>2, <1>3, <1>4, <1>5, <1>6, <1>7, <1>8, <1>9, <1>10, <1>11
     DEF Next, _run_market_making_dry_run, OrderBookArrives, twap_lookback_set, deposit_create,
         Done, vars

(* However fills, requotes, cancellations, failures and resets interleave,  *)
(* the account is never short, a resting sell is covered by the position    *)
(* and a resting buy fits under the inventory it was sized by; a reset      *)
(* between a read and its commit is the one exception                       *)
(* (market_making.py:199-299, main.py:433-456).                             *)
THEOREM InventoryStaysWithinBounds == Spec => []InventoryWithinBounds
<1>1. ASSUME BInv PROVE InventoryWithinBounds
  <2>1. \A v \in Views : ~v[2] => Covered(v[1])
    BY <1>1, ViewsHold DEF BInv
  <2> QED
    BY <2>1 DEF Covered, InventoryWithinBounds
<1> QED
  BY <1>1, InitOneEach, StepOneEach, InitTyped, StepTyped, InitCovered, StepCovered, PTL DEF Spec

-----------------------------------------------------------------------------
(* No sale below cost.  Quotes are rounded to the price step, so what the   *)
(* strategy earns must be more than what rounding can lose: that bounds     *)
(* from below the price from which on a sale recovers its cost.             *)

SaleRecovers(price, cost) == price * (10000 - FeeBps) >= cost * (10000 + FeeBps)

\* `least` is no more than any price the market asks, and from it on the
\* profit outweighs a rounded half step of the ask, the offset one of each.
WorthFrom(least) ==
  /\ FeeBps <= 10000
  /\ \A quote \in Quotes : quote.ask >= least
  /\ 2 * least * (10000 * TargetProfitBps - TotalMarkup * FeeBps) >= 10000 * (10000 - FeeBps)
  /\ 2 * least * (100000000 - (10000 + TotalMarkup) * (10000 - BidOffsetBps))
       >= 10000 * (10000 - BidOffsetBps) + 100000000

\* What is rounded half up is off by half a step at most.
LEMMA RoundedNear ==
  ASSUME NEW n \in Int
  PROVE  /\ Rounded(n, 10000) \in Int
         /\ 20000 * Rounded(n, 10000) <= 2 * n + 10000
         /\ 20000 * Rounded(n, 10000) >= 2 * n - 10000
<1>1. \A m \in Int : m \div 20000 \in Int
                      /\ 20000 * (m \div 20000) <= m /\ 20000 * (m \div 20000) > m - 20000
  OBVIOUS
<1>2. Rounded(n, 10000) = (2 * n + 10000) \div 20000
  BY DEF Rounded
<1> QED
  BY <1>1, <1>2

LEMMA ScalesUp ==
  ASSUME NEW m \in Int, NEW n \in Int, NEW k \in Nat, m >= n
  PROVE  m * k >= n * k
  OBVIOUS

\* A bound that holds for a price holds for every higher one.
LEMMA HoldsAbove ==
  ASSUME NEW least \in Nat \ {0}, NEW a \in Nat, a >= least, NEW k \in Int, NEW b \in Nat,
         2 * least * k >= b
  PROVE  2 * (a * k) >= b
<1>1. k >= 0
  <2>1. \A x \in Nat \ {0}, y \in Int : y < 0 => x * y < 0
    OBVIOUS
  <2>2. 2 * least \in Nat \ {0}
    OBVIOUS
  <2> QED
    BY <2>1, <2>2
<1>2. a * k >= least * k
  BY <1>1, ScalesUp
<1>3. 2 * least * k = 2 * (least * k) /\ a * k \in Int /\ least * k \in Int
  OBVIOUS
<1> QED
  BY <1>2, <1>3

(* The markup of a quoted ask pays the fees of both sides, whatever the     *)
(* average it is taken from (market_making.py:143-157).                     *)
LEMMA AskRecovers ==
  ASSUME NEW least \in Nat \ {0}, WorthFrom(least), NEW a \in Nat, a >= least
  PROVE  SaleRecovers(AskPrice(a), a)
<1> DEFINE ask == AskPrice(a)
           M == 10000 + TotalMarkup
           R == 10000 - FeeBps
           K == 10000 * TargetProfitBps - TotalMarkup * FeeBps
<1>1. FeeBps \in Nat /\ TargetProfitBps \in Nat /\ TotalMarkup = 2 * FeeBps + TargetProfitBps
  BY MarketMakingAssumption DEF TotalMarkup
<1>2. M \in Nat /\ R \in Nat /\ K \in Int /\ TotalMarkup \in Nat
  BY <1>1, MultiplyTypes DEF WorthFrom
<1>3. M * R = 10000 * (10000 + FeeBps) + K
  BY <1>1
<1>4. 2 * (a * K) >= 10000 * R
  <2>1. 2 * least * K >= 10000 * R
    BY DEF WorthFrom
  <2>2. 10000 * R \in Nat
    BY <1>2
  <2> HIDE DEF K, R
  <2> QED
    BY <1>2, <2>1, <2>2, HoldsAbove
<1>5. 20000 * ask >= 2 * (a * M) - 10000 /\ a * M \in Int /\ ask \in Int
  <2>1. a * M \in Int
    BY <1>2, MultiplyTypes
  <2>2. ask = Rounded(a * M, 10000)
    BY DEF AskPrice
  <2> HIDE DEF ask, M
  <2> QED
    BY <2>1, <2>2, RoundedNear
<1> HIDE DEF ask, M, R, K
<1>6. (20000 * ask) * R >= (2 * (a * M) - 10000) * R
  BY <1>2, <1>5, ScalesUp
<1>7. (20000 * ask) * R = 20000 * (ask * R) /\ ask * R \in Int
  BY <1>2, <1>5
<1>8. (2 * (a * M) - 10000) * R = 2 * (a * (M * R)) - 10000 * R
  BY <1>2
<1>9. a * (M * R) = 10000 * (a * (10000 + FeeBps)) + a * K
      /\ a * (10000 + FeeBps) \in Int /\ a * K \in Int
  BY <1>1, <1>2, <1>3
<1>10. ask * R >= a * (10000 + FeeBps)
  BY <1>2, <1>4, <1>6, <1>7, <1>8, <1>9
<1> QED
  BY <1>10 DEF SaleRecovers, ask, R

(* The quoted bid is not above the average it is taken from: the offset     *)
(* outweighs the markup (market_making.py:158-165).                         *)
LEMMA BidIsBelow ==
  ASSUME NEW least \in Nat \ {0}, WorthFrom(least), NEW a \in Nat, a >= least
  PROVE  BidPrice(AskPrice(a)) <= a
<1> DEFINE ask == AskPrice(a)
           bid == BidPrice(ask)
           M == 10000 + TotalMarkup
           B == 10000 - BidOffsetBps
           J == 100000000 - M * B
<1>1. TotalMarkup \in Nat
  BY MarketMakingAssumption DEF TotalMarkup
<1>2. M \in Nat /\ B \in Nat /\ J \in Int
  BY <1>1, MultiplyTypes, MarketMakingAssumption
<1>3. 2 * (a * J) >= 10000 * B + 100000000
  <2>1. 2 * least * J >= 10000 * B + 100000000
    BY DEF WorthFrom
  <2>2. 10000 * B + 100000000 \in Nat
    BY <1>2
  <2> HIDE DEF J, B
  <2> QED
    BY <1>2, <2>1, <2>2, HoldsAbove
<1>4. 20000 * ask <= 2 * (a * M) + 10000 /\ a * M \in Int /\ ask \in Int
  <2>1. a * M \in Int
    BY <1>2, MultiplyTypes
  <2>2. ask = Rounded(a * M, 10000)
    BY DEF AskPrice
  <2> HIDE DEF ask, M
  <2> QED
    BY <2>1, <2>2, RoundedNear
<1> HIDE DEF ask
<1>5. 20000 * bid <= 2 * (ask * B) + 10000 /\ ask * B \in Int /\ bid \in Int
  <2>1. ask * B \in Int
    BY <1>2, <1>4, MultiplyTypes
  <2>2. bid = Rounded(ask * B, 10000)
    BY DEF BidPrice
  <2> HIDE DEF bid, B
  <2> QED
    BY <2>1, <2>2, RoundedNear
<1>6. M * B = 100000000 - J
  BY <1>2
<1> HIDE DEF bid, M, B, J
<1>7. (2 * (a * M) + 10000) * B >= (20000 * ask) * B
  BY <1>2, <1>4, ScalesUp
<1>8. (20000 * ask) * B = 20000 * (ask * B)
  BY <1>2, <1>4
<1>9. (2 * (a * M) + 10000) * B = 2 * (a * (M * B)) + 10000 * B
  BY <1>2
<1>10. a * (M * B) = 100000000 * a - a * J /\ a * J \in Int
  BY <1>2, <1>6
<1>11. bid <= a
  BY <1>2, <1>3, <1>5, <1>7, <1>8, <1>9, <1>10
<1> QED
  BY <1>11 DEF bid, ask

\* The average is a price of the market, resting sells recover it, and no
\* resting buy can raise it.
Recovered(w, least) ==
  /\ w.position.avg_entry_price > 0 => w.position.avg_entry_price >= least
  /\ \A intent \in w.pending :
       IF intent.side = "sell" THEN SaleRecovers(intent.limit_price, w.position.avg_entry_price)
       ELSE Net(w.position) > 0 => intent.limit_price <= w.position.avg_entry_price

CInv(least) ==
  /\ \A k \in 1..Len(books) : books[k].ask >= least
  /\ pc # "idle" => it.book.ask >= least
  /\ ~torn => Recovered(db, least)
  /\ ~torn /\ ~it.torn => Recovered(work, least)

LEMMA FewerRecovered ==
  ASSUME NEW v, NEW w, NEW least, v.position = w.position, v.pending \subseteq w.pending,
         Recovered(w, least)
  PROVE  Recovered(v, least)
<1> QED
  BY DEF Recovered

LEMMA EmptyRecovered == ASSUME NEW least PROVE Recovered(Empty, least)
<1>1. Empty.position.avg_entry_price = 0 /\ Empty.pending = {}
  BY DEF Empty, NoRow
<1> QED
  BY <1>1 DEF Recovered

(* A row that holds a long position is on the buy side, has an average, and *)
(* only a fill of the other side leaves that average as it is.              *)
LEMMA LongRow ==
  ASSUME NEW row, GoodRow(row), Net(row) > 0
  PROVE  row.side = "buy" /\ row.quantity = Net(row) /\ row.avg_entry_price > 0
<1>1. row.quantity \in Nat /\ (row.quantity > 0 <=> row.avg_entry_price > 0)
  BY DEF GoodRow, Rows
<1>2. Net(row) = IF row.side = "buy" THEN row.quantity ELSE -row.quantity
  BY DEF Net, _signed_qty
<1> QED
  BY <1>1, <1>2

(* Selling from a long position leaves its average, until nothing is left.  *)
LEMMA SaleKeepsAverage ==
  ASSUME NEW row, GoodRow(row), NEW fill, GoodFill(fill), fill.side = "sell",
         fill.quantity <= Net(row)
  PROVE  LET after == update_position_from_fill(row, fill)
         IN /\ after.avg_entry_price > 0 => after.avg_entry_price = row.avg_entry_price
            /\ Net(after) > 0 => after.avg_entry_price = row.avg_entry_price
<1> DEFINE after == update_position_from_fill(row, fill)
           new == Net(row) + Signed(fill)
<1>1. fill.quantity \in Nat /\ fill.quantity > 0 /\ row \in Rows /\ Net(row) \in Int
  BY DEF GoodFill, GoodRow, Rows, Net, _signed_qty
<1>2. row.side = "buy" /\ row.quantity = Net(row)
  BY <1>1, LongRow
<1>3. Signed(fill) = -fill.quantity
  BY DEF Signed, _signed_qty
<1>4. CASE new = 0
  <2>1. after.avg_entry_price = 0
    BY <1>1, <1>4 DEF update_position_from_fill, Rows
  <2>2. Net(after) = 0
    BY <1>4, UpdateIsSum
  <2> QED
    BY <2>1, <2>2
<1>5. CASE new # 0
  <2>1. Net(row) # 0 /\ ~SameDirection(Net(row), Signed(fill)) /\ fill.quantity < row.quantity
    BY <1>1, <1>2, <1>3, <1>5 DEF SameDirection
  <2>2. after = [row EXCEPT !.quantity = Abs(new)]
    BY <1>5, <2>1 DEF update_position_from_fill
  <2>3. after.avg_entry_price = row.avg_entry_price
    BY <1>1, <2>2 DEF Rows
  <2> QED
    BY <2>3
<1> QED
  BY <1>4, <1>5

(* Buying into no position or a long one takes the weighted average.        *)
LEMMA BuyAverages ==
  ASSUME NEW row, GoodRow(row), NEW fill, GoodFill(fill), fill.side = "buy", Net(row) >= 0
  PROVE  update_position_from_fill(row, fill).avg_entry_price = WeightedAverage(row, fill)
<1> DEFINE new == Net(row) + Signed(fill)
<1>1. fill.quantity \in Nat /\ fill.quantity > 0 /\ Net(row) \in Int
  BY DEF GoodFill, GoodRow, Rows, Net, _signed_qty
<1>2. Signed(fill) = fill.quantity
  BY DEF Signed, _signed_qty
<1>3. new # 0 /\ (Net(row) = 0 \/ SameDirection(Net(row), Signed(fill)))
  BY <1>1, <1>2 DEF SameDirection
<1>4. update_position_from_fill(row, fill) = Added(row, fill, Abs(new))
  BY <1>3 DEF update_position_from_fill
<1> QED
  BY <1>4 DEF Added

\* A sale that recovers a cost recovers any lower one.
LEMMA RecoversLess ==
  ASSUME NEW price \in Nat, NEW cost \in Nat, NEW lower \in Nat, lower <= cost,
         SaleRecovers(price, cost)
  PROVE  SaleRecovers(price, lower)
<1>1. FeeBps \in Nat
  BY MarketMakingAssumption
<1>2. cost * (10000 + FeeBps) >= lower * (10000 + FeeBps)
  BY <1>1, ScalesUp
<1>3. /\ cost * (10000 + FeeBps) \in Int /\ lower * (10000 + FeeBps) \in Int
      /\ price * (10000 - FeeBps) \in Int
  BY <1>1
<1> QED
  BY <1>2, <1>3 DEF SaleRecovers

LEMMA FillRecovered ==
  ASSUME NEW w, GoodRows(w), OneEach(w.pending), Covered(w), NEW least \in Nat \ {0},
         Recovered(w, least), NEW intent \in w.pending, NEW book \in GoodBook,
         Touched(intent, book), book.ask >= least
  PROVE  Recovered(Filled(w, intent), least)
<1> DEFINE after == Filled(w, intent)
           fill == FillAt(intent)
<1>1. /\ GoodFill(fill) /\ GoodRow(w.position)
      /\ after.pending = w.pending \ {intent}
      /\ after.position = update_position_from_fill(w.position, fill)
      /\ fill.side = intent.side /\ fill.quantity = intent.quantity
      /\ fill.price = intent.limit_price
  BY FilledRows DEF Filled, FillAt, GoodRows
<1>2. Net(w.position) \in Int /\ w.position.avg_entry_price \in Nat
      /\ w.position.quantity \in Nat
  BY DEF GoodRows, Rows, Net, _signed_qty
<1>3. \A other \in w.pending : /\ other.side \in {"buy", "sell"} /\ other.quantity \in Nat
                               /\ other.quantity > 0 /\ other.limit_price \in Nat
  BY DEF GoodRows, Resting, Intents, Sides
<1>4. \A other \in w.pending \ {intent} : other.side # intent.side
  BY DEF OneEach
<1>5. GoodRow(after.position)
  BY <1>1, UpdateIsSum
<1> HIDE DEF after, fill
<1>6. CASE intent.side = "sell"
  <2>1. /\ after.position.avg_entry_price > 0 =>
             after.position.avg_entry_price = w.position.avg_entry_price
        /\ Net(after.position) > 0 =>
             after.position.avg_entry_price = w.position.avg_entry_price
    <3>1. intent.quantity <= Net(w.position)
      BY <1>6 DEF Covered
    <3> QED
      BY <1>1, <1>6, <3>1, SaleKeepsAverage
  <2>2. Net(w.position) > 0
    BY <1>2, <1>3, <1>6 DEF Covered
  <2>3. \A other \in after.pending : other.side = "buy" /\ other \in w.pending
    BY <1>1, <1>3, <1>4, <1>6
  <2>4. \A other \in after.pending :
          Net(after.position) > 0 => other.limit_price <= after.position.avg_entry_price
    BY <2>1, <2>2, <2>3 DEF Recovered
  <2>5. after.position.avg_entry_price > 0 => after.position.avg_entry_price >= least
    BY <2>1 DEF Recovered
  <2> QED
    BY <2>3, <2>4, <2>5 DEF Recovered, after
<1>7. CASE intent.side = "buy"
  <2>1. intent.limit_price >= least
    <3>1. book.ask \in Nat /\ book.ask <= intent.limit_price
      BY <1>7 DEF Touched, GoodBook
    <3> QED
      BY <1>3, <3>1
  <2>2. after.position.avg_entry_price = WeightedAverage(w.position, fill)
    BY <1>1, <1>7, BuyAverages DEF Covered
  <2>3. \A other \in after.pending : other.side = "sell" /\ other \in w.pending
    BY <1>1, <1>3, <1>4, <1>7
  <2>4. CASE Net(w.position) = 0
    <3>1. \A other \in after.pending : other.quantity <= 0
      BY <2>3, <2>4 DEF Covered
    <3>2. after.pending = {}
      BY <1>3, <2>3, <3>1
    <3>3. w.position.quantity = 0
      BY <1>2, <2>4 DEF Net, _signed_qty
    <3>4. WeightedAverage(w.position, fill) >= least
      BY <1>1, <1>3, <2>1, <3>3, AverageIsBetween
    <3> QED
      BY <2>2, <3>2, <3>4 DEF Recovered, after
  <2>5. CASE Net(w.position) > 0
    <3>1. w.position.avg_entry_price >= least
      BY <1>1, <2>5, LongRow DEF Recovered
    <3>2. intent.limit_price <= w.position.avg_entry_price
      BY <1>7, <2>5 DEF Recovered
    <3>3. least <= WeightedAverage(w.position, fill)
          /\ WeightedAverage(w.position, fill) <= w.position.avg_entry_price
      BY <1>1, <1>2, <2>1, <3>1, <3>2, AverageIsBetween
    <3>4. WeightedAverage(w.position, fill) \in Nat
      BY <1>1, AverageIsPrice
    <3>5. \A other \in after.pending :
            SaleRecovers(other.limit_price, after.position.avg_entry_price)
      <4> SUFFICES ASSUME NEW other \in after.pending
                   PROVE  SaleRecovers(other.limit_price, after.position.avg_entry_price)
        OBVIOUS
      <4>1. SaleRecovers(other.limit_price, w.position.avg_entry_price)
            /\ other.limit_price \in Nat
        BY <1>3, <2>3 DEF Recovered
      <4> QED
        BY <1>2, <2>2, <3>3, <3>4, <4>1, RecoversLess
    <3> QED
      BY <2>2, <2>3, <3>3, <3>5 DEF Recovered, after
  <2> QED
    BY <1>2, <2>4, <2>5 DEF Covered
<1> QED
  BY <1>3, <1>6, <1>7

(* Quotes placed while the position is the one they were computed from      *)
(* (market_making.py:143-165).                                              *)
LEMMA QuotesRecover ==
  ASSUME BooksTyped, deposited \in Nat, now \in Nat, NEW least \in Nat \ {0}, WorthFrom(least),
         NEW w, GoodRows(w), Recovered(w, least), NEW book \in GoodBook,
         NEW allowed \in SUBSET Sides, NEW concavity \in Concavities, Net(w.position) >= 0
  PROVE  \A quote \in evaluate(w, book, Net(w.position), allowed, concavity) :
           IF quote.side = "sell"
           THEN SaleRecovers(quote.limit_price, w.position.avg_entry_price)
           ELSE Net(w.position) > 0 => quote.limit_price <= w.position.avg_entry_price
<1> DEFINE quotes == evaluate(w, book, Net(w.position), allowed, concavity)
           average == w.position.avg_entry_price
           reference == AskReference(average, _latest_twap_snapshot, mid_price(book))
<1>1. Net(w.position) \in Int /\ GoodRow(w.position) /\ average \in Nat
  BY DEF GoodRows, Rows, Net, _signed_qty
<1>2. /\ quotes \subseteq Resting
      /\ \A quote \in quotes :
           IF quote.side = "sell"
           THEN quote.quantity <= Net(w.position) /\ quote.limit_price = AskPrice(reference)
           ELSE quote.limit_price = BidPrice(AskPrice(reference))
  BY <1>1, EvaluateBounds
<1> HIDE DEF quotes
<1>3. CASE Net(w.position) > 0
  <2>1. average >= least /\ average > 0
    BY <1>1, <1>3, LongRow DEF Recovered
  <2>2. reference = average
    BY <2>1 DEF AskReference
  <2>3. SaleRecovers(AskPrice(average), average) /\ BidPrice(AskPrice(average)) <= average
    BY <1>1, <2>1, AskRecovers, BidIsBelow
  <2> HIDE DEF reference
  <2> QED
    BY <1>2, <2>2, <2>3 DEF quotes
<1>4. CASE Net(w.position) = 0
  <2>1. \A quote \in quotes : quote.side # "sell"
    BY <1>2, <1>4 DEF Resting, Intents
  <2> QED
    BY <1>4, <2>1 DEF quotes
<1> QED
  BY <1>1, <1>3, <1>4

LEMMA InitRecovered ==
  ASSUME Init, NEW least \in Nat \ {0}, WorthFrom(least)
  PROVE  CInv(least)
<1>1. PICK q \in Quotes : books = <<[bid |-> q.bid, ask |-> q.ask, ts |-> 0]>>
  BY DEF Init
<1>2. \A k \in 1..Len(books) : books[k].ask >= least
  BY <1>1 DEF WorthFrom
<1> QED
  BY <1>2, EmptyRecovered DEF Init, CInv

LEMMA StepRecovered ==
  ASSUME TInv, IInv, BInv, NEW least \in Nat \ {0}, WorthFrom(least), CInv(least), [Next]_vars
  PROVE  CInv(least)'
<1>1. it \in Locals /\ GoodRows(work) /\ GoodRows(db)
  BY DEF TInv, LoopTyped
<1>2. CASE Begin
  <2>1. PICK list : it' = [NotRunning EXCEPT !.book = Latest, !.list = list]
    BY <1>2, Zenon DEF Begin
  <2>2. ~it.torn /\ it'.book = Latest
    BY <1>2, <2>1 DEF NotRunning, Begin, BInv
  <2>3. Latest.ask >= least
    BY DEF CInv, Latest, TInv, BooksTyped
  <2>4. UNCHANGED <<db, work, books, torn>>
    BY <1>2 DEF Begin
  <2> QED
    BY <2>2, <2>3, <2>4 DEF CInv
<1>3. CASE CheckIntent
  <2>1. /\ pc = "check" /\ UNCHANGED <<db, books, torn>>
        /\ it'.torn = it.torn /\ it'.book = it.book
    BY <1>1, <1>3 DEF CheckIntent, Locals
  <2>2. ~torn /\ ~it.torn => Recovered(work', least)
    <3>1. CASE Executes(Head(it.list))
      <4>1. work' = Filled(work, Head(it.list)) /\ it.book \in GoodBook /\ it.book.ask >= least
        BY <1>3, <3>1 DEF CheckIntent, TInv, LoopTyped, CInv
      <4>2. Head(it.list) \in work.pending /\ Touched(Head(it.list), it.book)
        BY <1>3, <3>1, ExecutedRests
      <4> QED
        BY <1>1, <4>1, <4>2, FillRecovered DEF BInv, IInv, CInv
    <3>2. CASE ~Executes(Head(it.list))
      BY <1>3, <3>2 DEF CheckIntent, CInv
    <3> QED
      BY <3>1, <3>2
  <2> QED
    BY <2>1, <2>2 DEF CInv
<1>4. CASE ListChecked \/ _current_position
  <2>1. /\ pc # "idle" /\ UNCHANGED <<db, work, books, torn>>
        /\ it'.torn = it.torn /\ it'.book = it.book
    BY <1>1, <1>4 DEF ListChecked, _current_position, Locals
  <2> QED
    BY <2>1 DEF CInv
<1>5. CASE _reconcile_market_making_quotes
  <2> DEFINE stale == StaleQuotes(work)
             free == FreeSides(work.pending \ stale)
  <2>1. /\ work' = [work EXCEPT !.pending = @ \ stale]
        /\ it' = [it EXCEPT !.cancelled = @ \union stale, !.allowed = free]
        /\ pc = "reconcile" /\ UNCHANGED <<db, books, torn>>
    BY <1>5 DEF _reconcile_market_making_quotes
  <2> HIDE DEF stale, free
  <2>2. it'.torn = it.torn /\ it'.book = it.book
    BY <1>1, <2>1 DEF Locals
  <2>3. work'.position = work.position /\ work'.pending = work.pending \ stale
    BY <1>1, <2>1 DEF GoodRows
  <2>4. ~torn /\ ~it.torn => Recovered(work', least)
    BY <2>3, FewerRecovered DEF CInv
  <2> QED
    BY <2>1, <2>2, <2>4 DEF CInv
<1>6. ASSUME NEW concavity \in Concavities, _generate_and_persist_quotes(concavity)
      PROVE  CInv(least)'
  <2> DEFINE quotes == evaluate(work, it.book, it.seen, it.allowed, concavity)
  <2>1. /\ work' = [work EXCEPT !.pending = @ \union quotes]
        /\ pc = "quote" /\ UNCHANGED <<db, it, books, torn>>
    BY <1>6 DEF _generate_and_persist_quotes
  <2>2. ASSUME ~torn, ~it.torn
        PROVE  \A quote \in quotes :
                 IF quote.side = "sell"
                 THEN SaleRecovers(quote.limit_price, work.position.avg_entry_price)
                 ELSE Net(work.position) > 0 =>
                        quote.limit_price <= work.position.avg_entry_price
    <3>1. BooksTyped /\ deposited \in Nat /\ now \in Nat
      BY DEF TInv, OutsideTyped
    <3>2. it.book \in GoodBook /\ it.allowed \in SUBSET Sides
      BY <1>1, <2>1 DEF TInv, LoopTyped, Locals
    <3>3. it.seen = Net(work.position) /\ Net(work.position) >= 0
      BY <2>1, <2>2 DEF BInv, SeenIsHeld, Covered
    <3>4. Recovered(work, least)
      BY <2>2 DEF CInv
    <3> HIDE DEF quotes
    <3>5. quotes = evaluate(work, it.book, Net(work.position), it.allowed, concavity)
      BY <3>3 DEF quotes
    <3> QED
      BY <1>1, <3>1, <3>2, <3>3, <3>4, <3>5, QuotesRecover
  <2> HIDE DEF quotes
  <2>3. work'.position = work.position /\ work'.pending = work.pending \union quotes
    BY <1>1, <2>1 DEF GoodRows
  <2>4. ~torn /\ ~it.torn => Recovered(work', least)
    BY <2>2, <2>3 DEF CInv, Recovered
  <2> QED
    BY <2>1, <2>4 DEF CInv
<1>7. CASE Commit
  BY <1>7 DEF Commit, CInv, NotRunning
<1>8. CASE FillOfDeletedIntent \/ IterationFails
  BY <1>8 DEF FillOfDeletedIntent, IterationFails, Rollback, CInv, NotRunning
<1>9. ASSUME NEW quote \in Quotes, OrderBookArrives(quote)
      PROVE  CInv(least)'
  <2>1. books' = Append(books, [bid |-> quote.bid, ask |-> quote.ask, ts |-> now])
        /\ UNCHANGED <<db, work, pc, it, torn>>
    BY <1>9 DEF OrderBookArrives
  <2>2. \A k \in 1..Len(books') : books'[k].ask >= least
    BY <2>1 DEF TInv, BooksTyped, CInv, WorthFrom
  <2> QED
    BY <2>1, <2>2 DEF CInv
<1>10. CASE reset_run_history
  <2>1. /\ db' = Empty /\ pc' = pc /\ books' = books
        /\ work' = [Empty EXCEPT !.pending = work.pending \ db.pending]
        /\ it' = [it EXCEPT !.torn = @ \/ ReadPosition]
    BY <1>10 DEF reset_run_history
  <2>2. it'.torn = (it.torn \/ ReadPosition) /\ it'.book = it.book
    BY <1>1, <2>1 DEF Locals
  <2>3. ~ReadPosition => work' = Empty
    <3>1. ~ReadPosition => work.pending \ db.pending = {}
      BY DEF ReadPosition
    <3>2. Empty = [Empty EXCEPT !.pending = {}]
      BY DEF Empty
    <3> QED
      BY <2>1, <3>1, <3>2
  <2> QED
    BY <2>1, <2>2, <2>3, EmptyRecovered DEF CInv
<1>11. CASE UNCHANGED <<db, work, books, pc, it, torn>>
  BY <1>11 DEF CInv
<1> QED
  BY <1>2, <1>3, <1>4, <1>5, <1>6, <1>7, <1>8, <1>9, <1>10, <1>11
     DEF Next, _run_market_making_dry_run, twap_lookback_set, deposit_create, Done, vars

(* Where the configured profit outweighs what rounding to the price step    *)
(* can lose, no resting sell ever goes below the cost of the position and   *)
(* the fees of both sides, however buys that were filled since have moved   *)
(* the average (market_making.py:143-165).  Without that a sell may: at a   *)
(* price of few steps, or with a profit of nothing.                         *)
THEOREM SalesRecoverTheirCost ==
  ASSUME NEW CONSTANT least \in Nat \ {0}, WorthFrom(least)
  PROVE  Spec => []SellsRecoverCost
<1>1. ASSUME CInv(least) PROVE SellsRecoverCost
  <2>1. \A v \in Views : ~v[2] => Recovered(v[1], least)
    BY <1>1, ViewsHold DEF CInv
  <2> QED
    BY <2>1 DEF Recovered, SaleRecovers, SellsRecoverCost
<1>2. Init => CInv(least)
  BY InitRecovered
<1>3. TInv /\ IInv /\ BInv /\ CInv(least) /\ [Next]_vars => CInv(least)'
  BY StepRecovered
<1> QED
  BY <1>1, <1>2, <1>3, InitOneEach, StepOneEach, InitTyped, StepTyped, InitCovered, StepCovered,
     PTL DEF Spec


=============================================================================
