-------------------- MODULE MCArbitrageCalculatorProofs --------------------
(***************************************************************************)
(* The loops over a side find the best of all splits of an order, for any  *)
(* number of levels and any whole prices, quantities and amounts.          *)
(*                                                                         *)
(* A split brings no more than any tangent (SplitBelowTangents).  The one  *)
(* that fills the levels in order reaches the tangent of the level where   *)
(* it ends (FillingSplit), which is the lowest (TangentIsLeast), and so is *)
(* what the loop brings (SellsAtMarket, BuysAtMarket).                     *)
(***************************************************************************)
EXTENDS MCArbitrageCalculator, ArbitrageCalculatorProofs

-----------------------------------------------------------------------------
(* Totals.                                                                 *)

LEMMA TotalRuns ==
  ASSUME NEW n \in Nat, NEW f \in [1..n -> Int]
  PROVE  \E T \in [0..n -> Int] :
           T[0] = 0 /\ (\A k \in 1..n : T[k] = T[k - 1] + f[k]) /\ T[n] = TotalOf(f)
<1> DEFINE A == [p \in Int \X Int |-> p[1] + p[2]]
           pick(s) == CHOOSE x \in s : TRUE
           step(iter, s) == IF s = {} THEN 0 ELSE iter[s \ {pick(s)}] + f[pick(s)]
           it == CHOOSE iter : iter = [s \in SUBSET (DOMAIN f) |-> step(iter, s)]
<1>1. TotalOf(f) = it[DOMAIN f]
  BY DEF TotalOf, FoldSet, MapThenFoldSet
<1>2. IsMonoid(A, Int) /\ 0 \in Int
  <2>1. A \in [Int \X Int -> Int]
    OBVIOUS
  <2>2. \A x, y \in Int : A[<<x, y>>] = x + y
    OBVIOUS
  <2> HIDE DEF A
  <2> QED BY <2>1, <2>2, SMTT(30) DEF IsMonoid
<1>3. PICK g : Adds(g, n, Int, 0, A, f)
  <2> HIDE DEF A
  <2> QED BY <1>2, AddsExists
<1>4. \A x, y \in Int : A[<<x, y>>] = y + x
  OBVIOUS
<1> HIDE DEF A
<1>5. ASSUME NEW s \in SUBSET (1..n), s # {}
      PROVE  pick(s) \in s /\ f[pick(s)] \in Int
  <2>1. pick(s) \in s
    BY <1>5
  <2> HIDE DEF pick
  <2> QED BY <2>1
<1> HIDE DEF pick
<1>6. ASSUME NEW s \in SUBSET (1..n) PROVE g[s] = step(g, s)
  <2>1. CASE s = {}
    BY <1>3, <2>1 DEF Adds
  <2>2. CASE s # {}
    <3>1. s \ {pick(s)} \in SUBSET (1..n) /\ pick(s) \in s /\ f[pick(s)] \in Int
      BY <1>5, <2>2
    <3>2. g[s] = A[<<f[pick(s)], g[s \ {pick(s)}]>>] /\ g[s \ {pick(s)}] \in Int
      BY <1>3, <3>1 DEF Adds
    <3> QED BY <1>4, <2>2, <3>1, <3>2
  <2> QED BY <2>1, <2>2
<1>7. \A s \in SUBSET (1..n) : it[s] = step(it, s)
  <2>1. g = [s \in SUBSET (DOMAIN f) |-> step(g, s)]
    <3> HIDE DEF step
    <3> QED BY <1>3, <1>6 DEF Adds
  <2>2. it = [s \in SUBSET (DOMAIN f) |-> step(it, s)]
    <3> HIDE DEF step
    <3> QED BY <2>1
  <2> HIDE DEF step, it
  <2> QED BY <2>2
<1> HIDE DEF it
<1>8. it[{}] = 0
  BY <1>7
<1>9. ASSUME NEW s \in SUBSET (1..n), s # {}
      PROVE  \E x \in s : it[s \ {x}] \in Int => it[s] = A[<<f[x], it[s \ {x}]>>]
  <2>1. it[s] = it[s \ {pick(s)}] + f[pick(s)] /\ pick(s) \in s /\ f[pick(s)] \in Int
    BY <1>5, <1>7, <1>9
  <2> QED BY <1>4, <2>1
<1>10. AddsSomehow(it, n, Int, 0, A, f)
  BY <1>8, <1>9 DEF AddsSomehow
<1> HIDE DEF step
<1>11. PICK T \in [0..n -> Int] : AddsInTurn(T, n, 0, A, f) /\ T[n] = it[1..n]
  <2>1. Addable(n, Int, 0, A, f)
    BY <1>3 DEF Addable
  <2>2. AddsUp(it, n, Int, 0, A, f)
    BY <1>10, <2>1, AddedInAnyOrder
  <2> QED BY <2>2 DEF AddsUp
<1>12. ASSUME NEW k \in 1..n PROVE T[k] = T[k - 1] + f[k]
  <2>1. k - 1 \in 0..n
    OBVIOUS
  <2>2. T[k - 1] \in Int /\ f[k] \in Int
    BY <2>1
  <2> QED BY <1>4, <1>11, <2>2 DEF AddsInTurn
<1>13. TotalOf(f) = T[n]
  BY <1>1, <1>11
<1> QED BY <1>11, <1>12, <1>13 DEF AddsInTurn

\* The book has n levels.
HasLevels(n) == n \in Nat /\ book \in [1..n -> [price : Prices, quantity : Quantities]]

LEMMA LevelsAreWhole ==
  ASSUME NEW n, HasLevels(n), NEW k \in 1..n
  PROVE  /\ book[k].price \in Nat /\ book[k].price > 0 /\ Double(book[k].price) \in Amounts
         /\ book[k].quantity \in Nat /\ book[k].quantity > 0
         /\ Double(book[k].quantity) \in Amounts
<1>1. book[k].price \in Prices /\ book[k].quantity \in Quantities
  BY DEF HasLevels
<1>2. book[k].price \in Nat \ {0} /\ book[k].quantity \in Nat \ {0}
  BY <1>1, BookAssumption
<1>3. PICK p \in Nat, q \in Nat : p = book[k].price /\ q = book[k].quantity /\ p > 0 /\ q > 0
  BY <1>2
<1> QED BY <1>3, Whole

\* What a split acquires, level by level.
LEMMA AcquiredRuns ==
  ASSUME NEW n, HasLevels(n), NEW f \in [1..n -> Int]
  PROVE  \E T \in [0..n -> Finite] :
           /\ T[0] = Zero
           /\ \A k \in 1..n : T[k] = Plus(T[k - 1], Over(Double(f[k]), Double(book[k].price)))
           /\ T[n] = Acquired(f)
<1> DEFINE A == [p \in Finite \X Finite |-> Plus(p[1], p[2])]
           term(i) == Over(Double(f[i]), Double(book[i].price))
           v == [i \in 1..n |-> term(i)]
           pick(s) == CHOOSE x \in s : TRUE
           step(iter, s) == IF s = {} THEN Zero ELSE Plus(iter[s \ {pick(s)}], term(pick(s)))
           it == CHOOSE iter : iter = [s \in SUBSET (DOMAIN f) |-> step(iter, s)]
<1>1. Acquired(f) = it[DOMAIN f]
  BY DEF Acquired, FoldSet, MapThenFoldSet
<1>2. n \in Nat /\ Zero \in Finite
  BY ZeroIs, AmountTerms, ZeroPlus DEF HasLevels
<1>3. IsMonoid(A, Finite)
  <2>1. A \in [Finite \X Finite -> Finite]
    BY FiniteClosed
  <2>2. \A x, y \in Finite : A[<<x, y>>] = Plus(x, y) /\ Plus(x, y) \in Finite
    BY FiniteClosed
  <2>3. \A x, y \in Finite : Plus(x, y) = Plus(y, x)
    BY PlusCommutes
  <2>4. \A x, y, z \in Finite : Plus(Plus(x, y), z) = Plus(x, Plus(y, z))
    BY PlusAssociates
  <2> HIDE DEF A
  <2> QED BY <2>1, <2>2, <2>3, <2>4 DEF IsMonoid
<1>4. ASSUME NEW i \in 1..n PROVE term(i) \in Finite
  <2>1. Double(f[i]) \in Finite /\ Double(book[i].price) \in Amounts
    BY Whole, LevelsAreWhole
  <2> QED BY <2>1, AmountTerms, FiniteClosed
<1>5. v \in [1..n -> Finite] /\ \A i \in 1..n : v[i] = term(i)
  BY <1>4
<1>6. \A x, y \in Finite : A[<<x, y>>] = Plus(y, x)
  BY PlusCommutes
<1> HIDE DEF A, term, v
<1>7. PICK g : Adds(g, n, Finite, Zero, A, v)
  BY <1>2, <1>3, <1>5, AddsExists
<1>8. ASSUME NEW s \in SUBSET (1..n), s # {} PROVE pick(s) \in s
  BY <1>8
<1> HIDE DEF pick
<1>9. ASSUME NEW s \in SUBSET (1..n) PROVE g[s] = step(g, s)
  <2>1. CASE s = {}
    BY <1>7, <2>1 DEF Adds
  <2>2. CASE s # {}
    <3>1. s \ {pick(s)} \in SUBSET (1..n) /\ pick(s) \in s /\ pick(s) \in 1..n
      BY <1>8, <2>2
    <3>2. g[s] = A[<<v[pick(s)], g[s \ {pick(s)}]>>] /\ g[s \ {pick(s)}] \in Finite
      BY <1>7, <3>1 DEF Adds
    <3>3. v[pick(s)] = term(pick(s)) /\ v[pick(s)] \in Finite
      BY <1>4, <1>5, <3>1
    <3> QED BY <1>6, <2>2, <3>2, <3>3
  <2> QED BY <2>1, <2>2
<1>10. \A s \in SUBSET (1..n) : it[s] = step(it, s)
  <2>1. g = [s \in SUBSET (DOMAIN f) |-> step(g, s)]
    <3> HIDE DEF step
    <3> QED BY <1>7, <1>9 DEF Adds
  <2>2. it = [s \in SUBSET (DOMAIN f) |-> step(it, s)]
    <3> HIDE DEF step
    <3> QED BY <2>1
  <2> HIDE DEF step, it
  <2> QED BY <2>2
<1> HIDE DEF it
<1>11. AddsSomehow(it, n, Finite, Zero, A, v)
  <2>1. it[{}] = Zero
    BY <1>10
  <2>2. ASSUME NEW s \in SUBSET (1..n), s # {}
        PROVE  \E x \in s : it[s \ {x}] \in Finite => it[s] = A[<<v[x], it[s \ {x}]>>]
    <3>1. it[s] = Plus(it[s \ {pick(s)}], term(pick(s))) /\ pick(s) \in s /\ pick(s) \in 1..n
      BY <1>8, <1>10, <2>2
    <3>2. v[pick(s)] = term(pick(s)) /\ v[pick(s)] \in Finite
      BY <1>4, <1>5, <3>1
    <3> QED BY <1>6, <3>1, <3>2
  <2> QED BY <2>1, <2>2 DEF AddsSomehow
<1>12. PICK T \in [0..n -> Finite] : AddsInTurn(T, n, Zero, A, v) /\ T[n] = it[1..n]
  <2> HIDE DEF step
  <2>1. Addable(n, Finite, Zero, A, v)
    BY <1>2, <1>7 DEF Addable
  <2>2. AddsUp(it, n, Finite, Zero, A, v)
    BY <1>11, <2>1, AddedInAnyOrder
  <2> QED BY <2>2 DEF AddsUp
<1>13. ASSUME NEW k \in 1..n PROVE T[k] = Plus(T[k - 1], term(k))
  <2>1. k - 1 \in 0..n
    BY <1>2
  <2>2. T[k - 1] \in Finite /\ v[k] = term(k) /\ v[k] \in Finite
    BY <1>4, <1>5, <2>1
  <2> QED BY <1>6, <1>12, <2>2 DEF AddsInTurn
<1>14. T[0] = Zero /\ T[n] = Acquired(f)
  BY <1>1, <1>12 DEF AddsInTurn
<1> QED BY <1>13, <1>14 DEF term

-----------------------------------------------------------------------------
(* The splits of an order on either side.                                  *)

\* What level i takes, and what a split brings, in whole units.
TakenBy(buying, i) == IF buying THEN book[i].price * book[i].quantity ELSE book[i].quantity
BroughtBy(buying, f) == IF buying THEN Acquired(f) ELSE Double(Proceeds(f))

\* A way to split the amount.
IsWay(buying, f) ==
  /\ f \in [DOMAIN book -> 0..MaxAmount] /\ TotalOf(f) = amount
  /\ \A i \in DOMAIN book : f[i] <= TakenBy(buying, i)

LEMMA LevelsOfBook ==
  ASSUME NEW n, HasLevels(n), NEW buying \in BOOLEAN
  PROVE  /\ n \in Nat /\ DOMAIN book = 1..n
         /\ AsLevels \in Seq(PriceLevels) /\ Len(AsLevels) = n
         /\ \A k \in 1..n : /\ AsLevels[k].price = Double(book[k].price)
                            /\ TakenBy(buying, k) \in Nat
                            /\ Worths(AsLevels, ~buying)[k] = Double(TakenBy(buying, k))
<1>1. n \in Nat /\ DOMAIN book = 1..n
  BY DEF HasLevels
<1>2. ASSUME NEW k \in 1..n
      PROVE  /\ AsLevels[k] = [price |-> Double(book[k].price), quantity |-> Double(book[k].quantity)]
             /\ AsLevels[k] \in PriceLevels
  <2>1. Double(book[k].price) \in Amounts /\ Double(book[k].quantity) \in Amounts
    BY LevelsAreWhole
  <2> QED BY <1>1, <2>1 DEF AsLevels, PriceLevels
<1>3. AsLevels \in [1..n -> PriceLevels]
  BY <1>1, <1>2 DEF AsLevels
<1>4. AsLevels \in Seq(PriceLevels) /\ Len(AsLevels) = n
  <2> HIDE DEF AsLevels
  <2> QED BY <1>1, <1>3
<1>5. ASSUME NEW k \in 1..n
      PROVE  /\ AsLevels[k].price = Double(book[k].price)
             /\ TakenBy(buying, k) \in Nat
             /\ Worths(AsLevels, ~buying)[k] = Double(TakenBy(buying, k))
  <2>1. PICK p \in Nat, q \in Nat : p = book[k].price /\ q = book[k].quantity
    BY LevelsAreWhole
  <2>2. AsLevels[k].price = Double(p) /\ AsLevels[k].quantity = Double(q)
    <3>1. AsLevels[k] = [price |-> Double(p), quantity |-> Double(q)]
      BY <1>2, <2>1
    <3> QED BY <3>1
  <2>3. Times(Double(p), Double(q)) = Double(p * q) /\ p * q \in Nat
    BY WholeSums
  <2>4. Worths(AsLevels, ~buying)[k] = Worth(AsLevels[k], ~buying)
    BY <1>4 DEF Worths
  <2>5. TakenBy(buying, k) = IF buying THEN p * q ELSE q
    BY <2>1 DEF TakenBy
  <2>6. Worth(AsLevels[k], ~buying) = IF buying THEN Times(Double(p), Double(q)) ELSE Double(q)
    BY <2>2 DEF Worth
  <2> HIDE DEF AsLevels
  <2>7. CASE buying
    BY <2>1, <2>2, <2>3, <2>4, <2>5, <2>6, <2>7
  <2>8. CASE ~buying
    BY <2>1, <2>2, <2>3, <2>4, <2>5, <2>6, <2>8
  <2> QED BY <2>7, <2>8
<1> QED BY <1>1, <1>4, <1>5

\* The split f, as doubles.
AsDoubles(f, n) == [k \in 1..n |-> Double(f[k])]

LEMMA WayIsSplit ==
  ASSUME NEW n, HasLevels(n), NEW buying \in BOOLEAN, NEW f \in [1..n -> Nat],
         \A i \in 1..n : f[i] <= TakenBy(buying, i)
  PROVE  \E XS, YS :
           /\ IsSplit(n, Worths(AsLevels, ~buying), GainOn(AsLevels, buying), AsDoubles(f, n), XS, YS)
           /\ XS[n] = Double(TotalOf(f)) /\ YS[n] = BroughtBy(buying, f)
<1>1. /\ n \in Nat /\ DOMAIN book = 1..n /\ AsLevels \in Seq(PriceLevels) /\ Len(AsLevels) = n
      /\ \A k \in 1..n : /\ AsLevels[k].price = Double(book[k].price)
                         /\ TakenBy(buying, k) \in Nat
                         /\ Worths(AsLevels, ~buying)[k] = Double(TakenBy(buying, k))
  BY LevelsOfBook
<1> DEFINE X == AsDoubles(f, n)
<1>2. ASSUME NEW k \in 1..n
      PROVE  /\ X[k] = Double(f[k]) /\ X[k] \in Finite /\ f[k] \in Int
             /\ AtMost(Zero, X[k]) /\ AtMost(X[k], Worths(AsLevels, ~buying)[k])
             /\ book[k].price \in Nat /\ f[k] * book[k].price \in Int
             /\ GainOn(AsLevels, buying)[<<k, X[k]>>] =
                  IF buying THEN Over(Double(f[k]), Double(book[k].price))
                            ELSE Double(f[k] * book[k].price)
  <2>1. PICK m \in Nat, t \in Nat, p \in Nat, none \in Nat :
          m = f[k] /\ t = TakenBy(buying, k) /\ p = book[k].price /\ none = 0
    BY <1>1, LevelsAreWhole
  <2>2. X[k] = Double(m) /\ m <= t /\ none <= m
    BY <2>1 DEF AsDoubles
  <2>3. /\ Double(none) = Zero /\ Double(m) \in Finite
        /\ AtMost(Double(none), Double(m)) /\ AtMost(Double(m), Double(t))
        /\ Times(Double(p), Double(m)) = Double(p * m) /\ p * m = m * p
    <3>1. Double(none) = Zero /\ Double(m) \in Finite
      BY <2>1, Whole
    <3>2. AtMost(Double(none), Double(m)) /\ AtMost(Double(m), Double(t))
      <4>1. AtMost(Double(none), Double(m)) <=> none <= m
        BY WholeSums
      <4>2. AtMost(Double(m), Double(t)) <=> m <= t
        BY WholeSums
      <4> QED BY <2>2, <4>1, <4>2
    <3>3. Times(Double(p), Double(m)) = Double(p * m)
      BY WholeSums
    <3>4. p * m = m * p
      OBVIOUS
    <3> QED BY <3>1, <3>2, <3>3, <3>4
  <2>4. GainOn(AsLevels, buying)[<<k, X[k]>>] =
          IF buying THEN Over(Double(m), Double(p)) ELSE Times(Double(p), Double(m))
    BY <1>1, <2>1, <2>2, <2>3 DEF GainOn
  <2> QED BY <1>1, <2>1, <2>2, <2>3, <2>4
<1>3. X \in [1..n -> Finite]
  BY <1>2 DEF AsDoubles
<1>4. f \in [1..n -> Int]
  OBVIOUS
<1>5. PICK T \in [0..n -> Int] :
        T[0] = 0 /\ (\A k \in 1..n : T[k] = T[k - 1] + f[k]) /\ T[n] = TotalOf(f)
  BY <1>1, <1>4, TotalRuns
<1> HIDE DEF X
<1> DEFINE XS == [k \in 0..n |-> Double(T[k])]
<1>6. XS \in [0..n -> Finite] /\ XS[0] = Zero /\ XS[n] = Double(TotalOf(f))
  <2>1. 0 \in 0..n /\ n \in 0..n /\ \A k \in 0..n : T[k] \in Int
    BY <1>1
  <2> QED BY <1>5, <2>1, Whole
<1>7. ASSUME NEW k \in 1..n PROVE XS[k] = Plus(XS[k - 1], X[k])
  <2>1. k - 1 \in 0..n /\ k \in 0..n
    BY <1>1
  <2>2. PICK t \in Int, m \in Int : t = T[k - 1] /\ m = f[k]
    BY <1>4, <2>1
  <2>3. Plus(Double(t), Double(m)) = Double(t + m)
    BY WholeSums
  <2> QED BY <1>2, <1>5, <2>1, <2>2, <2>3
<1> HIDE DEF XS
<1>8. \E YS : /\ YS \in [0..n -> Finite] /\ YS[0] = Zero /\ YS[n] = BroughtBy(buying, f)
              /\ \A k \in 1..n : YS[k] = Plus(YS[k - 1], GainOn(AsLevels, buying)[<<k, X[k]>>])
  <2>1. CASE buying
    <3>1. PICK YS \in [0..n -> Finite] :
            /\ YS[0] = Zero
            /\ \A k \in 1..n : YS[k] = Plus(YS[k - 1], Over(Double(f[k]), Double(book[k].price)))
            /\ YS[n] = Acquired(f)
      BY <1>4, AcquiredRuns
    <3>2. ASSUME NEW k \in 1..n
          PROVE  YS[k] = Plus(YS[k - 1], GainOn(AsLevels, buying)[<<k, X[k]>>])
      BY <1>2, <2>1, <3>1
    <3>3. YS[n] = BroughtBy(buying, f)
      BY <2>1, <3>1 DEF BroughtBy
    <3> QED BY <3>1, <3>2, <3>3
  <2>2. CASE ~buying
    <3> DEFINE paid == [i \in 1..n |-> f[i] * book[i].price]
    <3>1. paid \in [1..n -> Int] /\ \A i \in 1..n : paid[i] = f[i] * book[i].price
      BY <1>2
    <3>2. Proceeds(f) = TotalOf(paid)
      BY <1>1 DEF Proceeds
    <3> HIDE DEF paid
    <3>3. PICK S \in [0..n -> Int] :
            S[0] = 0 /\ (\A k \in 1..n : S[k] = S[k - 1] + paid[k]) /\ S[n] = TotalOf(paid)
      BY <1>1, <3>1, TotalRuns
    <3> DEFINE YS == [k \in 0..n |-> Double(S[k])]
    <3>4. YS \in [0..n -> Finite] /\ YS[0] = Zero /\ YS[n] = BroughtBy(buying, f)
      <4>1. 0 \in 0..n /\ n \in 0..n /\ \A k \in 0..n : S[k] \in Int
        BY <1>1
      <4> QED BY <2>2, <3>2, <3>3, <4>1, Whole DEF BroughtBy
    <3>5. ASSUME NEW k \in 1..n
          PROVE  YS[k] = Plus(YS[k - 1], GainOn(AsLevels, buying)[<<k, X[k]>>])
      <4>1. k - 1 \in 0..n /\ k \in 0..n
        BY <1>1
      <4>2. PICK t \in Int, m \in Int : t = S[k - 1] /\ m = paid[k]
        BY <3>1, <4>1
      <4>3. Plus(Double(t), Double(m)) = Double(t + m)
        BY WholeSums
      <4>4. GainOn(AsLevels, buying)[<<k, X[k]>>] = Double(m)
        BY <1>2, <2>2, <3>1, <4>2
      <4> QED BY <3>3, <4>1, <4>2, <4>3, <4>4
    <3> HIDE DEF YS
    <3> QED BY <3>4, <3>5
  <2> QED BY <2>1, <2>2
<1>9. PICK YS : /\ YS \in [0..n -> Finite] /\ YS[0] = Zero /\ YS[n] = BroughtBy(buying, f)
                /\ \A k \in 1..n : YS[k] = Plus(YS[k - 1], GainOn(AsLevels, buying)[<<k, X[k]>>])
  BY <1>8
<1>10. IsSplit(n, Worths(AsLevels, ~buying), GainOn(AsLevels, buying), X, XS, YS)
  BY <1>2, <1>3, <1>6, <1>7, <1>9 DEF IsSplit, IsSum
<1> QED BY <1>6, <1>9, <1>10 DEF X

\* Splits of the same amount have the same value as doubles.
LEMMA SameWhole ==
  ASSUME NEW a \in Int, NEW b \in Int, Double(a) = Double(b)
  PROVE  a = b
BY DEF Double

\* A way to split the amount is a split on the market of the side.
LEMMA WayOnMarket ==
  ASSUME NEW n, HasLevels(n), NEW buying \in BOOLEAN, NEW f, IsWay(buying, f)
  PROVE  \E XS, YS :
           /\ IsSplit(n, Worths(AsLevels, ~buying), GainOn(AsLevels, buying), AsDoubles(f, n), XS, YS)
           /\ XS[n] = Double(amount) /\ YS[n] = BroughtBy(buying, f)
<1>1. n \in Nat /\ DOMAIN book = 1..n
  BY LevelsOfBook
<1>2. f \in [1..n -> 0..MaxAmount] /\ TotalOf(f) = amount /\ \A i \in 1..n : f[i] <= TakenBy(buying, i)
  BY <1>1 DEF IsWay
<1>3. f \in [1..n -> Nat]
  <2>1. 0..MaxAmount \subseteq Nat
    BY BookAssumption
  <2> QED BY <1>2, <2>1
<1>4. PICK XS, YS :
        /\ IsSplit(n, Worths(AsLevels, ~buying), GainOn(AsLevels, buying), AsDoubles(f, n), XS, YS)
        /\ XS[n] = Double(TotalOf(f)) /\ YS[n] = BroughtBy(buying, f)
  BY <1>2, <1>3, WayIsSplit
<1> QED BY <1>2, <1>4

\* The sums CS are whole.
WholeSeries(CS, n) == \E S \in [0..n -> Int] : \A k \in 0..n : CS[k] = Double(S[k])

\* What the levels take adds up to whole sums.
LEMMA WholeMarket ==
  ASSUME NEW n, HasLevels(n), NEW buying \in BOOLEAN,
         NEW CS, CS \in [0..n -> Finite], IsSum(CS, n, Worths(AsLevels, ~buying))
  PROVE  WholeSeries(CS, n)
<1>1. /\ n \in Nat
      /\ \A k \in 1..n : /\ TakenBy(buying, k) \in Nat
                         /\ Worths(AsLevels, ~buying)[k] = Double(TakenBy(buying, k))
  BY LevelsOfBook
<1> DEFINE W == [k \in 1..n |-> TakenBy(buying, k)]
<1>2. W \in [1..n -> Int] /\ \A k \in 1..n : W[k] = TakenBy(buying, k)
  BY <1>1
<1> HIDE DEF W
<1>3. PICK S \in [0..n -> Int] : S[0] = 0 /\ (\A k \in 1..n : S[k] = S[k - 1] + W[k])
  BY <1>1, <1>2, TotalRuns
<1> DEFINE D == [k \in 0..n |-> Double(S[k])]
<1>4. D[0] = Zero
  BY <1>1, <1>3, Whole
<1>5. ASSUME NEW k \in 1..n PROVE D[k] = Plus(D[k - 1], Worths(AsLevels, ~buying)[k])
  <2>1. k - 1 \in 0..n /\ k \in 0..n
    BY <1>1
  <2>2. PICK t \in Int, m \in Int : t = S[k - 1] /\ m = W[k]
    BY <1>2, <2>1
  <2>3. Plus(Double(t), Double(m)) = Double(t + m)
    BY WholeSums
  <2> QED BY <1>1, <1>2, <1>3, <2>1, <2>2, <2>3
<1>6. \A k \in 0..n : D[k] = Double(S[k])
  OBVIOUS
<1> HIDE DEF D
<1>7. ASSUME NEW m \in 0..n PROVE D[m] = CS[m]
  <2>1. IsSum(D, m, Worths(AsLevels, ~buying))
    <3>1. \A k \in 1..m : k \in 1..n
      BY <1>1
    <3> QED BY <1>4, <1>5, <3>1 DEF IsSum
  <2> QED BY <1>1, <2>1, SumsAgree
<1> QED BY <1>6, <1>7 DEF WholeSeries

\* Some split brings what a market order brings, and none brings more.
LEMMA BestWay ==
  ASSUME NEW n, HasLevels(n), NEW buying \in BOOLEAN, InOrder(AsLevels, buying),
         n # 0, amount \in 0..MaxAmount,
         AtMost(Double(amount), calculateBookSideValue(AsLevels, ~buying))
  PROVE  \E f : /\ IsWay(buying, f)
                /\ \A h : IsWay(buying, h) => AtMost(BroughtBy(buying, h), BroughtBy(buying, f))
                /\ \A g : IsMarketOrder(AsLevels, buying, Double(amount), g) =>
                            g = BroughtBy(buying, f)
<1>1. /\ n \in Nat /\ DOMAIN book = 1..n /\ AsLevels \in Seq(PriceLevels) /\ Len(AsLevels) = n
      /\ \A k \in 1..n : /\ TakenBy(buying, k) \in Nat
                         /\ Worths(AsLevels, ~buying)[k] = Double(TakenBy(buying, k))
  BY LevelsOfBook
<1> DEFINE C == Worths(AsLevels, ~buying)
           G == Worths(AsLevels, buying)
           P == GainOn(AsLevels, buying)
<1>2. PICK CS, GS :
        /\ IsMarket(n, C, G, CS, GS, P)
        /\ CS[n] = calculateBookSideValue(AsLevels, ~buying)
        /\ \A x \in Finite, k \in 1..n : LineOf(AsLevels, buying, k, x) = TangentOf(CS, GS, P, x, k)
  BY <1>1, MarketOfSide
<1>3. PICK a \in Nat : a = amount /\ a <= MaxAmount
  BY BookAssumption
<1>4. Double(a) \in Finite /\ AtMost(Zero, Double(a)) /\ AtMost(Double(a), CS[n])
  <2>1. PICK none \in Int : none = 0
    OBVIOUS
  <2>2. Double(none) = Zero /\ Double(a) \in Finite
    BY <2>1, Whole
  <2>3. AtMost(Double(none), Double(a)) <=> none <= a
    BY WholeSums
  <2> QED BY <1>2, <1>3, <2>1, <2>2, <2>3
<1>5. PICK j \in 1..n : AtMost(CS[j - 1], Double(a)) /\ AtMost(Double(a), CS[j])
  <2> HIDE DEF C, G, P
  <2> QED BY <1>2, <1>4, LevelOfOrder
<1>6. PICK S \in [0..n -> Int] : \A k \in 0..n : CS[k] = Double(S[k])
  <2>1. CS \in [0..n -> Finite] /\ IsSum(CS, n, C)
    <3> HIDE DEF C, G, P
    <3> QED BY <1>2 DEF IsMarket
  <2>2. IsSum(CS, n, Worths(AsLevels, ~buying))
    BY <2>1
  <2> HIDE DEF C, G, P
  <2>3. WholeSeries(CS, n)
    BY <2>1, <2>2, WholeMarket
  <2> QED BY <2>3 DEF WholeSeries
<1>7. /\ \A k \in 1..(j - 1) : AtMost(C[k], Double(a))
      /\ AtMost(Zero, Minus(Double(a), CS[j - 1])) /\ AtMost(Minus(Double(a), CS[j - 1]), C[j])
  <2> HIDE DEF C, G, P
  <2> QED BY <1>2, <1>4, <1>5, FillingFits
<1>8. PICK s \in Int : s = S[j - 1] /\ CS[j - 1] = Double(s) /\ 0 <= s
  <2>1. PICK zero \in 0..n, i \in 0..n : zero = 0 /\ i = j - 1 /\ i \in zero..n
    BY <1>1
  <2>2. C \in [1..n -> Amounts] /\ CS \in [0..n -> Finite] /\ IsSum(CS, n, C) /\ CS[zero] = Zero
    BY <1>2, <2>1 DEF IsMarket, IsSum
  <2>3. AtMost(CS[zero], CS[i])
    <3> HIDE DEF C
    <3> QED BY <1>1, <2>1, <2>2, SumRises
  <2>4. PICK s \in Int, none \in Int : s = S[i] /\ CS[i] = Double(s) /\ none = 0
    BY <1>1, <1>6, <2>1
  <2>5. AtMost(Double(none), Double(s)) <=> none <= s
    BY WholeSums
  <2>6. Double(none) = Zero
    BY <2>4, Whole
  <2> QED BY <2>1, <2>2, <2>3, <2>4, <2>5, <2>6
<1> DEFINE f == [k \in 1..n |-> IF k < j THEN TakenBy(buying, k) ELSE IF k = j THEN a - s ELSE 0]
<1>9. 0 <= a - s /\ a - s <= TakenBy(buying, j) /\ a - s <= a
  <2>1. PICK t \in Int, none \in Int, r \in Int : t = TakenBy(buying, j) /\ none = 0 /\ r = a - s
    BY <1>1
  <2>2. /\ Minus(Double(a), Double(s)) = Double(r) /\ C[j] = Double(t) /\ Double(none) = Zero
    <3>1. Minus(Double(a), Double(s)) = Double(a - s)
      BY WholeSums
    <3>2. Double(none) = Zero
      BY <2>1, Whole
    <3>3. C[j] = Double(t)
      BY <1>1, <2>1
    <3> QED BY <2>1, <3>1, <3>2, <3>3
  <2>3. AtMost(Double(none), Double(r)) <=> none <= r
    BY WholeSums
  <2>4. AtMost(Double(r), Double(t)) <=> r <= t
    BY WholeSums
  <2>5. none <= r /\ r <= t
    <3> HIDE DEF C
    <3> QED BY <1>7, <1>8, <2>2, <2>3, <2>4
  <2> QED BY <1>8, <2>1, <2>5
<1>10. ASSUME NEW k \in 1..n
       PROVE  f[k] \in 0..MaxAmount /\ f[k] <= TakenBy(buying, k)
  <2>1. CASE k < j
    <3>1. PICK t \in Nat : t = TakenBy(buying, k)
      BY <1>1
    <3>2. k \in 1..(j - 1) /\ C[k] = Double(t)
      BY <1>1, <2>1, <3>1
    <3>3. AtMost(Double(t), Double(a))
      <4> HIDE DEF C
      <4> QED BY <1>7, <3>2
    <3>4. AtMost(Double(t), Double(a)) <=> t <= a
      BY WholeSums
    <3> QED BY <1>3, <2>1, <3>1, <3>3, <3>4, BookAssumption
  <2>2. CASE k = j
    BY <1>3, <1>9, <2>2, BookAssumption
  <2>3. CASE k > j
    BY <1>1, <2>3, BookAssumption
  <2> QED BY <2>1, <2>2, <2>3
<1>11. f \in [1..n -> Nat]
  <2>1. 0..MaxAmount \subseteq Nat
    BY BookAssumption
  <2> QED BY <1>10, <2>1
<1>12. ASSUME NEW k \in 1..n
       PROVE  AsDoubles(f, n)[k] = IF k < j THEN C[k]
                                   ELSE IF k = j THEN Minus(Double(a), CS[j - 1]) ELSE Zero
  <2>1. AsDoubles(f, n)[k] = Double(f[k])
    BY DEF AsDoubles
  <2>2. CASE k < j
    BY <1>1, <2>1, <2>2
  <2>3. CASE k = j
    <3>1. Minus(Double(a), Double(s)) = Double(a - s)
      BY WholeSums
    <3> QED BY <1>8, <2>1, <2>3, <3>1
  <2>4. CASE k > j
    BY <2>1, <2>4, Whole
  <2> QED BY <2>2, <2>3, <2>4
<1>13. /\ f \in [1..n -> 0..MaxAmount] /\ \A k \in 1..n : f[k] <= TakenBy(buying, k)
  BY <1>10
<1> HIDE DEF f
<1>14. PICK XS, YS : /\ IsSplit(n, C, P, AsDoubles(f, n), XS, YS)
                     /\ XS[n] = Double(TotalOf(f)) /\ YS[n] = BroughtBy(buying, f)
  BY <1>11, <1>13, WayIsSplit
<1>15. XS[n] = Double(a) /\ YS[n] = TangentOf(CS, GS, P, Double(a), j)
  <2> HIDE DEF C, G, P
  <2> QED BY <1>2, <1>4, <1>12, <1>14, FillingSplit
<1>16. TotalOf(f) = a
  <2>1. PICK T \in [0..n -> Int] : T[n] = TotalOf(f)
    <3>1. f \in [1..n -> Int]
      BY <1>11
    <3> QED BY <1>1, <3>1, TotalRuns
  <2>2. PICK t \in Int : t = TotalOf(f)
    BY <1>1, <2>1
  <2>3. Double(t) = Double(a)
    BY <1>14, <1>15, <2>2
  <2> QED BY <2>2, <2>3, SameWhole
<1>17. IsWay(buying, f)
  BY <1>1, <1>3, <1>13, <1>16 DEF IsWay
<1>18. ASSUME NEW h, IsWay(buying, h) PROVE AtMost(BroughtBy(buying, h), BroughtBy(buying, f))
  <2>1. PICK US, VS : /\ IsSplit(n, C, P, AsDoubles(h, n), US, VS)
                      /\ US[n] = Double(a) /\ VS[n] = BroughtBy(buying, h)
    BY <1>3, <1>18, WayOnMarket
  <2>2. AtMost(VS[n], TangentOf(CS, GS, P, US[n], j))
    <3> HIDE DEF C, G, P
    <3> QED BY <1>2, <2>1, SplitBelowTangents
  <2> QED BY <1>14, <1>15, <2>1, <2>2
<1>19. ASSUME NEW g, IsMarketOrder(AsLevels, buying, Double(a), g) PROVE g = BroughtBy(buying, f)
  <2> DEFINE L(k) == TangentOf(CS, GS, P, Double(a), k)
  <2>1. PICK l \in 1..n : g = L(l) /\ AtMost(g, L(j))
    <3>1. DOMAIN AsLevels = 1..n
      BY <1>1
    <3>2. \A k \in 1..n : LineOf(AsLevels, buying, k, Double(a)) = L(k)
      <4> HIDE DEF C, G, P
      <4> QED BY <1>2, <1>4
    <3> HIDE DEF L
    <3> QED BY <1>19, <3>1, <3>2 DEF IsMarketOrder
  <2>2. AtMost(L(j), L(l))
    <3> HIDE DEF C, G, P
    <3> QED BY <1>2, <1>4, <1>5, TangentIsLeast
  <2>3. ASSUME NEW k \in 1..n PROVE L(k) \in Finite
    <3>1. /\ k - 1 \in 0..n /\ CS \in [0..n -> Finite] /\ GS \in [0..n -> Finite]
          /\ P \in [(1..n) \X Finite -> Finite]
      BY <1>1, <1>2 DEF IsMarket
    <3>2. CS[k - 1] \in Finite /\ GS[k - 1] \in Finite
      BY <3>1
    <3>3. Minus(Double(a), CS[k - 1]) \in Finite
      BY <1>4, <3>2, FiniteClosed
    <3>4. P[<<k, Minus(Double(a), CS[k - 1])>>] \in Finite
      <4> HIDE DEF P
      <4> QED BY <3>1, <3>3
    <3> HIDE DEF P
    <3> QED BY <3>2, <3>4, FiniteClosed DEF TangentOf
  <2>4. YS[n] = L(j)
    BY <1>15
  <2> HIDE DEF L
  <2>5. L(j) \in Finite /\ L(l) \in Finite
    BY <2>3
  <2>6. L(j) = L(l)
    BY <2>1, <2>2, <2>5, OrderIsTotal
  <2> QED BY <1>14, <2>1, <2>4, <2>6
<1> QED BY <1>3, <1>17, <1>18, <1>19

\* An order that can be split is not larger than the side.
LEMMA WayFits ==
  ASSUME NEW n, HasLevels(n), NEW buying \in BOOLEAN, InOrder(AsLevels, buying),
         NEW f, IsWay(buying, f)
  PROVE  AtMost(Double(amount), calculateBookSideValue(AsLevels, ~buying))
<1>1. n \in Nat /\ AsLevels \in Seq(PriceLevels) /\ Len(AsLevels) = n
  BY LevelsOfBook
<1> DEFINE C == Worths(AsLevels, ~buying)
           G == Worths(AsLevels, buying)
           P == GainOn(AsLevels, buying)
<1>2. PICK CS, GS : /\ IsMarket(n, C, G, CS, GS, P)
                    /\ CS[n] = calculateBookSideValue(AsLevels, ~buying)
  BY <1>1, MarketOfSide
<1>3. PICK XS, YS : /\ IsSplit(n, C, P, AsDoubles(f, n), XS, YS)
                    /\ XS[n] = Double(amount)
  BY WayOnMarket
<1>4. AtMost(XS[n], CS[n])
  <2> HIDE DEF C, G, P
  <2> QED BY <1>2, <1>3, SplitBelowTangents
<1> QED BY <1>2, <1>3, <1>4

\* Nothing can be split, and every split of it brings nothing.
LEMMA WaysOfNothing ==
  ASSUME NEW n, HasLevels(n), NEW buying \in BOOLEAN, InOrder(AsLevels, buying), amount = 0
  PROVE  /\ \E f : IsWay(buying, f)
         /\ \A f : IsWay(buying, f) => BroughtBy(buying, f) = Zero
<1>1. n \in Nat /\ DOMAIN book = 1..n /\ AsLevels \in Seq(PriceLevels) /\ Len(AsLevels) = n
      /\ Double(0) = Zero
  BY LevelsOfBook, Whole
<1>2. \E f : IsWay(buying, f)
  <2> DEFINE f == [i \in 1..n |-> 0]
  <2>1. f \in [1..n -> Int] /\ f \in [1..n -> 0..MaxAmount] /\ \A i \in 1..n : f[i] = 0
    BY BookAssumption
  <2> HIDE DEF f
  <2>2. PICK T \in [0..n -> Int] :
          T[0] = 0 /\ (\A k \in 1..n : T[k] = T[k - 1] + f[k]) /\ T[n] = TotalOf(f)
    BY <1>1, <2>1, TotalRuns
  <2>3. T[n] = 0
    <3> DEFINE Bad == {k \in 0..n : T[k] # 0}
    <3>1. Bad = {}
      <4> SUFFICES ASSUME Bad # {} PROVE FALSE
        OBVIOUS
      <4>1. PICK k \in Bad : \A l \in Bad : k <= l
        <5>1. Bad \subseteq Nat
          BY <1>1
        <5> HIDE DEF Bad
        <5> QED BY <5>1, LeastNat
      <4>2. k \in 1..n /\ k - 1 \in 0..n /\ k - 1 \notin Bad
        BY <1>1, <2>2, <4>1
      <4> QED BY <2>1, <2>2, <4>1, <4>2
    <3> QED BY <1>1, <3>1
  <2>4. \A i \in 1..n : TakenBy(buying, i) \in Nat
    BY LevelsOfBook
  <2>5. TotalOf(f) = amount
    BY <2>2, <2>3
  <2>6. \A i \in 1..n : f[i] <= TakenBy(buying, i)
    BY <2>1, <2>4
  <2>7. IsWay(buying, f)
    BY <1>1, <2>1, <2>5, <2>6 DEF IsWay
  <2> QED BY <2>7
<1>3. ASSUME NEW f, IsWay(buying, f) PROVE BroughtBy(buying, f) = Zero
  <2> DEFINE C == Worths(AsLevels, ~buying)
             G == Worths(AsLevels, buying)
             P == GainOn(AsLevels, buying)
  <2>1. PICK CS, GS : IsMarket(n, C, G, CS, GS, P)
    BY <1>1, MarketOfSide
  <2>2. PICK XS, YS : /\ IsSplit(n, C, P, AsDoubles(f, n), XS, YS)
                      /\ XS[n] = Double(amount) /\ YS[n] = BroughtBy(buying, f)
    BY <1>3, WayOnMarket
  <2>3. XS[n] = Zero
    BY <1>1, <2>2
  <2>4. YS[n] = Zero
    <3> HIDE DEF C, G, P
    <3> QED BY <2>1, <2>2, <2>3, SplitOfNothing
  <2> QED BY <2>2, <2>4
<1> QED BY <1>2, <1>3

-----------------------------------------------------------------------------
(* The two prices.                                                         *)

\* The price is the one the loop over the side came to, on a side in order.
Priced ==
  /\ book \in Books /\ amount \in 0..MaxAmount
  /\ side = "bids" => /\ InOrder(AsLevels, FALSE)
                      /\ vwap = calculateVwapBid(AsLevels, Double(amount))
  /\ side = "asks" => /\ InOrder(AsLevels, TRUE)
                      /\ vwap = calculateVwapAsk(AsLevels, Double(amount))

LEMMA PricedAlways == Spec => []Priced
<1>1. Init => Priced
  BY DEF Init, Priced
<1>2. Priced /\ [Next]_vars => Priced'
  <2> SUFFICES ASSUME Priced, [Next]_vars PROVE Priced'
    OBVIOUS
  <2>1. CASE SellToBids
    <3>1. AsLevels' = AsLevels
      BY <2>1 DEF SellToBids, AsLevels
    <3> QED BY <2>1, <3>1 DEF SellToBids, Priced, Books
  <2>2. CASE BuyFromAsks
    <3>1. AsLevels' = AsLevels
      BY <2>2 DEF BuyFromAsks, AsLevels
    <3> QED BY <2>2, <3>1 DEF BuyFromAsks, Priced, Books
  <2>3. CASE UNCHANGED vars
    <3>1. AsLevels' = AsLevels
      BY <2>3 DEF vars, AsLevels
    <3> QED BY <2>3, <3>1 DEF vars, Priced, Books
  <2> QED BY <2>1, <2>2, <2>3 DEF Next
<1> QED BY <1>1, <1>2, PTL DEF Spec

LEMMA BookHasLevels ==
  ASSUME book \in Books
  PROVE  \E n : HasLevels(n)
<1>1. PICK n \in 0..MaxLevels : book \in [1..n -> [price : Prices, quantity : Quantities]]
  BY DEF Books
<1>2. n \in Nat
  BY BookAssumption
<1> QED BY <1>1, <1>2 DEF HasLevels

\* What the loop brings for the amount.
LEMMA OrderPriced ==
  ASSUME NEW n, HasLevels(n), NEW buying \in BOOLEAN, InOrder(AsLevels, buying),
         amount \in 0..MaxAmount, amount # 0
  PROVE  /\ Double(amount) \in Amounts
         /\ (~\E f : IsWay(buying, f)) <=>
              ~AtMost(Double(amount), calculateBookSideValue(AsLevels, ~buying))
         /\ \A g : IsMarketOrder(AsLevels, buying, Double(amount), g) =>
              \E f : /\ IsWay(buying, f) /\ BroughtBy(buying, f) = g
                     /\ \A h : IsWay(buying, h) => AtMost(BroughtBy(buying, h), g)
<1>1. Double(amount) \in Amounts
  <2>1. PICK a \in Nat : a = amount /\ a > 0
    BY BookAssumption
  <2> QED BY <2>1, Whole
<1>2. n \in Nat /\ AsLevels \in Seq(PriceLevels) /\ Len(AsLevels) = n
  BY LevelsOfBook
<1>3. AtMost(Double(amount), calculateBookSideValue(AsLevels, ~buying)) => n # 0
  <2> SUFFICES ASSUME n = 0 PROVE ~AtMost(Double(amount), calculateBookSideValue(AsLevels, ~buying))
    OBVIOUS
  <2>1. AsLevels = <<>>
    BY <1>2
  <2>2. calculateBookSideValue(AsLevels, ~buying) = Zero
    BY <1>2, <2>1, SideValue
  <2>3. Less(Zero, Double(amount)) /\ Zero \in Finite /\ Double(amount) \in Finite
    BY <1>1, AmountTerms, AmountIsPositive, ZeroPlus
  <2> QED BY <2>2, <2>3, OrderIsTotal
<1>4. AtMost(Double(amount), calculateBookSideValue(AsLevels, ~buying)) =>
        \E f : /\ IsWay(buying, f)
               /\ \A h : IsWay(buying, h) => AtMost(BroughtBy(buying, h), BroughtBy(buying, f))
               /\ \A g : IsMarketOrder(AsLevels, buying, Double(amount), g) =>
                           g = BroughtBy(buying, f)
  BY <1>3, BestWay
<1>5. (\E f : IsWay(buying, f)) => AtMost(Double(amount), calculateBookSideValue(AsLevels, ~buying))
  BY WayFits
<1>6. ASSUME NEW g, IsMarketOrder(AsLevels, buying, Double(amount), g)
      PROVE  \E f : /\ IsWay(buying, f) /\ BroughtBy(buying, f) = g
                    /\ \A h : IsWay(buying, h) => AtMost(BroughtBy(buying, h), g)
  <2>1. AtMost(Double(amount), calculateBookSideValue(AsLevels, ~buying))
    BY <1>6 DEF IsMarketOrder
  <2> QED BY <1>4, <1>6, <2>1
<1> QED BY <1>1, <1>4, <1>5, <1>6

\* A sale to the bids fetches what the best split of it fetches, whatever the
\* prices, the quantities and the amount: calculateVwapBid.
THEOREM SoldAtBestSplit == Spec => []SellsAtBestSplit
<1>1. Priced => SellsAtBestSplit
  <2> SUFFICES ASSUME Priced, side = "bids" PROVE SellsAtBestSplit
    BY DEF SellsAtBestSplit
  <2> DEFINE splits == Splits(LAMBDA i : book[i].quantity)
             fetched == Times(vwap, Double(amount))
  <2>1. PICK n : HasLevels(n)
    BY BookHasLevels DEF Priced
  <2>2. \A f : f \in splits <=> IsWay(FALSE, f)
    BY DEF Splits, IsWay, TakenBy
  <2>3. \A f : BroughtBy(FALSE, f) = Double(Proceeds(f))
    BY DEF BroughtBy
  <2>4. /\ InOrder(AsLevels, FALSE) /\ vwap = calculateVwapBid(AsLevels, Double(amount))
        /\ amount \in 0..MaxAmount
    BY DEF Priced
  <2>5. AsLevels \in Seq(PriceLevels)
    BY <2>1, LevelsOfBook
  <2> HIDE DEF splits
  <2> SUFFICES IF splits = {} THEN vwap = Zero
               ELSE /\ \E f \in splits : fetched = Double(Proceeds(f))
                    /\ \A f \in splits : AtMost(Double(Proceeds(f)), fetched)
    BY DEF SellsAtBestSplit, splits
  <2>6. CASE amount = 0
    <3>1. Double(amount) = Zero /\ Zero \in Finite /\ AtMost(Zero, Zero) /\ Times(Zero, Zero) = Zero
      BY <2>6, Whole, IsZero, TimesType, ZeroPlus, OrderIsTotal
    <3>2. vwap = Zero
      BY <2>4, <3>1 DEF calculateVwapBid
    <3>3. /\ \E f : IsWay(FALSE, f)
          /\ \A f : IsWay(FALSE, f) => BroughtBy(FALSE, f) = Zero
      BY <2>1, <2>4, <2>6, WaysOfNothing
    <3> QED BY <2>2, <2>3, <3>1, <3>2, <3>3
  <2>7. CASE amount # 0
    <3>1. /\ Double(amount) \in Amounts
          /\ (~\E f : IsWay(FALSE, f)) <=>
               ~AtMost(Double(amount), calculateBookSideValue(AsLevels, TRUE))
          /\ \A g : IsMarketOrder(AsLevels, FALSE, Double(amount), g) =>
               \E f : /\ IsWay(FALSE, f) /\ BroughtBy(FALSE, f) = g
                      /\ \A h : IsWay(FALSE, h) => AtMost(BroughtBy(FALSE, h), g)
      BY <2>1, <2>4, <2>7, OrderPriced
    <3>2. CASE vwap = Zero /\ ~AtMost(Double(amount), calculateBookSideValue(AsLevels, TRUE))
      BY <2>2, <3>1, <3>2
    <3>3. ASSUME NEW g \in Amounts, vwap = Over(g, Double(amount)),
                 IsMarketOrder(AsLevels, FALSE, Double(amount), g)
          PROVE  /\ splits # {}
                 /\ \E f \in splits : fetched = Double(Proceeds(f))
                 /\ \A f \in splits : AtMost(Double(Proceeds(f)), fetched)
      <4>1. fetched = g
        <5>1. Times(Double(amount), Over(g, Double(amount))) = g
          BY <3>1, AmountTerms, OverThenTimes
        <5>2. Over(g, Double(amount)) \in Finite /\ Double(amount) \in Finite
          BY <3>1, AmountTerms, FiniteClosed
        <5> QED BY <3>3, <5>1, <5>2, TimesCommutes
      <4>2. PICK f : /\ IsWay(FALSE, f) /\ BroughtBy(FALSE, f) = g
                     /\ \A h : IsWay(FALSE, h) => AtMost(BroughtBy(FALSE, h), g)
        BY <3>1, <3>3
      <4> HIDE DEF fetched
      <4> QED BY <2>2, <2>3, <4>1, <4>2
    <3> QED BY <2>4, <2>5, <3>1, <3>2, <3>3, SellsAtMarket
  <2> QED BY <2>6, <2>7
<1> QED BY <1>1, PricedAlways, PTL

\* Money spent on the asks buys what the best split of it buys, whatever the
\* prices, the quantities and the amount: calculateVwapAsk.
THEOREM BoughtAtBestSplit == Spec => []BuysAtBestSplit
<1>1. Priced => BuysAtBestSplit
  <2> SUFFICES ASSUME Priced, side = "asks" PROVE BuysAtBestSplit
    BY DEF BuysAtBestSplit
  <2> DEFINE splits == Splits(LAMBDA i : book[i].price * book[i].quantity)
             bought == Over(Double(amount), vwap)
  <2>1. PICK n : HasLevels(n)
    BY BookHasLevels DEF Priced
  <2>2. \A f : f \in splits <=> IsWay(TRUE, f)
    BY DEF Splits, IsWay, TakenBy
  <2>3. \A f : BroughtBy(TRUE, f) = Acquired(f)
    BY DEF BroughtBy
  <2>4. /\ InOrder(AsLevels, TRUE) /\ vwap = calculateVwapAsk(AsLevels, Double(amount))
        /\ amount \in 0..MaxAmount
    BY DEF Priced
  <2>5. AsLevels \in Seq(PriceLevels)
    BY <2>1, LevelsOfBook
  <2> HIDE DEF splits
  <2> SUFFICES IF splits = {} \/ amount = 0 THEN vwap = Zero
               ELSE /\ Less(Zero, vwap)
                    /\ \E f \in splits : bought = Acquired(f)
                    /\ \A f \in splits : AtMost(Acquired(f), bought)
    BY DEF BuysAtBestSplit, splits
  <2>6. CASE amount = 0
    <3>1. Double(amount) = Zero /\ AtMost(Zero, Zero)
      BY <2>6, Whole, ZeroPlus, OrderIsTotal
    <3>2. vwap = Zero
      BY <2>4, <3>1 DEF calculateVwapAsk
    <3> QED BY <2>6, <3>2
  <2>7. CASE amount # 0
    <3>1. /\ Double(amount) \in Amounts
          /\ (~\E f : IsWay(TRUE, f)) <=>
               ~AtMost(Double(amount), calculateBookSideValue(AsLevels, FALSE))
          /\ \A g : IsMarketOrder(AsLevels, TRUE, Double(amount), g) =>
               \E f : /\ IsWay(TRUE, f) /\ BroughtBy(TRUE, f) = g
                      /\ \A h : IsWay(TRUE, h) => AtMost(BroughtBy(TRUE, h), g)
      BY <2>1, <2>4, <2>7, OrderPriced
    <3>2. CASE vwap = Zero /\ ~AtMost(Double(amount), calculateBookSideValue(AsLevels, FALSE))
      BY <2>2, <3>1, <3>2
    <3>3. ASSUME NEW g \in Amounts, vwap = Over(Double(amount), g),
                 IsMarketOrder(AsLevels, TRUE, Double(amount), g)
          PROVE  /\ splits # {} /\ Less(Zero, vwap)
                 /\ \E f \in splits : bought = Acquired(f)
                 /\ \A f \in splits : AtMost(Acquired(f), bought)
      <4>1. vwap \in Amounts /\ Less(Zero, vwap)
        BY <3>1, <3>3, AmountsClosed, AmountTerms, AmountIsPositive
      <4>2. bought = g
        <5>1. Times(Double(amount), Over(One, vwap)) = g
          BY <3>1, <3>3, PaidBack
        <5>2. Double(amount) \in Finite
          BY <3>1, AmountTerms
        <5> QED BY <4>1, <5>1, <5>2, TimesInverse
      <4>3. PICK f : /\ IsWay(TRUE, f) /\ BroughtBy(TRUE, f) = g
                     /\ \A h : IsWay(TRUE, h) => AtMost(BroughtBy(TRUE, h), g)
        BY <3>1, <3>3
      <4> HIDE DEF bought
      <4> QED BY <2>2, <2>3, <4>1, <4>2, <4>3
    <3> QED BY <2>4, <2>5, <2>7, <3>1, <3>2, <3>3, BuysAtMarket
  <2> QED BY <2>6, <2>7
<1> QED BY <1>1, PricedAlways, PTL
=============================================================================
