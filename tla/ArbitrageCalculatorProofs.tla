---------------------- MODULE ArbitrageCalculatorProofs ----------------------
(***************************************************************************)
(* What the arithmetic behind a trade comes to, for every book.            *)
(*                                                                         *)
(* The size of a trade: a sum over a side is zero only when the side is    *)
(* empty (SideValue), and the least of the three bounds is zero only when  *)
(* one of them is (LeastBound).                                            *)
(*                                                                         *)
(* The price of a trade: an average price other than zero is what a market *)
(* order for the whole amount brings (RateOfMarketOrder).  TangentOf is what*)
(* the order would bring if one level had no end.  The loops of the two    *)
(* averages stop on the tangent of the level they end on (FillsOnTangent), *)
(* and on a side whose best price comes first no tangent lies lower        *)
(* (TangentIsLeast).  Selling and buying differ only in what a level takes,*)
(* C, what it brings, G, and what a part of it brings, P.                  *)
(*                                                                         *)
(* Folds are CHOOSE expressions.  Each proof names the function that the   *)
(* fold chooses, shows with FoldExists that there is one, and follows it   *)
(* one element after the other with FoldRuns.                              *)
(***************************************************************************)
EXTENDS ArbitrageCalculator, DataProofs

-----------------------------------------------------------------------------
(* What a side is worth.                                                   *)

\* What one level adds.
Worth(level, base) == IF base THEN level.quantity ELSE Times(level.price, level.quantity)

LEMMA WorthIsAmount ==
  ASSUME NEW level \in PriceLevels, NEW base \in BOOLEAN
  PROVE  Worth(level, base) \in Amounts
BY AmountsClosed DEF PriceLevels, Worth

Worths(levels, base) == [i \in 1..Len(levels) |-> Worth(levels[i], base)]

\* The value of a side is the last of the sums over its levels.
LEMMA SideSum ==
  ASSUME NEW levels \in Seq(PriceLevels), NEW base \in BOOLEAN
  PROVE  \E sum \in [0..Len(levels) -> Fractions] :
           /\ IsSum(sum, Len(levels), Worths(levels, base))
           /\ calculateBookSideValue(levels, base) = sum[Len(levels)]
<1>1. PICK n \in Nat : n = Len(levels) /\ DOMAIN levels = 1..n
  OBVIOUS
<1> DEFINE term(i) == Worth(levels[i], base)
           step(iter, s) == IF s = {} THEN Zero ELSE Plus(iter[s \ {Max(s)}], term(Max(s)))
           it == CHOOSE iter : iter = [s \in SUBSET (DOMAIN levels) |-> step(iter, s)]
           F == [p \in Fractions \X (1..n) |-> Plus(p[1], term(p[2]))]
<1>2. calculateBookSideValue(levels, base) = it[DOMAIN levels]
  BY DEF calculateBookSideValue, FoldLeft, MapThenFoldSet, Worth
<1>3. ASSUME NEW i \in 1..n PROVE term(i) \in Fractions
  <2>1. levels[i] \in PriceLevels
    BY <1>1
  <2> QED BY <2>1, WorthIsAmount, AmountsAreFractions
<1> HIDE DEF term
<1>4. F \in [Fractions \X (1..n) -> Fractions] /\ Zero \in Fractions
  BY <1>3, PlusType, IsZero
<1>5. \A s \in SUBSET (1..n) : it[s] = step(it, s)
  <2>1. PICK g \in [SUBSET (1..n) -> Fractions] : IsFold(g, n, Zero, F)
    <3> HIDE DEF F, it, step
    <3> QED BY <1>4, FoldExists
  <2>2. ASSUME NEW s \in SUBSET (1..n) PROVE g[s] = step(g, s)
    <3>1. CASE s = {}
      BY <2>1, <3>1 DEF IsFold
    <3>2. CASE s # {}
      <4>1. Max(s) \in 1..n /\ s \ {Max(s)} \in SUBSET (1..n)
        BY <3>2, MaxOfInterval
      <4>2. g[s] = F[<<g[s \ {Max(s)}], Max(s)>>] /\ g[s \ {Max(s)}] \in Fractions
        BY <2>1, <3>2, <4>1 DEF IsFold
      <4> QED BY <3>2, <4>1, <4>2
    <3> QED BY <3>1, <3>2
  <2>3. g = [s \in SUBSET (DOMAIN levels) |-> step(g, s)]
    <3> HIDE DEF step
    <3> QED BY <1>1, <2>1, <2>2
  <2>4. it = [s \in SUBSET (DOMAIN levels) |-> step(it, s)]
    <3> HIDE DEF step
    <3> QED BY <2>3
  <2> HIDE DEF step, it
  <2> QED BY <1>1, <2>4
<1> HIDE DEF it
<1>6. PICK sum \in [0..n -> Fractions] : IsFoldRun(sum, n, Zero, F) /\ sum[n] = it[1..n]
  <2>1. it[{}] = Zero
    BY <1>5
  <2>2. ASSUME NEW s \in SUBSET (1..n), s # {}, it[s \ {Max(s)}] \in Fractions
        PROVE  it[s] = F[<<it[s \ {Max(s)}], Max(s)>>]
    <3>1. Max(s) \in 1..n
      BY <2>2, MaxOfInterval
    <3> QED BY <1>5, <2>2, <3>1
  <2>3. \A s \in SUBSET (1..n) :
          s # {} /\ it[s \ {Max(s)}] \in Fractions => it[s] = F[<<it[s \ {Max(s)}], Max(s)>>]
    <3> HIDE DEF F
    <3> QED BY <2>2
  <2> HIDE DEF F, step
  <2>4. FoldsIn(it, n, Fractions, Zero, F)
    BY <1>1, <1>4, <2>1, <2>3 DEF FoldsIn
  <2>5. RunsIn(it, n, Fractions, Zero, F)
    BY <2>4, FoldRuns
  <2> QED BY <2>5 DEF RunsIn
<1>7. IsSum(sum, n, [i \in 1..n |-> term(i)])
  <2>1. ASSUME NEW k \in 1..n PROVE sum[k] = Plus(sum[k - 1], [i \in 1..n |-> term(i)][k])
    <3>1. k - 1 \in 0..n
      OBVIOUS
    <3>2. sum[k - 1] \in Fractions
      BY <1>6, <3>1
    <3>3. sum[k] = F[<<sum[k - 1], k>>]
      <4> HIDE DEF F
      <4> QED BY <1>6 DEF IsFoldRun
    <3> QED BY <3>2, <3>3
  <2> QED BY <1>6, <2>1 DEF IsSum, IsFoldRun
<1> QED BY <1>1, <1>2, <1>6, <1>7 DEF term, Worths

\* A side is worth nothing only when it is empty.
LEMMA SideValue ==
  ASSUME NEW levels \in Seq(PriceLevels), NEW base \in BOOLEAN
  PROVE  /\ calculateBookSideValue(levels, base) \in Fractions
         /\ calculateBookSideValue(levels, base) = Zero <=> levels = <<>>
<1>1. PICK n \in Nat : n = Len(levels) /\ n \in 0..n
  OBVIOUS
<1>2. PICK sum \in [0..n -> Fractions] :
        /\ IsSum(sum, n, Worths(levels, base))
        /\ calculateBookSideValue(levels, base) = sum[n]
  BY <1>1, SideSum
<1>3. n = 0 => sum[n] = Zero
  BY <1>2 DEF IsSum
<1>4. ASSUME n # 0 PROVE sum[n] # Zero
  <2>1. n \in 1..n /\ n - 1 \in 0..n
    BY <1>4
  <2>2. levels[n] \in PriceLevels
    BY <1>1, <2>1
  <2>3. Worth(levels[n], base) \in Fractions /\ Worth(levels[n], base) # Zero
    BY <2>2, WorthIsAmount, AmountsAreFractions
  <2>4. sum[n] = Plus(sum[n - 1], Worth(levels[n], base)) /\ sum[n - 1] \in Fractions
    BY <1>1, <1>2, <2>1 DEF IsSum, Worths
  <2> QED BY <2>3, <2>4, PlusType
<1>5. n = 0 <=> levels = <<>>
  BY <1>1
<1> QED BY <1>1, <1>2, <1>3, <1>4, <1>5

\* What the levels up to each one are worth.
LEMMA SidePrefix ==
  ASSUME NEW levels \in Seq(PriceLevels), NEW base \in BOOLEAN
  PROVE  \E sum \in [0..Len(levels) -> Fractions] :
           /\ IsSum(sum, Len(levels), Worths(levels, base))
           /\ calculateBookSideValue(levels, base) = sum[Len(levels)]
           /\ \A k \in 0..Len(levels) :
                calculateBookSideValue(SubSeq(levels, 1, k), base) = sum[k]
<1>1. PICK sum \in [0..Len(levels) -> Fractions] :
        /\ IsSum(sum, Len(levels), Worths(levels, base))
        /\ calculateBookSideValue(levels, base) = sum[Len(levels)]
  BY SideSum
<1>2. ASSUME NEW k \in 0..Len(levels)
      PROVE  calculateBookSideValue(SubSeq(levels, 1, k), base) = sum[k]
  <2>1. PICK front : front = SubSeq(levels, 1, k)
    OBVIOUS
  <2>2. Len(levels) \in Nat /\ k \in Nat
    OBVIOUS
  <2>3. front \in Seq(PriceLevels) /\ Len(front) = k /\ \A i \in 1..k : front[i] = levels[i]
    <3>1. \A i \in 1..k : levels[i] \in PriceLevels
      OBVIOUS
    <3> QED BY <2>1, <2>2, <3>1
  <2>4. PICK part \in [0..k -> Fractions] :
          /\ IsSum(part, k, Worths(front, base))
          /\ calculateBookSideValue(front, base) = part[k]
    BY <2>3, SideSum
  <2>5. \A i \in 1..k : Worths(front, base)[i] = Worths(levels, base)[i]
    BY <2>2, <2>3 DEF Worths
  <2>6. part[k] = sum[k]
    BY <1>1, <2>2, <2>4, <2>5, SumsAgree
  <2> QED BY <2>1, <2>4, <2>6
<1> QED BY <1>1, <1>2

-----------------------------------------------------------------------------
(* The least of the bounds.                                                *)

LowerOf(a, b) == IF Less(b.notional, a.notional) THEN b ELSE a

\* std::min of three, comparison by comparison.
LEMMA LeastOfThree ==
  ASSUME NEW b1, NEW b2, NEW b3
  PROVE  Least(<<b1, b2, b3>>) = LowerOf(LowerOf(LowerOf(b1, b1), b2), b3)
<1> DEFINE bounds == <<b1, b2, b3>>
           S == {b1, b2, b3}
           step(iter, s) == IF s = {} THEN b1 ELSE LowerOf(iter[s \ {Max(s)}], bounds[Max(s)])
           it == CHOOSE iter : iter = [s \in SUBSET (DOMAIN bounds) |-> step(iter, s)]
<1>1. Least(bounds) = it[DOMAIN bounds]
  BY DEF Least, FoldLeft, MapThenFoldSet, LowerOf
<1>2. PICK seq : seq = bounds /\ DOMAIN bounds = 1..3 /\ seq[1] = b1 /\ seq[2] = b2 /\ seq[3] = b3
  <2>1. /\ <<b1, b2, b3>>[1] = b1 /\ <<b1, b2, b3>>[2] = b2 /\ <<b1, b2, b3>>[3] = b3
    OBVIOUS
  <2>2. <<b1, b2, b3>> \in Seq(S) /\ Len(<<b1, b2, b3>>) = 3
    OBVIOUS
  <2>3. DOMAIN <<b1, b2, b3>> = 1..Len(<<b1, b2, b3>>)
    BY <2>2
  <2> QED BY <2>1, <2>2, <2>3
<1>4. it = [s \in SUBSET (1..3) |-> step(it, s)]
  <2> DEFINE F == [p \in S \X (1..3) |-> LowerOf(p[1], seq[p[2]])]
  <2>1. F \in [S \X (1..3) -> S]
    <3>1. ASSUME NEW i \in 1..3 PROVE seq[i] \in S
      BY <1>2
    <3>2. ASSUME NEW a \in S, NEW b \in S PROVE LowerOf(a, b) \in S
      BY DEF LowerOf
    <3> HIDE DEF S
    <3> QED BY <3>1, <3>2
  <2>2. PICK g \in [SUBSET (1..3) -> S] : IsFold(g, 3, b1, F)
    <3>1. b1 \in S /\ 3 \in Nat
      OBVIOUS
    <3> HIDE DEF F, it, step, S
    <3> QED BY <2>1, <3>1, FoldExists
  <2>3. ASSUME NEW s \in SUBSET (1..3) PROVE g[s] = step(g, s)
    <3>1. CASE s = {}
      BY <2>2, <3>1 DEF IsFold
    <3>2. CASE s # {}
      <4>1. Max(s) \in 1..3 /\ s \ {Max(s)} \in SUBSET (1..3)
        <5>1. 3 \in Nat
          OBVIOUS
        <5> QED BY <5>1, <3>2, MaxOfInterval
      <4>2. g[s] = F[<<g[s \ {Max(s)}], Max(s)>>]
        BY <2>2, <3>2 DEF IsFold
      <4> HIDE DEF S
      <4>3. g[s \ {Max(s)}] \in S
        BY <2>2, <4>1
      <4>4. F[<<g[s \ {Max(s)}], Max(s)>>] = LowerOf(g[s \ {Max(s)}], seq[Max(s)])
        BY <4>1, <4>3
      <4> QED BY <1>2, <3>2, <4>2, <4>4
    <3> QED BY <3>1, <3>2
  <2>4. g = [s \in SUBSET (1..3) |-> step(g, s)]
    <3> HIDE DEF step
    <3> QED BY <2>2, <2>3
  <2>5. g = [s \in SUBSET (DOMAIN bounds) |-> step(g, s)]
    BY <1>2, <2>4
  <2>6. it = [s \in SUBSET (DOMAIN bounds) |-> step(it, s)]
    <3> HIDE DEF step
    <3> QED BY <2>5
  <2> QED BY <1>2, <2>6
<1>5. \A s \in SUBSET (1..3) : it[s] = step(it, s)
  <2> HIDE DEF step, it
  <2> QED BY <1>4
<1> HIDE DEF it
<1>6. it[{}] = b1
  BY <1>5
<1>7. ASSUME NEW k \in 1..3 PROVE it[1..k] = LowerOf(it[1..(k - 1)], bounds[k])
  <2>1. 1..k \in SUBSET (1..3) /\ 1..k # {} /\ k \in Nat
    <3>1. k \in 1..k /\ \A x \in 1..k : x \in 1..3
      OBVIOUS
    <3> QED BY <3>1
  <2>2. Max(1..k) = k
    <3>1. Max(1..k) \in 1..k /\ \A x \in 1..k : x <= Max(1..k)
      BY <2>1, MaxOfInterval
    <3> QED BY <2>1, <3>1
  <2>3. (1..k) \ {k} = 1..(k - 1)
    BY <2>1
  <2> QED BY <1>5, <2>1, <2>2, <2>3
<1>8. 1..(1-1) = {} /\ 1..(2-1) = 1..1 /\ 1..(3-1) = 1..2
  OBVIOUS
<1>9. it[1..1] = LowerOf(b1, b1) /\ it[1..2] = LowerOf(it[1..1], b2) /\ it[1..3] = LowerOf(it[1..2], b3)
  BY <1>2, <1>6, <1>7, <1>8
<1> QED BY <1>1, <1>2, <1>9

LEMMA LowerOfFractions ==
  ASSUME NEW a, NEW b, a.notional \in Fractions, b.notional \in Fractions
  PROVE  /\ LowerOf(a, b) \in {a, b}
         /\ LowerOf(a, b).notional \in Fractions
         /\ LowerOf(a, b).notional = Zero <=> a.notional = Zero \/ b.notional = Zero
         /\ AtMost(LowerOf(a, b).notional, a.notional)
         /\ AtMost(LowerOf(a, b).notional, b.notional)
<1> DEFINE x == a.notional
           y == b.notional
<1>1. /\ x[1] \in Nat /\ x[2] \in Nat /\ x[2] # 0
      /\ y[1] \in Nat /\ y[2] \in Nat /\ y[2] # 0
  BY FractionTerms
<1>2. AtMost(LowerOf(a, b).notional, x) /\ AtMost(LowerOf(a, b).notional, y)
  <2>1. x \in Finite /\ y \in Finite
    BY FractionsAreFinite
  <2>2. /\ AtMost(x, y) <=> ~Less(y, x)
        /\ AtMost(y, x) <=> ~Less(x, y)
        /\ AtMost(x, x) /\ AtMost(y, y)
        /\ Less(y, x) => AtMost(y, x)
    BY <2>1, OrderIsTotal DEF AtMost
  <2> HIDE DEF x, y
  <2>3. LowerOf(a, b).notional = IF Less(y, x) THEN y ELSE x
    BY DEF LowerOf, x, y
  <2> QED BY <2>2, <2>3
<1>3. CASE y = Zero
  <2>1. y[1] = 0 /\ y[2] = 1
    BY <1>3 DEF Zero
  <2>2. Less(y, x) <=> 0 < x[1]
    BY <1>1, <2>1 DEF Less
  <2>3. Less(y, x) <=> x # Zero
    BY <1>1, <2>2, IsZero
  <2> QED BY <1>2, <1>3, <2>3 DEF LowerOf
<1>4. CASE x = Zero
  <2>1. x[1] = 0 /\ x[2] = 1
    BY <1>4 DEF Zero
  <2>2. ~Less(y, x)
    BY <1>1, <2>1 DEF Less
  <2> QED BY <1>2, <1>4, <2>2 DEF LowerOf
<1>5. CASE x # Zero /\ y # Zero
  BY <1>2, <1>5 DEF LowerOf
<1> QED BY <1>3, <1>4, <1>5

\* The least of three bounds that are numbers.
LEMMA LeastOfFractions ==
  ASSUME NEW b1, NEW b2, NEW b3,
         b1.notional \in Fractions, b2.notional \in Fractions, b3.notional \in Fractions
  PROVE  /\ Least(<<b1, b2, b3>>).notional \in Fractions
         /\ Least(<<b1, b2, b3>>).notional = Zero <=>
              b1.notional = Zero \/ b2.notional = Zero \/ b3.notional = Zero
         /\ AtMost(Least(<<b1, b2, b3>>).notional, b1.notional)
         /\ AtMost(Least(<<b1, b2, b3>>).notional, b2.notional)
         /\ AtMost(Least(<<b1, b2, b3>>).notional, b3.notional)
<1>1. PICK r1 : /\ r1 = LowerOf(b1, b1) /\ r1.notional \in Fractions
                /\ r1.notional = Zero <=> b1.notional = Zero
                /\ AtMost(r1.notional, b1.notional)
  BY LowerOfFractions
<1>2. PICK r2 : /\ r2 = LowerOf(r1, b2) /\ r2.notional \in Fractions
                /\ r2.notional = Zero <=> r1.notional = Zero \/ b2.notional = Zero
                /\ AtMost(r2.notional, r1.notional) /\ AtMost(r2.notional, b2.notional)
  BY <1>1, LowerOfFractions
<1>3. PICK r3 : /\ r3 = LowerOf(r2, b3) /\ r3.notional \in Fractions
                /\ r3.notional = Zero <=> r2.notional = Zero \/ b3.notional = Zero
                /\ AtMost(r3.notional, r2.notional) /\ AtMost(r3.notional, b3.notional)
  BY <1>2, LowerOfFractions
<1>4. Least(<<b1, b2, b3>>) = r3
  BY <1>1, <1>2, <1>3, LeastOfThree
<1>5. /\ b1.notional \in Finite /\ b2.notional \in Finite /\ b3.notional \in Finite
      /\ r1.notional \in Finite /\ r2.notional \in Finite /\ r3.notional \in Finite
  BY <1>1, <1>2, <1>3, FractionsAreFinite
<1>6. AtMost(r3.notional, r1.notional)
  BY <1>2, <1>3, <1>5, AtMostTransitive
<1>7. AtMost(r3.notional, b1.notional) /\ AtMost(r3.notional, b2.notional)
  BY <1>1, <1>2, <1>3, <1>5, <1>6, AtMostTransitive
<1> QED BY <1>1, <1>2, <1>3, <1>4, <1>7

\* Nothing is less than a first bound of zero, not even what a division by
\* zero makes of the others.
LEMMA LeastIsZero ==
  ASSUME NEW b1, NEW b2, NEW b3, b1.notional = Zero,
         b2.notional \in Nat \X Nat, b3.notional \in Nat \X Nat
  PROVE  Least(<<b1, b2, b3>>).notional = Zero
<1>1. ASSUME NEW b, b.notional \in Nat \X Nat PROVE LowerOf(b1, b) = b1
  <2>1. b1.notional[1] = 0 /\ b1.notional[2] = 1 /\ b.notional[1] \in Nat /\ b.notional[2] \in Nat
    BY <1>1 DEF Zero
  <2>2. ~Less(b.notional, b1.notional)
    BY <2>1 DEF Less
  <2> QED BY <2>2 DEF LowerOf
<1>2. LowerOf(b1, b1) = b1
  BY DEF LowerOf
<1> QED BY <1>1, <1>2, LeastOfThree

\* The three bounds of a path: the price of the first leg may be infinity or
\* no number at all, but only when the first bound is zero.
LEMMA LeastBound ==
  ASSUME NEW path, \A i \in 1..3 : path[i].requiresInversion \in BOOLEAN,
         NEW first \in Fractions, NEW second \in Fractions, NEW third \in Fractions,
         NEW price1 \in Nat \X Nat, first # Zero => price1 \in Fractions \ {Zero}
  PROVE  LET notional == Least(Bounds(path, first, price1, second, third)).notional
         IN  /\ notional \in Fractions
             /\ notional = Zero <=> first = Zero \/ second = Zero \/ third = Zero
<1>1. PICK middle : middle = IF path[1].requiresInversion THEN Times(second, price1)
                                                          ELSE Over(second, price1)
  OBVIOUS
<1>2. PICK b1, b2, b3 : /\ b1 = [notional |-> first, bottleneckLeg |-> path[1].symbol]
                        /\ b2 = [notional |-> middle, bottleneckLeg |-> path[2].symbol]
                        /\ b3 = [notional |-> third, bottleneckLeg |-> path[3].symbol]
  OBVIOUS
<1>3. b1.notional = first /\ b2.notional = middle /\ b3.notional = third
  BY <1>2
<1>4. Bounds(path, first, price1, second, third) = <<b1, b2, b3>>
  BY <1>1, <1>2 DEF Bounds
<1>5. CASE first = Zero
  <2>1. /\ second[1] \in Nat /\ second[2] \in Nat
        /\ price1[1] \in Nat /\ price1[2] \in Nat
    BY FractionTerms
  <2>2. /\ second[1] * price1[1] \in Nat /\ second[2] * price1[2] \in Nat
        /\ second[1] * price1[2] \in Nat /\ second[2] * price1[1] \in Nat
    BY <2>1
  <2>3. Times(second, price1) \in Nat \X Nat /\ Over(second, price1) \in Nat \X Nat
    BY <2>2, ReducedType DEF Times, Over
  <2>4. middle \in Nat \X Nat /\ third \in Nat \X Nat
    <3>1. middle \in Nat \X Nat
      BY <1>1, <2>3
    <3>2. third \in Nat \X Positive
      BY DEF Fractions
    <3> QED BY <3>1, <3>2 DEF Positive
  <2> QED BY <1>3, <1>4, <1>5, <2>4, LeastIsZero
<1>6. CASE first # Zero
  <2>1. middle \in Fractions /\ (middle = Zero <=> second = Zero)
    BY <1>1, <1>6, TimesType, OverType
  <2> QED BY <1>3, <1>4, <2>1, LeastOfFractions
<1> QED BY <1>5, <1>6

\* With a price, none of the bounds is exceeded.
LEMMA WithinBounds ==
  ASSUME NEW path, \A i \in 1..3 : path[i].requiresInversion \in BOOLEAN,
         NEW first \in Amounts, NEW second \in Amounts, NEW third \in Amounts,
         NEW price1 \in Amounts
  PROVE  LET notional == Least(Bounds(path, first, price1, second, third)).notional
             middle   == IF path[1].requiresInversion THEN Times(second, price1)
                                                      ELSE Over(second, price1)
         IN  /\ notional \in Amounts /\ middle \in Amounts
             /\ AtMost(notional, first) /\ AtMost(notional, middle) /\ AtMost(notional, third)
<1>1. PICK middle \in Amounts : middle = IF path[1].requiresInversion THEN Times(second, price1)
                                                                      ELSE Over(second, price1)
  BY AmountsClosed
<1>2. PICK b1, b2, b3 : /\ b1 = [notional |-> first, bottleneckLeg |-> path[1].symbol]
                        /\ b2 = [notional |-> middle, bottleneckLeg |-> path[2].symbol]
                        /\ b3 = [notional |-> third, bottleneckLeg |-> path[3].symbol]
  OBVIOUS
<1>3. b1.notional = first /\ b2.notional = middle /\ b3.notional = third
  BY <1>2
<1>4. Bounds(path, first, price1, second, third) = <<b1, b2, b3>>
  BY <1>1, <1>2 DEF Bounds
<1>5. PICK notional : notional = Least(<<b1, b2, b3>>).notional
  OBVIOUS
<1>6. /\ notional \in Fractions /\ notional # Zero
      /\ AtMost(notional, first) /\ AtMost(notional, middle) /\ AtMost(notional, third)
  BY <1>3, <1>5, AmountsAreFractions, LeastOfFractions
<1> QED BY <1>1, <1>4, <1>5, <1>6, AmountsAreFractions

-----------------------------------------------------------------------------
(* Filling an order level by level.                                        *)

\* P[k, x] is what the part x of an order brings on level k, which takes C[k]
\* and brings G[k] for it.
IsGain(P, n, C, G) ==
  \A k \in 1..n :
    /\ P[<<k, C[k]>>] = G[k]
    /\ \A x, y \in Finite : P[<<k, Plus(x, y)>>] = Plus(P[<<k, x>>], P[<<k, y>>])
    /\ \A x \in Amounts : P[<<k, x>>] \in Amounts

\* The best level comes first.
BestFirst(P, n) ==
  \A k \in 1..(n - 1), x \in Finite :
    /\ AtMost(Zero, x) => AtMost(P[<<k + 1, x>>], P[<<k, x>>])
    /\ AtMost(x, Zero) => AtMost(P[<<k, x>>], P[<<k + 1, x>>])

\* The loop of the average prices: a level is used up, or the rest of the order
\* is filled on it, or nothing is left.
Fills(gain, used, left, n, a, C, G, P) ==
  /\ gain[0] = Zero /\ used[0] = Zero /\ left[0] = a
  /\ \A k \in 1..n :
       \/ /\ AtMost(left[k - 1], Zero)
          /\ gain[k] = gain[k - 1] /\ used[k] = used[k - 1] /\ left[k] = left[k - 1]
       \/ /\ ~AtMost(left[k - 1], Zero) /\ AtMost(C[k], left[k - 1])
          /\ gain[k] = Plus(gain[k - 1], G[k])
          /\ used[k] = Plus(used[k - 1], C[k])
          /\ left[k] = Minus(left[k - 1], C[k])
       \/ /\ ~AtMost(left[k - 1], Zero) /\ ~AtMost(C[k], left[k - 1])
          /\ gain[k] = Plus(gain[k - 1], P[<<k, left[k - 1]>>])
          /\ used[k] = Plus(used[k - 1], left[k - 1])
          /\ left[k] = Zero

\* A side for sale: CS and GS are the sums over C and G.
IsMarket(n, C, G, CS, GS, P) ==
  /\ n \in Nat /\ C \in [1..n -> Amounts] /\ G \in [1..n -> Amounts]
  /\ CS \in [0..n -> Finite] /\ IsSum(CS, n, C)
  /\ GS \in [0..n -> Finite] /\ IsSum(GS, n, G)
  /\ P \in [(1..n) \X Finite -> Finite] /\ IsGain(P, n, C, G) /\ BestFirst(P, n)

\* What the order would bring if level k had no end.
TangentOf(CS, GS, P, a, k) == Plus(GS[k - 1], P[<<k, Minus(a, CS[k - 1])>>])

LEMMA FillsOnTangent ==
  ASSUME NEW n, NEW C, NEW G, NEW CS, NEW GS, NEW P, IsMarket(n, C, G, CS, GS, P),
         NEW a \in Amounts,
         NEW gain, NEW used, NEW left, Fills(gain, used, left, n, a, C, G, P),
         NEW k \in 0..n
  PROVE  \/ /\ gain[k] = GS[k] /\ used[k] = CS[k] /\ left[k] = Minus(a, CS[k])
            /\ Less(Zero, left[k])
         \/ /\ used[k] = a /\ left[k] = Zero
            /\ \E j \in 1..k : /\ AtMost(CS[j - 1], a) /\ AtMost(a, CS[j])
                               /\ gain[k] = TangentOf(CS, GS, P, a, j)
<1> USE DEF IsMarket
<1> DEFINE Going(i) == /\ gain[i] = GS[i] /\ used[i] = CS[i] /\ left[i] = Minus(a, CS[i])
                       /\ Less(Zero, left[i])
           Stops(i, j) == /\ AtMost(CS[j - 1], a) /\ AtMost(a, CS[j])
                          /\ gain[i] = TangentOf(CS, GS, P, a, j)
           Done(i) == used[i] = a /\ left[i] = Zero /\ \E j \in 1..i : Stops(i, j)
           Bad == {i \in 0..n : ~(Going(i) \/ Done(i))}
<1>1. a \in Finite /\ Less(Zero, a) /\ Zero \in Finite
  BY AmountTerms, AmountIsPositive, ZeroPlus
<1>2. Going(0)
  <2>1. CS[0] = Zero /\ GS[0] = Zero /\ gain[0] = Zero /\ used[0] = Zero /\ left[0] = a
    BY DEF IsSum, Fills
  <2> QED BY <1>1, <2>1, ZeroPlus
<1>3. ASSUME NEW i \in 1..n, Going(i - 1) PROVE Going(i) \/ Done(i)
  <2>1. PICK l \in Finite, c \in Finite, cs \in Finite, gs \in Finite :
          /\ l = Minus(a, cs) /\ c = C[i] /\ cs = CS[i - 1] /\ gs = GS[i - 1]
          /\ C[i] \in Finite /\ CS[i] \in Finite
    <3>1. i - 1 \in 0..n /\ i \in 0..n
      OBVIOUS
    <3>2. C[i] \in Amounts /\ CS[i - 1] \in Finite /\ GS[i - 1] \in Finite /\ CS[i] \in Finite
      BY <3>1
    <3> QED BY <1>1, <3>2, AmountTerms, FiniteClosed, ZenonT(40)
  <2>2. /\ gain[i - 1] = gs /\ used[i - 1] = cs /\ left[i - 1] = l
        /\ Less(Zero, l) /\ ~AtMost(l, Zero)
    BY <1>1, <1>3, <2>1, OrderIsTotal
  <2>3. CS[i] = Plus(cs, c) /\ GS[i] = Plus(gs, G[i])
    BY <2>1 DEF IsSum
  <2>4. AtMost(cs, a)
    <3>1. AtMost(Zero, Minus(a, cs))
      BY <2>1, <2>2 DEF AtMost
    <3> QED BY <1>1, <2>1, <3>1, SignOfMinus
  <2>5. Minus(l, c) = Minus(a, CS[i])
    BY <1>1, <2>1, <2>3, MinusTwice
  <2>6. AtMost(c, l) <=> AtMost(CS[i], a)
    BY <1>1, <2>1, <2>5, SignOfMinus
  <2>7. CASE AtMost(c, l)
    <3>1. gain[i] = GS[i] /\ used[i] = CS[i] /\ left[i] = Minus(a, CS[i])
      BY <2>1, <2>2, <2>3, <2>5, <2>7 DEF Fills
    <3>2. CASE Less(Zero, Minus(a, CS[i]))
      BY <3>1, <3>2
    <3>3. CASE ~Less(Zero, Minus(a, CS[i]))
      <4>1. Minus(a, CS[i]) \in Finite
        BY <1>1, <2>1, FiniteClosed
      <4>2. AtMost(a, CS[i])
        BY <1>1, <2>1, <3>3, <4>1, OrderIsTotal, SignOfMinus
      <4>3. a = CS[i]
        BY <1>1, <2>1, <2>6, <2>7, <4>2, OrderIsTotal
      <4>4. l = c
        BY <2>1, <2>3, <4>3, PlusThenMinus
      <4>5. left[i] = Zero /\ used[i] = a
        BY <1>1, <3>1, <4>3, MinusItself
      <4>6. gain[i] = TangentOf(CS, GS, P, a, i)
        BY <2>1, <2>3, <3>1, <4>4 DEF IsGain, TangentOf
      <4>7. Stops(i, i) /\ i \in 1..i
        BY <2>1, <2>4, <4>2, <4>6
      <4> QED BY <4>5, <4>7
    <3> QED BY <3>2, <3>3
  <2>8. CASE ~AtMost(c, l)
    <3>1. /\ gain[i] = Plus(gs, P[<<i, l>>]) /\ used[i] = Plus(cs, l) /\ left[i] = Zero
      BY <2>1, <2>2, <2>8 DEF Fills
    <3>2. used[i] = a
      BY <1>1, <2>1, <3>1, MinusThenPlus
    <3>3. gain[i] = TangentOf(CS, GS, P, a, i)
      BY <2>1, <3>1 DEF TangentOf
    <3>4. AtMost(a, CS[i])
      BY <1>1, <2>1, <2>6, <2>8, OrderIsTotal DEF AtMost
    <3>5. Stops(i, i) /\ i \in 1..i
      BY <2>1, <2>4, <3>3, <3>4
    <3> QED BY <3>1, <3>2, <3>5
  <2> QED BY <2>7, <2>8
<1>4. ASSUME NEW i \in 1..n, Done(i - 1) PROVE Done(i)
  <2>1. AtMost(left[i - 1], Zero)
    BY <1>1, <1>4, OrderIsTotal
  <2>2. gain[i] = gain[i - 1] /\ used[i] = used[i - 1] /\ left[i] = left[i - 1]
    BY <2>1 DEF Fills
  <2>3. PICK j \in 1..(i - 1) : Stops(i - 1, j)
    BY <1>4
  <2>4. j \in 1..i /\ Stops(i, j)
    BY <2>2, <2>3
  <2> HIDE DEF Stops
  <2> QED BY <1>4, <2>2, <2>4
<1> HIDE DEF Going, Done
<1>5. Bad = {}
  <2> SUFFICES ASSUME Bad # {} PROVE FALSE
    OBVIOUS
  <2>1. PICK i \in Bad : \A j \in Bad : i <= j
    <3>1. Bad \subseteq Nat
      OBVIOUS
    <3> HIDE DEF Bad
    <3> QED BY <3>1, LeastNat
  <2>2. i # 0
    BY <1>2, <2>1
  <2>3. i \in 1..n /\ i - 1 \in 0..n /\ i - 1 \notin Bad
    BY <2>1, <2>2
  <2>4. Going(i - 1) \/ Done(i - 1)
    BY <2>3
  <2> QED BY <1>3, <1>4, <2>1, <2>3, <2>4
<1>6. Going(k) \/ Done(k)
  BY <1>5
<1> QED BY <1>6 DEF Going, Done

LEMMA SumRises ==
  ASSUME NEW n \in Nat, NEW C \in [1..n -> Amounts],
         NEW CS \in [0..n -> Finite], IsSum(CS, n, C),
         NEW i \in 0..n, NEW k \in i..n
  PROVE  AtMost(CS[i], CS[k])
<1> DEFINE Bad == {l \in i..n : ~AtMost(CS[i], CS[l])}
<1>1. Bad = {}
  <2> SUFFICES ASSUME Bad # {} PROVE FALSE
    OBVIOUS
  <2>1. PICK l \in Bad : \A j \in Bad : l <= j
    <3>1. Bad \subseteq Nat
      OBVIOUS
    <3> HIDE DEF Bad
    <3> QED BY <3>1, LeastNat
  <2>2. l # i
    BY <2>1, OrderIsTotal
  <2>3. l \in 1..n /\ l - 1 \in i..n /\ l - 1 \notin Bad
    BY <2>1, <2>2
  <2>4. PICK u \in Finite, c \in Finite : u = CS[l - 1] /\ c = C[l] /\ AtMost(Zero, c)
    <3>1. C[l] \in Amounts /\ CS[l - 1] \in Finite
      BY <2>3
    <3> QED BY <3>1, AmountTerms, AmountIsPositive DEF AtMost
  <2>5. CS[l] = Plus(u, c)
    BY <2>3, <2>4 DEF IsSum
  <2>6. AtMost(Plus(u, Zero), Plus(u, c)) /\ Plus(u, Zero) = u
    BY <2>4, ZeroPlus, PlusCommutes, PlusMonotone
  <2>7. AtMost(CS[i], u) /\ CS[i] \in Finite
    BY <2>3, <2>4
  <2>8. AtMost(CS[i], CS[l])
    BY <2>4, <2>5, <2>6, <2>7, FiniteClosed, AtMostTransitive
  <2> QED BY <2>1, <2>8
<1> QED BY <1>1

\* Along a line that falls up to j and rises from there, j is the lowest point.
LEMMA LowestPoint ==
  ASSUME NEW n \in Nat, NEW T \in [1..n -> Finite], NEW j \in 1..n,
         \A m \in 1..(n - 1) : m < j => AtMost(T[m + 1], T[m]),
         \A m \in 1..(n - 1) : m >= j => AtMost(T[m], T[m + 1]),
         NEW k \in 1..n
  PROVE  AtMost(T[j], T[k])
<1> DEFINE Higher == {l \in j..n : ~AtMost(T[j], T[l])}
           Lower  == {d \in 0..(j - 1) : ~AtMost(T[j], T[j - d])}
<1>1. Higher = {}
  <2> SUFFICES ASSUME Higher # {} PROVE FALSE
    OBVIOUS
  <2>1. PICK l \in Higher : \A i \in Higher : l <= i
    <3>1. Higher \subseteq Nat
      OBVIOUS
    <3> HIDE DEF Higher
    <3> QED BY <3>1, LeastNat
  <2>2. l # j
    BY <2>1, OrderIsTotal
  <2>3. l - 1 \in j..n /\ l - 1 \notin Higher /\ l - 1 \in 1..(n - 1) /\ (l - 1) + 1 = l
    BY <2>1, <2>2
  <2>4. AtMost(T[j], T[l - 1]) /\ AtMost(T[l - 1], T[l])
    BY <2>3
  <2>5. T[j] \in Finite /\ T[l - 1] \in Finite /\ T[l] \in Finite
    BY <2>1, <2>3
  <2> QED BY <2>1, <2>4, <2>5, AtMostTransitive
<1>2. Lower = {}
  <2> SUFFICES ASSUME Lower # {} PROVE FALSE
    OBVIOUS
  <2>1. PICK d \in Lower : \A i \in Lower : d <= i
    <3>1. Lower \subseteq Nat
      OBVIOUS
    <3> HIDE DEF Lower
    <3> QED BY <3>1, LeastNat
  <2>2. d # 0
    BY <2>1, OrderIsTotal
  <2>3. d - 1 \in 0..(j - 1) /\ d - 1 \notin Lower
    <3>1. d \in 0..(j - 1) /\ d \in Nat /\ j \in Nat
      BY <2>1
    <3>2. d - 1 \in 0..(j - 1) /\ ~(d <= d - 1)
      BY <2>2, <3>1
    <3> HIDE DEF Lower
    <3> QED BY <2>1, <3>2
  <2>4. AtMost(T[j], T[j - (d - 1)])
    BY <2>3
  <2>5. PICK m \in 1..(n - 1) : m = j - d /\ m < j /\ m + 1 = j - (d - 1)
    BY <2>1, <2>2
  <2>6. AtMost(T[m + 1], T[m])
    BY <2>5
  <2>7. T[j] \in Finite /\ T[m + 1] \in Finite /\ T[m] \in Finite
    BY <2>5
  <2> QED BY <2>1, <2>4, <2>5, <2>6, <2>7, AtMostTransitive
<1>3. CASE k >= j
  BY <1>1, <1>3
<1>4. CASE k < j
  <2>1. j - k \in 0..(j - 1) /\ j - (j - k) = k
    BY <1>4
  <2> QED BY <1>2, <2>1
<1> QED BY <1>3, <1>4

LEMMA TangentIsLeast ==
  ASSUME NEW n, NEW C, NEW G, NEW CS, NEW GS, NEW P, IsMarket(n, C, G, CS, GS, P),
         NEW a \in Finite,
         NEW j \in 1..n, AtMost(CS[j - 1], a), AtMost(a, CS[j]), NEW k \in 1..n
  PROVE  AtMost(TangentOf(CS, GS, P, a, j), TangentOf(CS, GS, P, a, k))
<1> USE DEF IsMarket
<1> DEFINE T == [m \in 1..n |-> TangentOf(CS, GS, P, a, m)]
<1>1. ASSUME NEW m \in 1..n
      PROVE  /\ CS[m] \in Finite /\ GS[m] \in Finite /\ CS[m - 1] \in Finite /\ GS[m - 1] \in Finite
             /\ C[m] \in Finite /\ G[m] \in Finite
             /\ Minus(a, CS[m]) \in Finite /\ Minus(a, CS[m - 1]) \in Finite
             /\ P[<<m, Minus(a, CS[m])>>] \in Finite
             /\ P[<<m, Minus(a, CS[m - 1])>>] \in Finite
  <2>1. m \in 0..n /\ m - 1 \in 0..n
    OBVIOUS
  <2>2. CS[m] \in Finite /\ GS[m] \in Finite /\ CS[m - 1] \in Finite /\ GS[m - 1] \in Finite
    BY <2>1
  <2>3. C[m] \in Finite /\ G[m] \in Finite
    BY AmountTerms
  <2>4. Minus(a, CS[m]) \in Finite /\ Minus(a, CS[m - 1]) \in Finite
    BY <2>2, FiniteClosed
  <2> QED BY <2>2, <2>3, <2>4
<1>2. T \in [1..n -> Finite]
  <2>1. ASSUME NEW m \in 1..n PROVE TangentOf(CS, GS, P, a, m) \in Finite
    BY <1>1, FiniteClosed DEF TangentOf
  <2> QED BY <2>1
<1>3. ASSUME NEW m \in 1..n
      PROVE  T[m] = Plus(GS[m], P[<<m, Minus(a, CS[m])>>])
  <2>1. PICK u \in Finite, c \in Finite, g \in Finite, v \in Finite, x \in Finite, y \in Finite :
          /\ u = CS[m - 1] /\ c = C[m] /\ g = G[m] /\ v = GS[m - 1]
          /\ x = Minus(a, CS[m]) /\ y = P[<<m, x>>]
    BY <1>1
  <2>2. CS[m] = Plus(u, c) /\ GS[m] = Plus(v, g)
    BY <2>1 DEF IsSum
  <2>3. Minus(a, u) = Plus(x, c)
    BY <2>1, <2>2, MinusLess
  <2>4. P[<<m, Minus(a, u)>>] = Plus(y, g)
    <3>1. P[<<m, Plus(x, c)>>] = Plus(P[<<m, x>>], P[<<m, c>>]) /\ P[<<m, c>>] = g
      BY <2>1 DEF IsGain
    <3> QED BY <2>1, <2>3, <3>1
  <2>5. T[m] = Plus(v, Plus(y, g))
    BY <2>1, <2>4 DEF TangentOf
  <2>6. Plus(y, g) = Plus(g, y) /\ Plus(v, Plus(g, y)) = Plus(Plus(v, g), y)
    BY <2>1, PlusCommutes, PlusAssociates
  <2> QED BY <2>1, <2>2, <2>5, <2>6
<1>4. ASSUME NEW m \in 1..(n - 1)
      PROVE  /\ AtMost(CS[m], a) => AtMost(T[m + 1], T[m])
             /\ AtMost(a, CS[m]) => AtMost(T[m], T[m + 1])
  <2>1. m \in 1..n /\ m + 1 \in 1..n /\ (m + 1) - 1 = m
    OBVIOUS
  <2>2. PICK x \in Finite : /\ x = Minus(a, CS[m]) /\ CS[m] \in Finite /\ GS[m] \in Finite
                            /\ P[<<m, x>>] \in Finite /\ P[<<m + 1, x>>] \in Finite
    BY <1>1, <2>1
  <2>3. T[m] = Plus(GS[m], P[<<m, x>>])
    <3> HIDE DEF T
    <3> QED BY <1>3, <2>1, <2>2
  <2>4. T[m + 1] = Plus(GS[m], P[<<m + 1, x>>])
    BY <2>1, <2>2 DEF TangentOf
  <2>5. (AtMost(Zero, x) <=> AtMost(CS[m], a)) /\ (AtMost(x, Zero) <=> AtMost(a, CS[m]))
    BY <2>2, SignOfMinus
  <2> HIDE DEF T
  <2> QED BY <2>2, <2>3, <2>4, <2>5, PlusMonotone DEF BestFirst
<1>5. ASSUME NEW m \in 1..(n - 1), m < j PROVE AtMost(T[m + 1], T[m])
  <2>1. m \in 0..n /\ j - 1 \in m..n /\ j - 1 \in 0..n
    BY <1>5
  <2>2. AtMost(CS[m], CS[j - 1])
    BY <2>1, SumRises
  <2>3. CS[m] \in Finite /\ CS[j - 1] \in Finite
    BY <2>1
  <2>4. AtMost(CS[m], a)
    BY <2>2, <2>3, AtMostTransitive
  <2> HIDE DEF T
  <2> QED BY <1>4, <2>4
<1>6. ASSUME NEW m \in 1..(n - 1), m >= j PROVE AtMost(T[m], T[m + 1])
  <2>1. j \in 0..n /\ m \in j..n /\ m \in 0..n
    BY <1>6
  <2>2. AtMost(CS[j], CS[m])
    BY <2>1, SumRises
  <2>3. CS[m] \in Finite /\ CS[j] \in Finite
    BY <2>1
  <2>4. AtMost(a, CS[m])
    BY <2>2, <2>3, AtMostTransitive
  <2> HIDE DEF T
  <2> QED BY <1>4, <2>4
<1>7. AtMost(T[j], T[k])
  <2> HIDE DEF T
  <2> QED BY <1>2, <1>5, <1>6, LowestPoint
<1> QED BY <1>7

\* g is what a market order for a brings.
Brings(n, a, g, CS, GS, P) ==
  /\ AtMost(a, CS[n])
  /\ \E j \in 1..n : g = TangentOf(CS, GS, P, a, j)
  /\ \A k \in 1..n : AtMost(g, TangentOf(CS, GS, P, a, k))

\* Nothing brings nothing.
LEMMA GainOfZero ==
  ASSUME NEW n, NEW C, NEW G, NEW CS, NEW GS, NEW P, IsMarket(n, C, G, CS, GS, P),
         NEW k \in 1..n
  PROVE  P[<<k, Zero>>] = Zero
<1>1. Zero \in Finite /\ Plus(Zero, Zero) = Zero
  BY ZeroIs, AmountTerms, ZeroPlus
<1>2. PICK z \in Finite : z = P[<<k, Zero>>]
  BY <1>1 DEF IsMarket
<1>3. \A u, w \in Finite : P[<<k, Plus(u, w)>>] = Plus(P[<<k, u>>], P[<<k, w>>])
  BY DEF IsMarket, IsGain
<1>4. P[<<k, Plus(Zero, Zero)>>] = Plus(z, z)
  BY <1>1, <1>2, <1>3
<1>5. z = Plus(z, z)
  BY <1>1, <1>2, <1>4
<1>6. Minus(Plus(z, z), z) = z /\ Minus(z, z) = Zero
  BY PlusThenMinus, MinusItself
<1> QED BY <1>2, <1>5, <1>6

\* A market order brings something.
LEMMA BringsAmount ==
  ASSUME NEW n, NEW C, NEW G, NEW CS, NEW GS, NEW P, IsMarket(n, C, G, CS, GS, P),
         NEW a \in Amounts, NEW j \in 1..n, AtMost(CS[j - 1], a)
  PROVE  TangentOf(CS, GS, P, a, j) \in Amounts
<1> USE DEF IsMarket
<1>1. a \in Finite /\ Zero \in Finite /\ j - 1 \in 0..n
  BY AmountTerms, ZeroPlus
<1>2. PICK cs \in Finite, gs \in Finite, x \in Finite :
        cs = CS[j - 1] /\ gs = GS[j - 1] /\ x = Minus(a, cs)
  BY <1>1, FiniteClosed
<1>3. AtMost(Zero, x)
  BY <1>1, <1>2, SignOfMinus
<1>4. CASE j = 1
  <2>1. cs = Zero /\ gs = Zero
    BY <1>2, <1>4 DEF IsSum
  <2>2. x = a
    BY <1>1, <1>2, <2>1, ZeroPlus
  <2>3. P[<<j, x>>] \in Amounts /\ P[<<j, x>>] \in Finite
    BY <2>2, AmountTerms DEF IsGain
  <2> QED BY <1>2, <2>1, <2>3, ZeroPlus DEF TangentOf
<1>5. CASE j # 1
  <2>1. gs \in Amounts
    <3>1. 0 \in 0..n /\ 1 \in 0..n /\ 1 \in 1..n /\ j - 1 \in 1..n
      BY <1>5
    <3>2. GS[1] = Plus(GS[0], G[1]) /\ GS[0] = Zero /\ G[1] \in Amounts
      BY <3>1 DEF IsSum
    <3>3. GS[1] \in Amounts /\ GS[1] \in Finite
      BY <3>2, ZeroPlus, AmountTerms
    <3>4. AtMost(GS[1], gs)
      <4>1. j - 1 \in 1..n /\ n \in Nat
        BY <3>1
      <4> QED BY <1>2, <3>1, <4>1, SumRises
    <3>5. AtMost(Zero, GS[1]) /\ ~AtMost(GS[1], Zero)
      BY <1>1, <3>3, AmountIsPositive, OrderIsTotal DEF AtMost
    <3>6. ~AtMost(gs, Zero)
      BY <1>1, <1>2, <3>3, <3>4, <3>5, AtMostTransitive
    <3> QED BY <1>1, <1>2, <3>6, OrderIsTotal, AmountIsPositive
  <2>2. CASE x = Zero
    <3>1. P[<<j, Zero>>] = Zero
      BY GainOfZero
    <3>2. gs \in Finite /\ Plus(gs, Zero) = gs
      BY <1>1, <1>2, PlusCommutes, ZeroPlus
    <3> QED BY <1>2, <2>1, <2>2, <3>1, <3>2 DEF TangentOf
  <2>3. CASE x # Zero
    <3>1. x \in Amounts
      BY <1>1, <1>3, <2>3, AmountIsPositive DEF AtMost
    <3>2. P[<<j, x>>] \in Amounts
      BY <3>1 DEF IsGain
    <3> QED BY <1>2, <2>1, <3>2, AmountsClosed DEF TangentOf
  <2> QED BY <2>2, <2>3
<1> QED BY <1>4, <1>5

\* The loop ends with some of the order left, because the side cannot take it,
\* or has brought what a market order brings.
LEMMA FilledOrder ==
  ASSUME NEW n, NEW C, NEW G, NEW CS, NEW GS, NEW P, IsMarket(n, C, G, CS, GS, P),
         NEW a \in Amounts,
         NEW gain, NEW used, NEW left, Fills(gain, used, left, n, a, C, G, P)
  PROVE  \/ Less(Zero, left[n]) /\ Less(used[n], a) /\ ~AtMost(a, CS[n])
         \/ /\ left[n] = Zero /\ used[n] = a /\ Brings(n, a, gain[n], CS, GS, P)
            /\ gain[n] \in Amounts
<1>1. /\ n \in Nat /\ n \in 0..n /\ a \in Finite /\ Zero \in Finite
      /\ C \in [1..n -> Amounts] /\ CS \in [0..n -> Finite] /\ IsSum(CS, n, C)
  BY AmountTerms, ZeroPlus DEF IsMarket
<1>2. \/ /\ used[n] = CS[n] /\ left[n] = Minus(a, CS[n]) /\ Less(Zero, left[n])
      \/ /\ used[n] = a /\ left[n] = Zero
         /\ \E j \in 1..n : /\ AtMost(CS[j - 1], a) /\ AtMost(a, CS[j])
                            /\ gain[n] = TangentOf(CS, GS, P, a, j)
  BY <1>1, FillsOnTangent
<1>3. CASE used[n] = CS[n] /\ left[n] = Minus(a, CS[n]) /\ Less(Zero, left[n])
  <2>1. CS[n] \in Finite /\ Minus(a, CS[n]) \in Finite
    BY <1>1, FiniteClosed
  <2>2. ~AtMost(Minus(a, CS[n]), Zero)
    BY <1>1, <1>3, <2>1, OrderIsTotal
  <2>3. ~AtMost(a, CS[n])
    BY <1>1, <2>1, <2>2, SignOfMinus
  <2> QED BY <1>1, <1>3, <2>1, <2>3, OrderIsTotal
<1>4. ASSUME NEW j \in 1..n, used[n] = a, left[n] = Zero,
             AtMost(CS[j - 1], a), AtMost(a, CS[j]), gain[n] = TangentOf(CS, GS, P, a, j)
      PROVE  Brings(n, a, gain[n], CS, GS, P) /\ gain[n] \in Amounts
  <2>1. AtMost(CS[j], CS[n]) /\ CS[j] \in Finite /\ CS[n] \in Finite
    <3>1. j \in 0..n /\ n \in j..n
      BY <1>1
    <3> QED BY <1>1, <3>1, SumRises
  <2>2. AtMost(a, CS[n])
    BY <1>1, <1>4, <2>1, AtMostTransitive
  <2>3. ASSUME NEW k \in 1..n PROVE AtMost(gain[n], TangentOf(CS, GS, P, a, k))
    BY <1>1, <1>4, TangentIsLeast
  <2>4. gain[n] \in Amounts
    BY <1>4, BringsAmount
  <2> QED BY <1>4, <2>2, <2>3, <2>4 DEF Brings
<1> QED BY <1>2, <1>3, <1>4

-----------------------------------------------------------------------------
(* Selling to the bids and buying from the asks.                           *)

\* The loop over the bids, with the state it carries.
Selling == [value : Finite, filled : Finite, remaining : Finite]

SellOn(s, level) ==
  IF AtMost(s.remaining, Zero) THEN s
  ELSE LET fill == smaller(level.quantity, s.remaining)
       IN  [value     |-> Plus(s.value, Times(level.price, fill)),
            filled    |-> Plus(s.filled, fill),
            remaining |-> Minus(s.remaining, fill)]

LEMMA SellOnType ==
  ASSUME NEW s \in Selling, NEW level \in PriceLevels
  PROVE  SellOn(s, level) \in Selling
<1>1. PICK v \in Finite, f \in Finite, r \in Finite :
        s = [value |-> v, filled |-> f, remaining |-> r]
  BY DEF Selling
<1>2. PICK p \in Finite, q \in Finite : p = level.price /\ q = level.quantity
  BY AmountTerms DEF PriceLevels
<1>3. PICK fill \in Finite : fill = smaller(level.quantity, s.remaining)
  BY <1>1, <1>2 DEF smaller
<1>4. /\ Plus(s.value, Times(level.price, fill)) \in Finite
      /\ Plus(s.filled, fill) \in Finite /\ Minus(s.remaining, fill) \in Finite
  BY <1>1, <1>2, <1>3, FiniteClosed
<1> QED BY <1>3, <1>4 DEF SellOn, Selling

IsSellingRun(run, levels, a) ==
  /\ run[0] = [value |-> Zero, filled |-> Zero, remaining |-> a]
  /\ \A k \in 1..Len(levels) : run[k] = SellOn(run[k - 1], levels[k])
  /\ calculateVwapBid(levels, a) =
       IF \/ AtMost(a, Zero)
          \/ Less(run[Len(levels)].filled, a)
          \/ AtMost(run[Len(levels)].filled, Zero)
       THEN Zero ELSE Over(run[Len(levels)].value, run[Len(levels)].filled)

LEMMA SellingRuns ==
  ASSUME NEW levels \in Seq(PriceLevels), NEW a \in Amounts
  PROVE  \E run \in [0..Len(levels) -> Selling] : IsSellingRun(run, levels, a)
<1>1. PICK n \in Nat : /\ n = Len(levels) /\ DOMAIN levels = 1..n
                       /\ \A i \in 1..n : levels[i] \in PriceLevels
  <2>1. Len(levels) \in Nat /\ DOMAIN levels = 1..Len(levels)
    OBVIOUS
  <2>2. \A i \in 1..Len(levels) : levels[i] \in PriceLevels
    OBVIOUS
  <2> QED BY <2>1, <2>2
<1>2. PICK base \in Selling : base = [value |-> Zero, filled |-> Zero, remaining |-> a]
  <2>1. a \in Finite /\ Zero \in Finite
    BY AmountTerms, ZeroPlus
  <2> QED BY <2>1 DEF Selling
<1> DEFINE step(iter, s) == IF s = {} THEN [value |-> Zero, filled |-> Zero, remaining |-> a]
                            ELSE SellOn(iter[s \ {Max(s)}], levels[Max(s)])
           it == CHOOSE iter : iter = [s \in SUBSET (DOMAIN levels) |-> step(iter, s)]
           F == [p \in Selling \X (1..n) |-> SellOn(p[1], levels[p[2]])]
<1>3. calculateVwapBid(levels, a) =
        IF \/ AtMost(a, Zero)
           \/ Less(it[DOMAIN levels].filled, a)
           \/ AtMost(it[DOMAIN levels].filled, Zero)
        THEN Zero ELSE Over(it[DOMAIN levels].value, it[DOMAIN levels].filled)
  BY DEF calculateVwapBid, FoldLeft, MapThenFoldSet, SellOn
<1>4. F \in [Selling \X (1..n) -> Selling]
  BY <1>1, SellOnType
<1>5. \A s \in SUBSET (1..n) : it[s] = step(it, s)
  <2>1. PICK g \in [SUBSET (1..n) -> Selling] : IsFold(g, n, base, F)
    <3> HIDE DEF F, it, step
    <3> QED BY <1>1, <1>4, FoldExists
  <2>2. ASSUME NEW s \in SUBSET (1..n) PROVE g[s] = step(g, s)
    <3>1. CASE s = {}
      BY <1>2, <2>1, <3>1 DEF IsFold
    <3>2. CASE s # {}
      <4>1. Max(s) \in 1..n /\ s \ {Max(s)} \in SUBSET (1..n)
        BY <1>1, <3>2, MaxOfInterval
      <4>2. g[s] = F[<<g[s \ {Max(s)}], Max(s)>>] /\ g[s \ {Max(s)}] \in Selling
        BY <2>1, <3>2, <4>1 DEF IsFold
      <4> QED BY <3>2, <4>1, <4>2
    <3> QED BY <3>1, <3>2
  <2>3. g = [s \in SUBSET (DOMAIN levels) |-> step(g, s)]
    <3> HIDE DEF step
    <3> QED BY <1>1, <2>1, <2>2
  <2>4. it = [s \in SUBSET (DOMAIN levels) |-> step(it, s)]
    <3> HIDE DEF step
    <3> QED BY <2>3
  <2> HIDE DEF step, it
  <2> QED BY <1>1, <2>4
<1> HIDE DEF it
<1>6. FoldsIn(it, n, Selling, base, F)
  <2>1. it[{}] = base
    BY <1>2, <1>5
  <2>2. ASSUME NEW s \in SUBSET (1..n), s # {}, it[s \ {Max(s)}] \in Selling
        PROVE  it[s] = F[<<it[s \ {Max(s)}], Max(s)>>]
    <3>1. Max(s) \in 1..n
      BY <1>1, <2>2, MaxOfInterval
    <3> QED BY <1>5, <2>2, <3>1
  <2> HIDE DEF F, step
  <2> QED BY <1>1, <1>4, <2>1, <2>2 DEF FoldsIn
<1>7. PICK run \in [0..n -> Selling] : IsFoldRun(run, n, base, F) /\ run[n] = it[1..n]
  <2> HIDE DEF F
  <2> QED BY <1>6, FoldRuns DEF RunsIn
<1>8. ASSUME NEW k \in 1..n PROVE run[k] = SellOn(run[k - 1], levels[k])
  <2>1. k - 1 \in 0..n
    OBVIOUS
  <2>2. run[k - 1] \in Selling
    BY <2>1
  <2>3. run[k] = F[<<run[k - 1], k>>]
    <3> HIDE DEF F
    <3> QED BY <1>7 DEF IsFoldRun
  <2> QED BY <2>2, <2>3
<1>9. run[0] = base
  BY <1>7 DEF IsFoldRun
<1> HIDE DEF F, step
<1> QED BY <1>1, <1>2, <1>3, <1>7, <1>8, <1>9 DEF IsSellingRun

\* The loop over the asks, with the state it carries.
Buying == [acquired : Finite, spent : Finite, remaining : Finite]

BuyOn(s, level) ==
  LET cost == Times(level.price, level.quantity)
  IN  IF AtMost(s.remaining, Zero) THEN s
      ELSE IF AtMost(cost, s.remaining)
      THEN [acquired  |-> Plus(s.acquired, level.quantity),
            spent     |-> Plus(s.spent, cost),
            remaining |-> Minus(s.remaining, cost)]
      ELSE [acquired  |-> Plus(s.acquired, Over(s.remaining, level.price)),
            spent     |-> Plus(s.spent, s.remaining),
            remaining |-> Zero]

LEMMA BuyOnType ==
  ASSUME NEW s \in Buying, NEW level \in PriceLevels
  PROVE  BuyOn(s, level) \in Buying
<1>1. PICK v \in Finite, f \in Finite, r \in Finite :
        s = [acquired |-> v, spent |-> f, remaining |-> r]
  BY DEF Buying
<1>2. PICK p \in Amounts, q \in Finite : p = level.price /\ q = level.quantity
  BY AmountTerms DEF PriceLevels
<1>3. PICK cost \in Finite : cost = Times(level.price, level.quantity)
  BY <1>2, FiniteClosed, AmountTerms
<1>4. PICK bought \in Finite : bought = Over(s.remaining, p)
  BY <1>1, <1>2, FiniteClosed, AmountTerms
<1>5. /\ Plus(s.acquired, q) \in Finite /\ Plus(s.spent, cost) \in Finite
      /\ Minus(s.remaining, cost) \in Finite
      /\ Plus(s.acquired, Over(s.remaining, p)) \in Finite
      /\ Plus(s.spent, s.remaining) \in Finite /\ Zero \in Finite
  BY <1>1, <1>2, <1>3, <1>4, FiniteClosed, ZeroPlus
<1> QED BY <1>2, <1>3, <1>5, <1>4 DEF BuyOn, Buying

IsBuyingRun(run, levels, a) ==
  /\ run[0] = [acquired |-> Zero, spent |-> Zero, remaining |-> a]
  /\ \A k \in 1..Len(levels) : run[k] = BuyOn(run[k - 1], levels[k])
  /\ calculateVwapAsk(levels, a) =
       IF \/ AtMost(a, Zero)
          \/ ~Less(Zero, run[Len(levels)].acquired)
          \/ ~AtMost(run[Len(levels)].remaining, Zero)
       THEN Zero ELSE Over(run[Len(levels)].spent, run[Len(levels)].acquired)

LEMMA BuyingRuns ==
  ASSUME NEW levels \in Seq(PriceLevels), NEW a \in Amounts
  PROVE  \E run \in [0..Len(levels) -> Buying] : IsBuyingRun(run, levels, a)
<1>1. PICK n \in Nat : /\ n = Len(levels) /\ DOMAIN levels = 1..n
                       /\ \A i \in 1..n : levels[i] \in PriceLevels
  <2>1. Len(levels) \in Nat /\ DOMAIN levels = 1..Len(levels)
    OBVIOUS
  <2>2. \A i \in 1..Len(levels) : levels[i] \in PriceLevels
    OBVIOUS
  <2> QED BY <2>1, <2>2
<1>2. PICK base \in Buying : base = [acquired |-> Zero, spent |-> Zero, remaining |-> a]
  <2>1. a \in Finite /\ Zero \in Finite
    BY AmountTerms, ZeroPlus
  <2> QED BY <2>1 DEF Buying
<1> DEFINE step(iter, s) == IF s = {} THEN [acquired |-> Zero, spent |-> Zero, remaining |-> a]
                            ELSE BuyOn(iter[s \ {Max(s)}], levels[Max(s)])
           it == CHOOSE iter : iter = [s \in SUBSET (DOMAIN levels) |-> step(iter, s)]
           F == [p \in Buying \X (1..n) |-> BuyOn(p[1], levels[p[2]])]
<1>3. calculateVwapAsk(levels, a) =
        IF \/ AtMost(a, Zero)
           \/ ~Less(Zero, it[DOMAIN levels].acquired)
           \/ ~AtMost(it[DOMAIN levels].remaining, Zero)
        THEN Zero ELSE Over(it[DOMAIN levels].spent, it[DOMAIN levels].acquired)
  BY DEF calculateVwapAsk, FoldLeft, MapThenFoldSet, BuyOn
<1>4. F \in [Buying \X (1..n) -> Buying]
  BY <1>1, BuyOnType
<1>5. \A s \in SUBSET (1..n) : it[s] = step(it, s)
  <2>1. PICK g \in [SUBSET (1..n) -> Buying] : IsFold(g, n, base, F)
    <3> HIDE DEF F, it, step
    <3> QED BY <1>1, <1>4, FoldExists
  <2>2. ASSUME NEW s \in SUBSET (1..n) PROVE g[s] = step(g, s)
    <3>1. CASE s = {}
      BY <1>2, <2>1, <3>1 DEF IsFold
    <3>2. CASE s # {}
      <4>1. Max(s) \in 1..n /\ s \ {Max(s)} \in SUBSET (1..n)
        BY <1>1, <3>2, MaxOfInterval
      <4>2. g[s] = F[<<g[s \ {Max(s)}], Max(s)>>] /\ g[s \ {Max(s)}] \in Buying
        BY <2>1, <3>2, <4>1 DEF IsFold
      <4> QED BY <3>2, <4>1, <4>2
    <3> QED BY <3>1, <3>2
  <2>3. g = [s \in SUBSET (DOMAIN levels) |-> step(g, s)]
    <3> HIDE DEF step
    <3> QED BY <1>1, <2>1, <2>2
  <2>4. it = [s \in SUBSET (DOMAIN levels) |-> step(it, s)]
    <3> HIDE DEF step
    <3> QED BY <2>3
  <2> HIDE DEF step, it
  <2> QED BY <1>1, <2>4
<1> HIDE DEF it
<1>6. FoldsIn(it, n, Buying, base, F)
  <2>1. it[{}] = base
    BY <1>2, <1>5
  <2>2. ASSUME NEW s \in SUBSET (1..n), s # {}, it[s \ {Max(s)}] \in Buying
        PROVE  it[s] = F[<<it[s \ {Max(s)}], Max(s)>>]
    <3>1. Max(s) \in 1..n
      BY <1>1, <2>2, MaxOfInterval
    <3> QED BY <1>5, <2>2, <3>1
  <2> HIDE DEF F, step
  <2> QED BY <1>1, <1>4, <2>1, <2>2 DEF FoldsIn
<1>7. PICK run \in [0..n -> Buying] : IsFoldRun(run, n, base, F) /\ run[n] = it[1..n]
  <2> HIDE DEF F
  <2> QED BY <1>6, FoldRuns DEF RunsIn
<1>8. ASSUME NEW k \in 1..n PROVE run[k] = BuyOn(run[k - 1], levels[k])
  <2>1. k - 1 \in 0..n
    OBVIOUS
  <2>2. run[k - 1] \in Buying
    BY <2>1
  <2>3. run[k] = F[<<run[k - 1], k>>]
    <3> HIDE DEF F
    <3> QED BY <1>7 DEF IsFoldRun
  <2> QED BY <2>2, <2>3
<1>9. run[0] = base
  BY <1>7 DEF IsFoldRun
<1> HIDE DEF F, step
<1> QED BY <1>1, <1>2, <1>3, <1>7, <1>8, <1>9 DEF IsBuyingRun

\* What amount would bring if level k had no end.
LineOf(levels, buying, k, amount) ==
  LET better == SubSeq(levels, 1, k - 1)
      base   == calculateBookSideValue(better, TRUE)
      quote  == calculateBookSideValue(better, FALSE)
  IN  IF buying
      THEN Plus(base, Over(Minus(amount, quote), levels[k].price))
      ELSE Plus(quote, Times(Minus(amount, base), levels[k].price))

\* The side takes the whole amount, and at the least of its prices.
IsMarketOrder(levels, buying, amount, proceeds) ==
  /\ AtMost(amount, calculateBookSideValue(levels, ~buying))
  /\ \E k \in DOMAIN levels : proceeds = LineOf(levels, buying, k, amount)
  /\ \A k \in DOMAIN levels : AtMost(proceeds, LineOf(levels, buying, k, amount))

\* What a part of an order brings on a level.
GainOn(levels, buying) ==
  [t \in (1..Len(levels)) \X Finite |->
     IF buying THEN Over(t[2], levels[t[1]].price) ELSE Times(levels[t[1]].price, t[2])]

LEMMA GainOnType ==
  ASSUME NEW levels \in Seq(PriceLevels), NEW buying \in BOOLEAN, NEW n \in Nat, n = Len(levels)
  PROVE  /\ GainOn(levels, buying) \in [(1..n) \X Finite -> Finite]
         /\ IsGain(GainOn(levels, buying), n, Worths(levels, ~buying), Worths(levels, buying))
         /\ InOrder(levels, buying) => BestFirst(GainOn(levels, buying), n)
<1>1. ASSUME NEW k \in 1..n
      PROVE  levels[k].price \in Amounts /\ levels[k].quantity \in Amounts
             /\ levels[k].price \in Finite /\ levels[k].quantity \in Finite
  <2>1. levels[k] \in PriceLevels
    OBVIOUS
  <2> QED BY <2>1, AmountTerms DEF PriceLevels
<1>2. ASSUME NEW k \in 1..n, NEW x \in Finite
      PROVE  /\ Over(x, levels[k].price) \in Finite /\ Times(levels[k].price, x) \in Finite
             /\ GainOn(levels, buying)[<<k, x>>] =
                  IF buying THEN Over(x, levels[k].price) ELSE Times(levels[k].price, x)
  <2>1. PICK p \in Amounts : p = levels[k].price /\ p \in Finite
    BY <1>1
  <2> QED BY <2>1, FiniteClosed DEF GainOn
<1>3. GainOn(levels, buying) \in [(1..n) \X Finite -> Finite]
  BY <1>2 DEF GainOn
<1>4. IsGain(GainOn(levels, buying), n, Worths(levels, ~buying), Worths(levels, buying))
  <2> SUFFICES ASSUME NEW k \in 1..n
               PROVE  /\ GainOn(levels, buying)[<<k, Worths(levels, ~buying)[k]>>] =
                           Worths(levels, buying)[k]
                      /\ \A x, y \in Finite :
                           GainOn(levels, buying)[<<k, Plus(x, y)>>] =
                             Plus(GainOn(levels, buying)[<<k, x>>], GainOn(levels, buying)[<<k, y>>])
                      /\ \A x \in Amounts : GainOn(levels, buying)[<<k, x>>] \in Amounts
    BY DEF IsGain
  <2>1. PICK p \in Amounts, q \in Amounts :
          p = levels[k].price /\ q = levels[k].quantity /\ p \in Finite /\ q \in Finite
    BY <1>1
  <2>2. /\ Worths(levels, TRUE)[k] = q /\ Worths(levels, FALSE)[k] = Times(p, q)
        /\ Times(p, q) \in Finite
    BY <2>1, FiniteClosed DEF Worths, Worth
  <2>3. Over(Times(p, q), p) = q
    BY <2>1, TimesThenOver
  <2>4. GainOn(levels, buying)[<<k, Worths(levels, ~buying)[k]>>] = Worths(levels, buying)[k]
    <3>1. CASE buying
      BY <1>2, <2>1, <2>2, <2>3, <3>1
    <3>2. CASE ~buying
      BY <1>2, <2>1, <2>2, <3>2
    <3> QED BY <3>1, <3>2
  <2>5. ASSUME NEW x \in Finite, NEW y \in Finite
        PROVE  GainOn(levels, buying)[<<k, Plus(x, y)>>] =
                 Plus(GainOn(levels, buying)[<<k, x>>], GainOn(levels, buying)[<<k, y>>])
    <3>1. Plus(x, y) \in Finite
      BY FiniteClosed
    <3>2. /\ Over(Plus(x, y), p) = Plus(Over(x, p), Over(y, p))
          /\ Times(p, Plus(x, y)) = Plus(Times(p, x), Times(p, y))
      BY <2>1, OverDistributes, TimesDistributes
    <3> QED BY <1>2, <2>1, <3>1, <3>2
  <2>6. ASSUME NEW x \in Amounts PROVE GainOn(levels, buying)[<<k, x>>] \in Amounts
    <3>1. Over(x, p) \in Amounts /\ Times(p, x) \in Amounts /\ x \in Finite
      BY <2>1, AmountsClosed, AmountTerms
    <3> QED BY <1>2, <2>1, <3>1
  <2> QED BY <2>4, <2>5, <2>6
<1>5. ASSUME InOrder(levels, buying), NEW k \in 1..(n - 1), NEW x \in Finite
      PROVE  LET here == GainOn(levels, buying)[<<k, x>>]
                 next == GainOn(levels, buying)[<<k + 1, x>>]
             IN  /\ AtMost(Zero, x) => AtMost(next, here)
                 /\ AtMost(x, Zero) => AtMost(here, next)
  <2>1. k \in 1..n /\ k + 1 \in 1..n
    OBVIOUS
  <2>2. PICK p \in Amounts, r \in Amounts :
          p = levels[k].price /\ r = levels[k + 1].price /\ p \in Finite /\ r \in Finite
    BY <1>1, <2>1
  <2>3. /\ GainOn(levels, buying)[<<k, x>>] = IF buying THEN Over(x, p) ELSE Times(p, x)
        /\ GainOn(levels, buying)[<<k + 1, x>>] = IF buying THEN Over(x, r) ELSE Times(r, x)
    BY <1>2, <2>1, <2>2
  <2>4. CASE buying
    <3>1. AtMost(p, r)
      BY <1>5, <2>2, <2>4 DEF InOrder
    <3>2. /\ AtMost(Zero, x) => AtMost(Over(x, r), Over(x, p))
          /\ AtMost(x, Zero) => AtMost(Over(x, p), Over(x, r))
      BY <2>2, <3>1, OverMonotone
    <3> QED BY <2>3, <2>4, <3>2
  <2>5. CASE ~buying
    <3>1. AtMost(r, p)
      BY <1>5, <2>2, <2>5 DEF InOrder
    <3>2. /\ AtMost(Zero, x) => AtMost(Times(r, x), Times(p, x))
          /\ AtMost(x, Zero) => AtMost(Times(p, x), Times(r, x))
      BY <2>2, <3>1, TimesMonotone
    <3> QED BY <2>3, <2>5, <3>2
  <2> QED BY <2>4, <2>5
<1>6. InOrder(levels, buying) => BestFirst(GainOn(levels, buying), n)
  BY <1>5 DEF BestFirst
<1> QED BY <1>3, <1>4, <1>6

\* Either side of a book is such a side for sale.
LEMMA MarketOfSide ==
  ASSUME NEW levels \in Seq(PriceLevels), NEW buying \in BOOLEAN, NEW n \in Nat,
         n = Len(levels), InOrder(levels, buying)
  PROVE  \E CS, GS :
           /\ IsMarket(n, Worths(levels, ~buying), Worths(levels, buying), CS, GS,
                       GainOn(levels, buying))
           /\ CS[n] = calculateBookSideValue(levels, ~buying)
           /\ \A a \in Finite, k \in 1..n :
                LineOf(levels, buying, k, a) = TangentOf(CS, GS, GainOn(levels, buying), a, k)
           /\ \A a \in Finite : \A g :
                Brings(n, a, g, CS, GS, GainOn(levels, buying)) => IsMarketOrder(levels, buying, a, g)
<1>1. PICK B \in [0..n -> Fractions] :
        /\ IsSum(B, n, Worths(levels, TRUE))
        /\ calculateBookSideValue(levels, TRUE) = B[n]
        /\ \A k \in 0..n : calculateBookSideValue(SubSeq(levels, 1, k), TRUE) = B[k]
  BY SidePrefix
<1>2. PICK Q \in [0..n -> Fractions] :
        /\ IsSum(Q, n, Worths(levels, FALSE))
        /\ calculateBookSideValue(levels, FALSE) = Q[n]
        /\ \A k \in 0..n : calculateBookSideValue(SubSeq(levels, 1, k), FALSE) = Q[k]
  BY SidePrefix
<1>3. B \in [0..n -> Finite] /\ Q \in [0..n -> Finite]
  <2>1. \A x \in Fractions : x \in Finite
    BY FractionsAreFinite
  <2> QED BY <1>1, <1>2, <2>1
<1>4. ASSUME NEW base \in BOOLEAN PROVE Worths(levels, base) \in [1..n -> Amounts]
  <2>1. ASSUME NEW k \in 1..n PROVE Worth(levels[k], base) \in Amounts
    <3>1. levels[k] \in PriceLevels
      OBVIOUS
    <3> QED BY <3>1, WorthIsAmount
  <2> QED BY <2>1 DEF Worths
<1>5. PICK CS \in [0..n -> Finite], GS \in [0..n -> Finite] :
        CS = (IF buying THEN Q ELSE B) /\ GS = (IF buying THEN B ELSE Q)
  BY <1>3
<1>6. IsSum(CS, n, Worths(levels, ~buying)) /\ IsSum(GS, n, Worths(levels, buying))
  <2>1. CASE buying
    BY <1>1, <1>2, <1>5, <2>1
  <2>2. CASE ~buying
    BY <1>1, <1>2, <1>5, <2>2
  <2> QED BY <2>1, <2>2
<1>7. IsMarket(n, Worths(levels, ~buying), Worths(levels, buying), CS, GS, GainOn(levels, buying))
  <2>1. /\ Worths(levels, ~buying) \in [1..n -> Amounts]
        /\ Worths(levels, buying) \in [1..n -> Amounts]
    BY <1>4
  <2> QED BY <1>5, <1>6, <2>1, GainOnType DEF IsMarket
<1>8. ASSUME NEW a \in Finite, NEW k \in 1..n
      PROVE  LineOf(levels, buying, k, a) = TangentOf(CS, GS, GainOn(levels, buying), a, k)
  <2>1. k - 1 \in 0..n
    OBVIOUS
  <2>2. PICK p \in Finite : p = levels[k].price
    <3>1. levels[k] \in PriceLevels
      OBVIOUS
    <3> QED BY <3>1, AmountTerms DEF PriceLevels
  <2>3. PICK b \in Finite, q \in Finite :
          /\ b = B[k - 1] /\ b = calculateBookSideValue(SubSeq(levels, 1, k - 1), TRUE)
          /\ q = Q[k - 1] /\ q = calculateBookSideValue(SubSeq(levels, 1, k - 1), FALSE)
    BY <1>1, <1>2, <1>3, <2>1
  <2>4. Minus(a, b) \in Finite /\ Minus(a, q) \in Finite
    BY <2>3, FiniteClosed
  <2>5. CASE buying
    <3>1. CS[k - 1] = q /\ GS[k - 1] = b
      BY <1>5, <2>3, <2>5
    <3>2. LineOf(levels, buying, k, a) = Plus(b, Over(Minus(a, q), p))
      BY <2>2, <2>3, <2>5 DEF LineOf
    <3>3. GainOn(levels, buying)[<<k, Minus(a, q)>>] = Over(Minus(a, q), p)
      BY <2>2, <2>4, <2>5 DEF GainOn
    <3> QED BY <3>1, <3>2, <3>3 DEF TangentOf
  <2>6. CASE ~buying
    <3>1. CS[k - 1] = b /\ GS[k - 1] = q
      BY <1>5, <2>3, <2>6
    <3>2. LineOf(levels, buying, k, a) = Plus(q, Times(Minus(a, b), p))
      BY <2>2, <2>3, <2>6 DEF LineOf
    <3>3. GainOn(levels, buying)[<<k, Minus(a, b)>>] = Times(p, Minus(a, b))
      BY <2>2, <2>4, <2>6 DEF GainOn
    <3>4. Times(p, Minus(a, b)) = Times(Minus(a, b), p)
      BY <2>2, <2>4, TimesCommutes
    <3> QED BY <3>1, <3>2, <3>3, <3>4 DEF TangentOf
  <2> QED BY <2>5, <2>6
<1>9. CS[n] = calculateBookSideValue(levels, ~buying) /\ DOMAIN levels = 1..n
  <2>1. CASE buying
    BY <1>2, <1>5, <2>1
  <2>2. CASE ~buying
    BY <1>1, <1>5, <2>2
  <2> QED BY <2>1, <2>2
<1>10. ASSUME NEW a \in Finite, NEW g, Brings(n, a, g, CS, GS, GainOn(levels, buying))
       PROVE  IsMarketOrder(levels, buying, a, g)
  BY <1>8, <1>9, <1>10 DEF Brings, IsMarketOrder
<1> QED BY <1>7, <1>8, <1>9, <1>10

\* An average price for selling is what a market order brings, per unit, and
\* there is one when the bids can take the order.
LEMMA SellsAtMarket ==
  ASSUME NEW levels \in Seq(PriceLevels), InOrder(levels, FALSE), NEW a \in Amounts
  PROVE  \/ /\ calculateVwapBid(levels, a) = Zero
            /\ ~AtMost(a, calculateBookSideValue(levels, TRUE))
         \/ \E g \in Amounts : /\ calculateVwapBid(levels, a) = Over(g, a)
                              /\ IsMarketOrder(levels, FALSE, a, g)
<1>1. PICK n \in Nat : n = Len(levels)
  OBVIOUS
<1>2. PICK run \in [0..Len(levels) -> Selling] : IsSellingRun(run, levels, a)
  BY SellingRuns
<1>3. PICK CS, GS :
        /\ IsMarket(n, Worths(levels, TRUE), Worths(levels, FALSE), CS, GS, GainOn(levels, FALSE))
        /\ CS[n] = calculateBookSideValue(levels, TRUE)
        /\ \A x \in Finite : \A g :
             Brings(n, x, g, CS, GS, GainOn(levels, FALSE)) => IsMarketOrder(levels, FALSE, x, g)
  BY <1>1, MarketOfSide
<1>4. PICK gain, used, left : /\ gain = [k \in 0..n |-> run[k].value]
                              /\ used = [k \in 0..n |-> run[k].filled]
                              /\ left = [k \in 0..n |-> run[k].remaining]
  OBVIOUS
<1>5. a \in Finite /\ Zero \in Finite /\ Less(Zero, a)
  BY AmountTerms, ZeroPlus, AmountIsPositive
<1>6. ASSUME NEW k \in 0..n
      PROVE  /\ gain[k] = run[k].value /\ used[k] = run[k].filled /\ left[k] = run[k].remaining
             /\ gain[k] \in Finite /\ used[k] \in Finite /\ left[k] \in Finite
  <2>1. run[k] \in Selling
    BY <1>1
  <2> QED BY <1>4, <2>1 DEF Selling
<1>7. Fills(gain, used, left, n, a, Worths(levels, TRUE), Worths(levels, FALSE),
            GainOn(levels, FALSE))
  <2>1. gain[0] = Zero /\ used[0] = Zero /\ left[0] = a
    BY <1>2, <1>6 DEF IsSellingRun
  <2>2. ASSUME NEW k \in 1..n
        PROVE  \/ /\ AtMost(left[k - 1], Zero)
                  /\ gain[k] = gain[k - 1] /\ used[k] = used[k - 1] /\ left[k] = left[k - 1]
               \/ /\ ~AtMost(left[k - 1], Zero) /\ AtMost(Worths(levels, TRUE)[k], left[k - 1])
                  /\ gain[k] = Plus(gain[k - 1], Worths(levels, FALSE)[k])
                  /\ used[k] = Plus(used[k - 1], Worths(levels, TRUE)[k])
                  /\ left[k] = Minus(left[k - 1], Worths(levels, TRUE)[k])
               \/ /\ ~AtMost(left[k - 1], Zero) /\ ~AtMost(Worths(levels, TRUE)[k], left[k - 1])
                  /\ gain[k] = Plus(gain[k - 1], GainOn(levels, FALSE)[<<k, left[k - 1]>>])
                  /\ used[k] = Plus(used[k - 1], left[k - 1])
                  /\ left[k] = Zero
    <3>1. k - 1 \in 0..n /\ k \in 0..n /\ k \in 1..Len(levels)
      BY <1>1
    <3>2. PICK p \in Finite, q \in Finite : p = levels[k].price /\ q = levels[k].quantity
      <4>1. levels[k] \in PriceLevels
        BY <1>1
      <4> QED BY <4>1, AmountTerms DEF PriceLevels
    <3>3. Worths(levels, TRUE)[k] = q /\ Worths(levels, FALSE)[k] = Times(p, q)
      BY <3>1, <3>2 DEF Worths, Worth
    <3>4. PICK v \in Finite, f \in Finite, r \in Finite :
            /\ v = gain[k - 1] /\ f = used[k - 1] /\ r = left[k - 1]
            /\ run[k - 1].value = v /\ run[k - 1].filled = f /\ run[k - 1].remaining = r
      BY <1>6, <3>1
    <3>5. GainOn(levels, FALSE)[<<k, r>>] = Times(p, r)
      BY <3>1, <3>2, <3>4 DEF GainOn
    <3>6. run[k] = SellOn(run[k - 1], levels[k])
      BY <1>1, <1>2 DEF IsSellingRun
    <3>7. gain[k] = run[k].value /\ used[k] = run[k].filled /\ left[k] = run[k].remaining
      BY <1>6, <3>1
    <3>8. CASE AtMost(r, Zero)
      BY <1>6, <3>1, <3>4, <3>6, <3>7, <3>8 DEF SellOn
    <3>9. CASE ~AtMost(r, Zero) /\ AtMost(q, r)
      <4>1. smaller(q, r) = q
        BY <3>2, <3>4, <3>9, OrderIsTotal DEF smaller
      <4>2. run[k] = [value |-> Plus(v, Times(p, q)), filled |-> Plus(f, q),
                      remaining |-> Minus(r, q)]
        BY <3>2, <3>4, <3>6, <3>9, <4>1 DEF SellOn
      <4>3. gain[k] = Plus(v, Times(p, q)) /\ used[k] = Plus(f, q) /\ left[k] = Minus(r, q)
        BY <3>7, <4>2
      <4> QED BY <3>3, <3>4, <3>9, <4>3
    <3>10. CASE ~AtMost(r, Zero) /\ ~AtMost(q, r)
      <4>1. smaller(q, r) = r
        BY <3>2, <3>4, <3>10, OrderIsTotal DEF smaller
      <4>2. run[k] = [value |-> Plus(v, Times(p, r)), filled |-> Plus(f, r),
                      remaining |-> Minus(r, r)]
        BY <3>2, <3>4, <3>6, <3>10, <4>1 DEF SellOn
      <4>3. Minus(r, r) = Zero
        BY <3>4, MinusItself
      <4>4. gain[k] = Plus(v, Times(p, r)) /\ used[k] = Plus(f, r) /\ left[k] = Zero
        BY <3>7, <4>2, <4>3
      <4> QED BY <3>3, <3>4, <3>5, <3>10, <4>4
    <3> QED BY <3>8, <3>9, <3>10
  <2> QED BY <2>1, <2>2 DEF Fills
<1>8. \/ /\ Less(Zero, left[n]) /\ Less(used[n], a)
         /\ ~AtMost(a, calculateBookSideValue(levels, TRUE))
      \/ /\ left[n] = Zero /\ used[n] = a /\ gain[n] \in Amounts
         /\ Brings(n, a, gain[n], CS, GS, GainOn(levels, FALSE))
  BY <1>3, <1>7, FilledOrder
<1>9. n \in 0..n /\ gain[n] = run[n].value /\ used[n] = run[n].filled /\ gain[n] \in Finite
  BY <1>6
<1>10. CASE Less(used[n], a)
  <2>1. a \in Finite /\ ~Less(a, a)
    BY <1>5, OrderIsTotal
  <2> QED BY <1>1, <1>2, <1>8, <1>9, <1>10, <2>1 DEF IsSellingRun
<1>11. CASE ~Less(used[n], a)
  <2>1. /\ used[n] = a /\ gain[n] \in Amounts
        /\ Brings(n, a, gain[n], CS, GS, GainOn(levels, FALSE))
    BY <1>8, <1>11
  <2>2. ~AtMost(a, Zero)
    BY <1>5, OrderIsTotal
  <2>3. calculateVwapBid(levels, a) = Over(gain[n], a)
    BY <1>1, <1>2, <1>9, <1>11, <2>1, <2>2 DEF IsSellingRun
  <2>4. IsMarketOrder(levels, FALSE, a, gain[n])
    BY <1>3, <1>5, <2>1
  <2> QED BY <2>1, <2>3, <2>4
<1> QED BY <1>10, <1>11

\* An average price for buying is what a market order costs, per unit it brings,
\* and there is one when the asks can take the order.
LEMMA BuysAtMarket ==
  ASSUME NEW levels \in Seq(PriceLevels), InOrder(levels, TRUE), NEW a \in Amounts
  PROVE  \/ /\ calculateVwapAsk(levels, a) = Zero
            /\ ~AtMost(a, calculateBookSideValue(levels, FALSE))
         \/ \E g \in Amounts : /\ calculateVwapAsk(levels, a) = Over(a, g)
                               /\ IsMarketOrder(levels, TRUE, a, g)
<1>1. PICK n \in Nat : n = Len(levels)
  OBVIOUS
<1>2. PICK run \in [0..Len(levels) -> Buying] : IsBuyingRun(run, levels, a)
  BY BuyingRuns
<1>3. PICK CS, GS :
        /\ IsMarket(n, Worths(levels, FALSE), Worths(levels, TRUE), CS, GS, GainOn(levels, TRUE))
        /\ CS[n] = calculateBookSideValue(levels, FALSE)
        /\ \A x \in Finite : \A g :
             Brings(n, x, g, CS, GS, GainOn(levels, TRUE)) => IsMarketOrder(levels, TRUE, x, g)
  BY <1>1, MarketOfSide
<1>4. PICK gain, used, left : /\ gain = [k \in 0..n |-> run[k].acquired]
                              /\ used = [k \in 0..n |-> run[k].spent]
                              /\ left = [k \in 0..n |-> run[k].remaining]
  OBVIOUS
<1>5. a \in Finite /\ Zero \in Finite /\ Less(Zero, a)
  BY AmountTerms, ZeroPlus, AmountIsPositive
<1>6. ASSUME NEW k \in 0..n
      PROVE  /\ gain[k] = run[k].acquired /\ used[k] = run[k].spent /\ left[k] = run[k].remaining
             /\ gain[k] \in Finite /\ used[k] \in Finite /\ left[k] \in Finite
  <2>1. run[k] \in Buying
    BY <1>1
  <2> QED BY <1>4, <2>1 DEF Buying
<1>7. Fills(gain, used, left, n, a, Worths(levels, FALSE), Worths(levels, TRUE),
            GainOn(levels, TRUE))
  <2>1. gain[0] = Zero /\ used[0] = Zero /\ left[0] = a
    BY <1>2, <1>6 DEF IsBuyingRun
  <2>2. ASSUME NEW k \in 1..n
        PROVE  \/ /\ AtMost(left[k - 1], Zero)
                  /\ gain[k] = gain[k - 1] /\ used[k] = used[k - 1] /\ left[k] = left[k - 1]
               \/ /\ ~AtMost(left[k - 1], Zero) /\ AtMost(Worths(levels, FALSE)[k], left[k - 1])
                  /\ gain[k] = Plus(gain[k - 1], Worths(levels, TRUE)[k])
                  /\ used[k] = Plus(used[k - 1], Worths(levels, FALSE)[k])
                  /\ left[k] = Minus(left[k - 1], Worths(levels, FALSE)[k])
               \/ /\ ~AtMost(left[k - 1], Zero) /\ ~AtMost(Worths(levels, FALSE)[k], left[k - 1])
                  /\ gain[k] = Plus(gain[k - 1], GainOn(levels, TRUE)[<<k, left[k - 1]>>])
                  /\ used[k] = Plus(used[k - 1], left[k - 1])
                  /\ left[k] = Zero
    <3>1. k - 1 \in 0..n /\ k \in 0..n /\ k \in 1..Len(levels)
      BY <1>1
    <3>2. PICK p \in Finite, q \in Finite, c \in Finite :
            p = levels[k].price /\ q = levels[k].quantity /\ c = Times(p, q)
      <4>1. levels[k] \in PriceLevels
        BY <1>1
      <4>2. levels[k].price \in Finite /\ levels[k].quantity \in Finite
        BY <4>1, AmountTerms DEF PriceLevels
      <4> QED BY <4>2, FiniteClosed
    <3>3. Worths(levels, TRUE)[k] = q /\ Worths(levels, FALSE)[k] = c
      BY <3>1, <3>2 DEF Worths, Worth
    <3>4. PICK v \in Finite, f \in Finite, r \in Finite :
            /\ v = gain[k - 1] /\ f = used[k - 1] /\ r = left[k - 1]
            /\ run[k - 1].acquired = v /\ run[k - 1].spent = f /\ run[k - 1].remaining = r
      BY <1>6, <3>1
    <3>5. GainOn(levels, TRUE)[<<k, r>>] = Over(r, p)
      BY <3>1, <3>2, <3>4 DEF GainOn
    <3>6. run[k] = BuyOn(run[k - 1], levels[k])
      BY <1>1, <1>2 DEF IsBuyingRun
    <3>7. gain[k] = run[k].acquired /\ used[k] = run[k].spent /\ left[k] = run[k].remaining
      BY <1>6, <3>1
    <3>8. CASE AtMost(r, Zero)
      BY <1>6, <3>1, <3>4, <3>6, <3>7, <3>8 DEF BuyOn
    <3>9. CASE ~AtMost(r, Zero) /\ AtMost(c, r)
      <4>1. run[k] = [acquired |-> Plus(v, q), spent |-> Plus(f, c), remaining |-> Minus(r, c)]
        BY <3>2, <3>4, <3>6, <3>9 DEF BuyOn
      <4>2. gain[k] = Plus(v, q) /\ used[k] = Plus(f, c) /\ left[k] = Minus(r, c)
        BY <3>7, <4>1
      <4> QED BY <3>3, <3>4, <3>9, <4>2
    <3>10. CASE ~AtMost(r, Zero) /\ ~AtMost(c, r)
      <4>1. run[k] = [acquired |-> Plus(v, Over(r, p)), spent |-> Plus(f, r), remaining |-> Zero]
        BY <3>2, <3>4, <3>6, <3>10 DEF BuyOn
      <4>2. gain[k] = Plus(v, Over(r, p)) /\ used[k] = Plus(f, r) /\ left[k] = Zero
        BY <3>7, <4>1
      <4> QED BY <3>3, <3>4, <3>5, <3>10, <4>2
    <3> QED BY <3>8, <3>9, <3>10
  <2> QED BY <2>1, <2>2 DEF Fills
<1>8. \/ /\ Less(Zero, left[n]) /\ Less(used[n], a)
         /\ ~AtMost(a, calculateBookSideValue(levels, FALSE))
      \/ /\ left[n] = Zero /\ used[n] = a /\ gain[n] \in Amounts
         /\ Brings(n, a, gain[n], CS, GS, GainOn(levels, TRUE))
  BY <1>3, <1>7, FilledOrder
<1>9. /\ n \in 0..n /\ gain[n] = run[n].acquired /\ used[n] = run[n].spent
      /\ left[n] = run[n].remaining /\ gain[n] \in Finite /\ left[n] \in Finite
  BY <1>6
<1>10. ~AtMost(a, Zero)
  BY <1>5, OrderIsTotal
<1>11. CASE Less(Zero, left[n])
  <2>1. ~AtMost(left[n], Zero)
    BY <1>5, <1>9, <1>11, OrderIsTotal
  <2>2. ~AtMost(a, calculateBookSideValue(levels, FALSE))
    <3>1. ~Less(Zero, Zero)
      BY <1>5, OrderIsTotal
    <3> QED BY <1>8, <1>11, <3>1
  <2> QED BY <1>1, <1>2, <1>9, <2>1, <2>2 DEF IsBuyingRun
<1>12. CASE ~Less(Zero, left[n])
  <2>1. /\ left[n] = Zero /\ used[n] = a /\ gain[n] \in Amounts
        /\ Brings(n, a, gain[n], CS, GS, GainOn(levels, TRUE))
    BY <1>8, <1>12
  <2>2. AtMost(left[n], Zero) /\ Less(Zero, gain[n])
    BY <1>5, <1>9, <2>1, OrderIsTotal, AmountIsPositive
  <2>3. calculateVwapAsk(levels, a) = Over(a, gain[n])
    BY <1>1, <1>2, <1>9, <1>10, <2>1, <2>2 DEF IsBuyingRun
  <2>4. IsMarketOrder(levels, TRUE, a, gain[n])
    BY <1>3, <1>5, <2>1
  <2> QED BY <2>1, <2>3, <2>4
<1> QED BY <1>11, <1>12

LEMMA PaidBack ==
  ASSUME NEW x \in Amounts, NEW y \in Amounts
  PROVE  /\ Over(One, Over(x, y)) \in Amounts
         /\ Times(x, Over(One, Over(x, y))) = y
<1>1. PICK a \in Positive, b \in Positive : x = Reduced(a, b)
  BY AmountTerms
<1>2. PICK c \in Positive, d \in Positive : y = Reduced(c, d)
  BY AmountTerms
<1>3. /\ a \in Int /\ a > 0 /\ b \in Int /\ b > 0 /\ c \in Int /\ c > 0 /\ d \in Int /\ d > 0
      /\ 1 \in Positive /\ 1 \in Int
  BY DEF Positive
<1>4. /\ Over(x, y) = Reduced(a * d, b * c)
      /\ a * d \in Positive /\ a * d \in Int /\ a * d > 0 /\ b * c \in Positive
  BY <1>1, <1>2, <1>3, OnRatios, PositiveProduct DEF Positive
<1>5. Over(One, Over(x, y)) = Reduced(1 * (b * c), 1 * (a * d)) /\ One \in Amounts
  BY <1>3, <1>4, OnRatios, ZeroIs
<1>6. 1 * (b * c) = c * b /\ 1 * (a * d) = d * a
  BY <1>3
<1>7. Over(y, x) = Reduced(c * b, d * a)
  BY <1>1, <1>2, <1>3, OnRatios
<1>8. Over(One, Over(x, y)) = Over(y, x)
  BY <1>5, <1>6, <1>7
<1> QED BY <1>8, AmountsClosed, AmountTerms, OverThenTimes

IsBook(tick) ==
  /\ tick.bids \in Seq(PriceLevels) /\ InOrder(tick.bids, FALSE)
  /\ tick.asks \in Seq(PriceLevels) /\ InOrder(tick.asks, TRUE)

IsMarketRate(leg, tick, a, rate) ==
  /\ a \in Amounts /\ rate \in Amounts /\ tick.bids # <<>> /\ tick.asks # <<>>
  /\ IsMarketOrder(Levels(leg, tick), leg.requiresInversion, a, Times(a, rate))

\* The leg has nothing to trade, misses a side of its book, or its side cannot
\* take the amount.
CannotTrade(leg, tick, a) ==
  \/ AtMost(a, Zero)
  \/ tick.bids = <<>> \/ tick.asks = <<>>
  \/ ~AtMost(a, calculateBookSideValue(Levels(leg, tick), ~leg.requiresInversion))

\* A rate is that of a market order, or zero because the leg cannot trade.
LEMMA RateOfMarketOrder ==
  ASSUME NEW leg, leg.requiresInversion \in BOOLEAN, NEW tick, IsBook(tick),
         NEW a \in Finite
  PROVE  \/ getEffectiveRate(leg, tick, a) = Zero /\ CannotTrade(leg, tick, a)
         \/ IsMarketRate(leg, tick, a, getEffectiveRate(leg, tick, a))
<1> USE DEF IsBook
<1>1. Zero \in Finite /\ ~Less(Zero, Zero) /\ (AtMost(a, Zero) \/ a \in Amounts)
  BY ZeroPlus, OrderIsTotal, AmountIsPositive
<1>2. CASE AtMost(a, Zero) \/ tick.bids = <<>> \/ tick.asks = <<>>
  BY <1>2 DEF getEffectiveRate, CannotTrade
<1> SUFFICES ASSUME a \in Amounts, tick.bids # <<>>, tick.asks # <<>>,
                    NEW rate, rate = getEffectiveRate(leg, tick, a),
                    rate = Conversion(leg, IF leg.requiresInversion
                                           THEN calculateVwapAsk(tick.asks, a)
                                           ELSE calculateVwapBid(tick.bids, a))
             PROVE  \/ rate = Zero /\ CannotTrade(leg, tick, a)
                    \/ IsMarketRate(leg, tick, a, rate)
  BY <1>1, <1>2 DEF getEffectiveRate
<1>3. CASE leg.requiresInversion
  <2>1. PICK price : price = calculateVwapAsk(tick.asks, a)
    OBVIOUS
  <2>2. rate = IF Less(Zero, price) THEN Over(One, price) ELSE Zero
    BY <1>3, <2>1 DEF Conversion
  <2>3. CASE price = Zero /\ ~AtMost(a, calculateBookSideValue(tick.asks, FALSE))
    BY <1>1, <1>3, <2>2, <2>3 DEF CannotTrade, Levels
  <2>4. ASSUME NEW g \in Amounts, price = Over(a, g), IsMarketOrder(tick.asks, TRUE, a, g)
        PROVE  IsMarketRate(leg, tick, a, rate)
    <3>1. Less(Zero, price)
      BY <2>4, AmountsClosed, AmountTerms, AmountIsPositive
    <3>2. rate \in Amounts /\ Times(a, rate) = g
      BY <2>2, <2>4, <3>1, PaidBack
    <3> QED BY <1>3, <2>4, <3>2 DEF Levels, IsMarketRate
  <2> QED BY <2>1, <2>3, <2>4, BuysAtMarket
<1>4. CASE ~leg.requiresInversion
  <2>1. PICK price : price = calculateVwapBid(tick.bids, a)
    OBVIOUS
  <2>2. rate = IF Less(Zero, price) THEN price ELSE Zero
    BY <1>4, <2>1 DEF Conversion
  <2>3. leg.requiresInversion = FALSE
    BY <1>4
  <2>4. CASE price = Zero /\ ~AtMost(a, calculateBookSideValue(tick.bids, TRUE))
    BY <1>1, <2>2, <2>3, <2>4 DEF CannotTrade, Levels
  <2>5. ASSUME NEW g \in Amounts, price = Over(g, a), IsMarketOrder(tick.bids, FALSE, a, g)
        PROVE  IsMarketRate(leg, tick, a, rate)
    <3>1. price \in Amounts /\ Less(Zero, price)
      BY <2>5, AmountsClosed, AmountTerms, AmountIsPositive
    <3>2. Times(a, rate) = g
      BY <2>2, <2>5, <3>1, AmountTerms, OverThenTimes
    <3> QED BY <2>2, <2>3, <2>5, <3>1, <3>2 DEF Levels, IsMarketRate
  <2> QED BY <2>1, <2>4, <2>5, SellsAtMarket
<1> QED BY <1>3, <1>4

-----------------------------------------------------------------------------
(* The price of the first level.                                           *)

\* The first level is worth no more than the whole side.
LEMMA FirstLevelWorth ==
  ASSUME NEW levels \in Seq(PriceLevels), levels # <<>>, NEW base \in BOOLEAN
  PROVE  LET worth == calculateBookSideValue(SubSeq(levels, 1, 1), base)
         IN  /\ worth = Worth(levels[1], base)
             /\ AtMost(worth, calculateBookSideValue(levels, base))
<1>1. PICK n \in Nat : n = Len(levels) /\ 0 \in 0..n /\ 1 \in 0..n /\ 1 \in 1..n /\ n \in 1..n
  OBVIOUS
<1>2. PICK sum \in [0..n -> Fractions] :
        /\ IsSum(sum, n, Worths(levels, base))
        /\ calculateBookSideValue(levels, base) = sum[n]
        /\ \A k \in 0..n : calculateBookSideValue(SubSeq(levels, 1, k), base) = sum[k]
  BY <1>1, SidePrefix
<1>3. Worths(levels, base) \in [1..n -> Amounts]
  <2>1. ASSUME NEW k \in 1..n PROVE Worth(levels[k], base) \in Amounts
    <3>1. levels[k] \in PriceLevels
      BY <1>1
    <3> QED BY <3>1, WorthIsAmount
  <2> QED BY <1>1, <2>1 DEF Worths
<1>4. sum \in [0..n -> Finite]
  <2>1. \A x \in Fractions : x \in Finite
    BY FractionsAreFinite
  <2> QED BY <2>1
<1>5. sum[1] = Worth(levels[1], base)
  <2>1. sum[1] = Plus(sum[0], Worths(levels, base)[1]) /\ sum[0] = Zero /\ 1 - 1 = 0
    BY <1>1, <1>2 DEF IsSum
  <2>2. Worths(levels, base)[1] = Worth(levels[1], base)
    BY <1>1 DEF Worths
  <2>3. Worths(levels, base)[1] \in Finite
    BY <1>1, <1>3, AmountTerms
  <2> QED BY <2>1, <2>2, <2>3, ZeroPlus
<1>6. AtMost(sum[1], sum[n])
  BY <1>1, <1>2, <1>3, <1>4, SumRises
<1> QED BY <1>1, <1>2, <1>5, <1>6

\* What one unit converts to at a price.
AtPrice(buying, price) == IF buying THEN Over(One, price) ELSE price

\* An order that the first level takes is filled at its price.
LEMMA FilledOnFirstLevel ==
  ASSUME NEW levels \in Seq(PriceLevels), NEW buying \in BOOLEAN, InOrder(levels, buying),
         levels # <<>>, NEW a \in Amounts, NEW rate \in Amounts,
         AtMost(a, Worth(levels[1], ~buying)),
         IsMarketOrder(levels, buying, a, Times(a, rate))
  PROVE  rate = AtPrice(buying, levels[1].price)
<1>1. PICK n \in Nat : n = Len(levels) /\ DOMAIN levels = 1..n /\ 1 \in 1..n
  OBVIOUS
<1>2. PICK p \in Amounts : p = levels[1].price /\ p \in Finite
  <2>1. levels[1] \in PriceLevels
    BY <1>1
  <2> QED BY <2>1, AmountTerms DEF PriceLevels
<1>3. /\ a \in Finite /\ rate \in Finite /\ One \in Finite /\ One \in Amounts /\ Zero \in Finite
      /\ Over(One, p) \in Finite /\ Over(a, p) \in Finite /\ Times(a, p) \in Finite
  BY <1>2, ZeroIs, ZeroPlus, AmountTerms, FiniteClosed
<1>4. PICK CS, GS :
        /\ IsMarket(n, Worths(levels, ~buying), Worths(levels, buying), CS, GS,
                    GainOn(levels, buying))
        /\ \A x \in Finite, k \in 1..n :
             LineOf(levels, buying, k, x) = TangentOf(CS, GS, GainOn(levels, buying), x, k)
  BY <1>1, MarketOfSide
<1>5. LineOf(levels, buying, 1, a) = Times(a, AtPrice(buying, p))
  <2>1. CS[0] = Zero /\ GS[0] = Zero /\ 1 - 1 = 0
    BY <1>4 DEF IsMarket, IsSum
  <2>2. LineOf(levels, buying, 1, a) = Plus(Zero, GainOn(levels, buying)[<<1, Minus(a, Zero)>>])
    BY <1>1, <1>3, <1>4, <2>1 DEF TangentOf
  <2>3. Minus(a, Zero) = a
    BY <1>3, ZeroPlus
  <2>4. GainOn(levels, buying)[<<1, a>>] = IF buying THEN Over(a, p) ELSE Times(p, a)
    BY <1>1, <1>2, <1>3 DEF GainOn
  <2>5. Times(p, a) = Times(a, p) /\ Times(a, Over(One, p)) = Over(a, p)
    BY <1>2, <1>3, TimesCommutes, TimesInverse
  <2> QED BY <1>3, <2>2, <2>3, <2>4, <2>5, ZeroPlus DEF AtPrice
<1>6. AtMost(CS[0], a) /\ AtMost(a, CS[1])
  <2>1. /\ CS[0] = Zero /\ CS[1] = Plus(CS[0], Worths(levels, ~buying)[1])
    <3>1. 1 - 1 = 0
      OBVIOUS
    <3> QED BY <1>1, <1>4, <3>1 DEF IsMarket, IsSum
  <2>2. Worths(levels, ~buying)[1] = Worth(levels[1], ~buying) /\ Worth(levels[1], ~buying) \in Finite
    <3>1. levels[1] \in PriceLevels
      BY <1>1
    <3> QED BY <1>1, <3>1, WorthIsAmount, AmountTerms DEF Worths
  <2>3. AtMost(Zero, a)
    BY <1>3, AmountIsPositive DEF AtMost
  <2> QED BY <2>1, <2>2, <2>3, ZeroPlus
<1>7. PICK k \in 1..n : Times(a, rate) = LineOf(levels, buying, k, a)
  BY <1>1 DEF IsMarketOrder
<1>8. AtMost(Times(a, rate), LineOf(levels, buying, 1, a))
  BY <1>1 DEF IsMarketOrder
<1>9. AtMost(LineOf(levels, buying, 1, a), LineOf(levels, buying, k, a))
  <2>1. AtMost(TangentOf(CS, GS, GainOn(levels, buying), a, 1),
               TangentOf(CS, GS, GainOn(levels, buying), a, k))
    <3>1. 1 - 1 = 0
      OBVIOUS
    <3> QED BY <1>1, <1>3, <1>4, <1>6, <3>1, TangentIsLeast
  <2> QED BY <1>1, <1>3, <1>4, <2>1
<1>10. AtPrice(buying, p) \in Finite
  BY <1>2, <1>3 DEF AtPrice
<1>11. Times(a, rate) = Times(a, AtPrice(buying, p))
  <2>1. PICK x \in Finite, y \in Finite : x = Times(a, rate) /\ y = Times(a, AtPrice(buying, p))
    BY <1>3, <1>10, FiniteClosed
  <2>2. AtMost(x, y) /\ AtMost(y, x)
    BY <1>5, <1>7, <1>8, <1>9, <2>1
  <2> QED BY <2>1, <2>2, OrderIsTotal
<1>12. /\ Over(Times(a, rate), a) = rate
       /\ Over(Times(a, AtPrice(buying, p)), a) = AtPrice(buying, p)
  BY <1>3, <1>10, TimesThenOver
<1> QED BY <1>2, <1>11, <1>12

-----------------------------------------------------------------------------
(* The ways to split an order over the levels.                             *)

\* The best level comes first, also of two that are not neighbours.
LEMMA BetterFirst ==
  ASSUME NEW n, NEW C, NEW G, NEW CS, NEW GS, NEW P, IsMarket(n, C, G, CS, GS, P),
         NEW j \in 1..n, NEW k \in j..n, NEW x \in Finite
  PROVE  /\ AtMost(Zero, x) => AtMost(P[<<k, x>>], P[<<j, x>>])
         /\ AtMost(x, Zero) => AtMost(P[<<j, x>>], P[<<k, x>>])
<1> USE DEF IsMarket
<1> DEFINE Better(l) == /\ AtMost(Zero, x) => AtMost(P[<<l, x>>], P[<<j, x>>])
                        /\ AtMost(x, Zero) => AtMost(P[<<j, x>>], P[<<l, x>>])
           Bad == {l \in j..n : ~Better(l)}
<1>1. \A l \in 1..n : P[<<l, x>>] \in Finite
  OBVIOUS
<1>2. Bad = {}
  <2> SUFFICES ASSUME Bad # {} PROVE FALSE
    OBVIOUS
  <2>1. PICK l \in Bad : \A i \in Bad : l <= i
    <3>1. Bad \subseteq Nat
      OBVIOUS
    <3> HIDE DEF Bad
    <3> QED BY <3>1, LeastNat
  <2>2. l # j
    <3>1. Better(j)
      BY <1>1, OrderIsTotal
    <3> QED BY <2>1, <3>1
  <2>3. l - 1 \in j..n /\ l - 1 \notin Bad /\ l - 1 \in 1..(n - 1) /\ (l - 1) + 1 = l
    <3>1. l \in j..n /\ l \in Int /\ j \in Int /\ n \in Int /\ j >= 1
      BY <2>1
    <3>2. l - 1 \in j..n /\ l - 1 \in 1..(n - 1) /\ (l - 1) + 1 = l /\ ~(l <= l - 1)
      BY <2>2, <3>1
    <3> HIDE DEF Bad
    <3> QED BY <2>1, <3>2
  <2>4. Better(l - 1)
    BY <2>3
  <2>5. /\ AtMost(Zero, x) => AtMost(P[<<l, x>>], P[<<l - 1, x>>])
        /\ AtMost(x, Zero) => AtMost(P[<<l - 1, x>>], P[<<l, x>>])
    BY <2>3 DEF BestFirst
  <2>6. P[<<l, x>>] \in Finite /\ P[<<l - 1, x>>] \in Finite /\ P[<<j, x>>] \in Finite
    BY <1>1, <2>1, <2>3
  <2>7. Better(l)
    BY <2>4, <2>5, <2>6, AtMostTransitive
  <2> QED BY <2>1, <2>7
<1> QED BY <1>2

\* A split of an order: X[k] goes to level k, XS and YS add up what was ordered
\* and what it brought.
IsSplit(n, C, P, X, XS, YS) ==
  /\ X \in [1..n -> Finite] /\ XS \in [0..n -> Finite] /\ YS \in [0..n -> Finite]
  /\ \A k \in 1..n : AtMost(Zero, X[k]) /\ AtMost(X[k], C[k])
  /\ IsSum(XS, n, X)
  /\ YS[0] = Zero /\ \A k \in 1..n : YS[k] = Plus(YS[k - 1], P[<<k, X[k]>>])

LEMMA PlusBoth ==
  ASSUME NEW x \in Finite, NEW y \in Finite, NEW z \in Finite, NEW w \in Finite,
         AtMost(x, y), AtMost(z, w)
  PROVE  AtMost(Plus(x, z), Plus(y, w))
<1>1. AtMost(Plus(x, z), Plus(x, w)) /\ AtMost(Plus(w, x), Plus(w, y))
  BY PlusMonotone
<1>2. Plus(w, x) = Plus(x, w) /\ Plus(w, y) = Plus(y, w)
  BY PlusCommutes
<1>3. Plus(x, z) \in Finite /\ Plus(x, w) \in Finite /\ Plus(y, w) \in Finite
  BY FiniteClosed
<1> QED BY <1>1, <1>2, <1>3, AtMostTransitive

\* (a + b) - (c + d) = (a - c) + (b - d)
LEMMA MinusOfSums ==
  ASSUME NEW a \in Finite, NEW b \in Finite, NEW c \in Finite, NEW d \in Finite
  PROVE  Minus(Plus(a, b), Plus(c, d)) = Plus(Minus(a, c), Minus(b, d))
<1>1. PICK m \in Finite, e \in Finite : m = Minus(a, c) /\ e = Minus(b, d)
  BY FiniteClosed
<1>2. Plus(c, m) = a /\ Plus(d, e) = b
  BY <1>1, MinusThenPlus
<1>3. Plus(Plus(c, d), Plus(m, e)) = Plus(a, b)
  <2>1. Plus(Plus(c, d), Plus(m, e)) = Plus(c, Plus(d, Plus(m, e)))
    BY FiniteClosed, PlusAssociates
  <2>2. Plus(d, Plus(m, e)) = Plus(Plus(d, m), e) /\ Plus(d, m) = Plus(m, d)
        /\ Plus(Plus(m, d), e) = Plus(m, Plus(d, e))
    BY PlusAssociates, PlusCommutes
  <2>3. Plus(c, Plus(m, b)) = Plus(Plus(c, m), b)
    BY PlusAssociates
  <2> QED BY <1>2, <2>1, <2>2, <2>3
<1>4. Plus(c, d) \in Finite /\ Plus(m, e) \in Finite
  BY FiniteClosed
<1> QED BY <1>1, <1>3, <1>4, PlusThenMinus

\* What a split brings lies below every tangent, and it needs no more than
\* the side has.
LEMMA SplitBelowTangents ==
  ASSUME NEW n, NEW C, NEW G, NEW CS, NEW GS, NEW P, IsMarket(n, C, G, CS, GS, P),
         NEW X, NEW XS, NEW YS, IsSplit(n, C, P, X, XS, YS)
  PROVE  /\ AtMost(XS[n], CS[n])
         /\ \A j \in 1..n : AtMost(YS[n], TangentOf(CS, GS, P, XS[n], j))
<1>0. n \in Nat
  BY DEF IsMarket
<1>1. /\ \A k \in 1..n : k - 1 \in 0..n /\ k \in 0..n
      /\ C \in [1..n -> Amounts] /\ G \in [1..n -> Amounts]
      /\ CS \in [0..n -> Finite] /\ GS \in [0..n -> Finite]
      /\ X \in [1..n -> Finite] /\ XS \in [0..n -> Finite] /\ YS \in [0..n -> Finite]
      /\ CS[0] = Zero /\ GS[0] = Zero /\ XS[0] = Zero /\ YS[0] = Zero
      /\ P \in [(1..n) \X Finite -> Finite]
  BY <1>0 DEF IsMarket, IsSplit, IsSum
<1>2. Zero \in Finite
  BY ZeroIs, AmountTerms, ZeroPlus
<1>3. ASSUME NEW k \in 1..n
      PROVE  /\ CS[k] = Plus(CS[k - 1], C[k]) /\ GS[k] = Plus(GS[k - 1], G[k])
             /\ XS[k] = Plus(XS[k - 1], X[k]) /\ YS[k] = Plus(YS[k - 1], P[<<k, X[k]>>])
             /\ AtMost(Zero, X[k]) /\ AtMost(X[k], C[k])
             /\ C[k] \in Finite /\ G[k] \in Finite /\ P[<<k, C[k]>>] = G[k]
  BY <1>1, AmountTerms DEF IsMarket, IsSplit, IsSum, IsGain
<1>4. AtMost(XS[n], CS[n])
  <2> USE <1>0
  <2> DEFINE Bad == {k \in 0..n : ~AtMost(XS[k], CS[k])}
  <2>1. Bad = {}
    <3> SUFFICES ASSUME Bad # {} PROVE FALSE
      OBVIOUS
    <3>1. PICK k \in Bad : \A l \in Bad : k <= l
      <4>1. Bad \subseteq Nat
        OBVIOUS
      <4> HIDE DEF Bad
      <4> QED BY <4>1, LeastNat
    <3>2. k # 0
      BY <1>1, <1>2, <3>1, OrderIsTotal
    <3>3. k \in 1..n /\ k - 1 \in 0..n /\ k - 1 \notin Bad
      BY <3>1, <3>2
    <3>4. PICK xs \in Finite, cs \in Finite, x \in Finite, c \in Finite :
            xs = XS[k - 1] /\ cs = CS[k - 1] /\ x = X[k] /\ c = C[k]
      BY <1>1, <1>3, <3>3
    <3>5. AtMost(xs, cs) /\ AtMost(x, c)
      BY <1>3, <3>3, <3>4
    <3>6. AtMost(Plus(xs, x), Plus(cs, c))
      BY <3>5, PlusBoth
    <3>7. XS[k] = Plus(xs, x) /\ CS[k] = Plus(cs, c)
      BY <1>3, <3>3, <3>4
    <3> QED BY <3>1, <3>6, <3>7
  <2>2. n \in 0..n
    OBVIOUS
  <2> HIDE DEF Bad
  <2>3. n \notin Bad
    BY <2>1
  <2> QED BY <2>2, <2>3 DEF Bad
<1>5. ASSUME NEW j \in 1..n PROVE AtMost(YS[n], TangentOf(CS, GS, P, XS[n], j))
  <2> USE <1>0
  <2> DEFINE End(k) == IF k < j THEN k ELSE j - 1
             Line(k) == Plus(GS[End(k)], P[<<j, Minus(XS[k], CS[End(k)])>>])
             Bad == {k \in 0..n : ~AtMost(YS[k], Line(k))}
  <2>1. ASSUME NEW k \in 0..n
        PROVE  /\ End(k) \in 0..n /\ Minus(XS[k], CS[End(k)]) \in Finite /\ Line(k) \in Finite
               /\ XS[k] \in Finite /\ CS[End(k)] \in Finite /\ GS[End(k)] \in Finite
               /\ P[<<j, Minus(XS[k], CS[End(k)])>>] \in Finite
    <3>1. End(k) \in 0..n /\ XS[k] \in Finite
      BY <1>1
    <3> HIDE DEF End
    <3>2. CS[End(k)] \in Finite /\ GS[End(k)] \in Finite
      BY <1>1, <3>1
    <3>3. Minus(XS[k], CS[End(k)]) \in Finite
      BY <3>1, <3>2, FiniteClosed
    <3>4. P[<<j, Minus(XS[k], CS[End(k)])>>] \in Finite
      BY <1>1, <3>3
    <3> QED BY <3>1, <3>2, <3>3, <3>4, FiniteClosed
  <2>2. AtMost(YS[0], Line(0))
    <3>1. End(0) = 0
      BY <1>1
    <3>2. P[<<j, Zero>>] = Zero
      BY GainOfZero
    <3>3. Minus(Zero, Zero) = Zero /\ Plus(Zero, Zero) = Zero /\ AtMost(Zero, Zero)
      BY <1>2, MinusItself, ZeroPlus, OrderIsTotal
    <3> HIDE DEF End
    <3>4. Line(0) = Zero
      BY <1>1, <3>1, <3>2, <3>3
    <3> QED BY <1>1, <3>3, <3>4
  <2>3. ASSUME NEW k \in 1..n, AtMost(YS[k - 1], Line(k - 1)) PROVE AtMost(YS[k], Line(k))
    <3>1. PICK e \in 0..n, xs \in Finite, cs \in Finite, gs \in Finite, d \in Finite, pd \in Finite :
            /\ e = End(k - 1) /\ xs = XS[k - 1] /\ cs = CS[e] /\ gs = GS[e]
            /\ d = Minus(xs, cs) /\ pd = P[<<j, d>>]
      <4>1. k - 1 \in 0..n
        OBVIOUS
      <4> HIDE DEF End, Line
      <4> QED BY <2>1, <4>1
    <3>2. PICK x \in Finite, c \in Finite, y \in Finite, px \in Finite, g \in Finite :
            /\ x = X[k] /\ c = C[k] /\ y = YS[k - 1] /\ px = P[<<k, x>>] /\ g = G[k]
      BY <1>1, <1>3
    <3>3. AtMost(y, Plus(gs, pd))
      <4> HIDE DEF End
      <4> QED BY <2>3, <3>1, <3>2
    <3>4. YS[k] = Plus(y, px) /\ XS[k] = Plus(xs, x) /\ Plus(xs, x) \in Finite
      BY <1>3, <3>1, <3>2, FiniteClosed
    <3>5. \A u, w \in Finite : P[<<j, Plus(u, w)>>] = Plus(P[<<j, u>>], P[<<j, w>>])
      BY DEF IsMarket, IsGain
    <3>6. \A u, w \in Finite : P[<<k, Plus(u, w)>>] = Plus(P[<<k, u>>], P[<<k, w>>])
      BY DEF IsMarket, IsGain
    <3>7. CASE k < j
      <4>1. e = k - 1 /\ End(k) = k
        BY <3>1, <3>7
      <4>2. PICK f \in Finite, pf \in Finite, kf \in Finite :
              f = Minus(x, c) /\ pf = P[<<j, f>>] /\ kf = P[<<k, f>>]
        BY <1>1, FiniteClosed
      <4>3. CS[k] = Plus(cs, c) /\ GS[k] = Plus(gs, g)
        BY <1>3, <3>1, <3>2, <4>1
      <4>4. Minus(XS[k], CS[k]) = Plus(d, f)
        <5>1. Minus(Plus(xs, x), Plus(cs, c)) = Plus(Minus(xs, cs), Minus(x, c))
          BY MinusOfSums
        <5> QED BY <3>1, <3>4, <4>2, <4>3, <5>1
      <4>5. Line(k) = Plus(Plus(gs, g), Plus(pd, pf))
        BY <3>1, <3>5, <4>1, <4>2, <4>3, <4>4
      <4>6. px = Plus(g, kf)
        <5>1. Plus(c, f) = x
          BY <4>2, MinusThenPlus
        <5>2. P[<<k, Plus(c, f)>>] = Plus(P[<<k, c>>], P[<<k, f>>]) /\ P[<<k, c>>] = g
          BY <1>3, <3>2, <3>6
        <5> QED BY <3>2, <4>2, <5>1, <5>2
      <4>7. AtMost(kf, pf)
        <5>1. AtMost(f, Zero)
          BY <1>3, <3>2, <4>2, SignOfMinus
        <5>2. k \in 1..n /\ j \in k..n
          BY <3>7
        <5> QED BY <4>2, <5>1, <5>2, BetterFirst
      <4>8. AtMost(px, Plus(g, pf)) /\ Plus(g, pf) \in Finite /\ Plus(gs, pd) \in Finite
        BY <4>6, <4>7, PlusMonotone, FiniteClosed
      <4>9. AtMost(Plus(y, px), Plus(Plus(gs, pd), Plus(g, pf)))
        BY <3>3, <4>8, PlusBoth
      <4>10. Plus(Plus(gs, pd), Plus(g, pf)) = Plus(Plus(gs, g), Plus(pd, pf))
        <5>1. Plus(Plus(gs, pd), Plus(g, pf)) = Plus(gs, Plus(pd, Plus(g, pf)))
          BY <4>8, PlusAssociates
        <5>2. /\ Plus(pd, Plus(g, pf)) = Plus(Plus(pd, g), pf) /\ Plus(pd, g) = Plus(g, pd)
              /\ Plus(Plus(g, pd), pf) = Plus(g, Plus(pd, pf))
          BY PlusAssociates, PlusCommutes
        <5>3. Plus(pd, pf) \in Finite
          BY FiniteClosed
        <5>4. Plus(Plus(gs, g), Plus(pd, pf)) = Plus(gs, Plus(g, Plus(pd, pf)))
          BY <5>3, PlusAssociates
        <5> QED BY <5>1, <5>2, <5>4
      <4> QED BY <3>4, <4>5, <4>9, <4>10
    <3>8. CASE ~(k < j)
      <4>1. e = j - 1 /\ End(k) = j - 1
        BY <3>1, <3>8
      <4>2. PICK jx \in Finite : jx = P[<<j, x>>]
        BY <1>1
      <4>3. Minus(XS[k], cs) = Plus(d, x)
        <5>1. Minus(Plus(xs, x), Plus(cs, Zero)) = Plus(Minus(xs, cs), Minus(x, Zero))
          BY <1>2, MinusOfSums
        <5>2. Plus(cs, Zero) = cs /\ Minus(x, Zero) = x
          BY <1>2, PlusCommutes, ZeroPlus
        <5> QED BY <3>1, <3>4, <5>1, <5>2
      <4>4. Line(k) = Plus(gs, Plus(pd, jx))
        BY <3>1, <3>5, <4>1, <4>2, <4>3
      <4>5. AtMost(px, jx)
        <5>1. AtMost(Zero, x)
          BY <1>3, <3>2
        <5>2. k \in j..n
          BY <3>8
        <5> QED BY <3>2, <4>2, <5>1, <5>2, BetterFirst
      <4>6. AtMost(Plus(y, px), Plus(Plus(gs, pd), jx))
        BY <3>3, <4>5, PlusBoth, FiniteClosed
      <4>7. Plus(Plus(gs, pd), jx) = Plus(gs, Plus(pd, jx))
        BY PlusAssociates
      <4> QED BY <3>4, <4>4, <4>6, <4>7
    <3> QED BY <3>7, <3>8
  <2>4. Bad = {}
    <3> HIDE DEF Line
    <3> SUFFICES ASSUME Bad # {} PROVE FALSE
      OBVIOUS
    <3>1. PICK k \in Bad : \A l \in Bad : k <= l
      <4>1. Bad \subseteq Nat
        OBVIOUS
      <4> HIDE DEF Bad
      <4> QED BY <4>1, LeastNat
    <3>2. k # 0
      BY <2>2, <3>1
    <3>3. k \in 1..n /\ k - 1 \in 0..n /\ k - 1 \notin Bad
      BY <3>1, <3>2
    <3> QED BY <2>3, <3>1, <3>3
  <2>5. AtMost(YS[n], Line(n))
    <3>1. n \in 0..n
      OBVIOUS
    <3> HIDE DEF Line
    <3> QED BY <2>4, <3>1
  <2>6. End(n) = j - 1
    OBVIOUS
  <2> HIDE DEF End
  <2> QED BY <2>5, <2>6 DEF TangentOf
<1> QED BY <1>4, <1>5

\* A split of nothing brings nothing.
LEMMA SplitOfNothing ==
  ASSUME NEW n, NEW C, NEW G, NEW CS, NEW GS, NEW P, IsMarket(n, C, G, CS, GS, P),
         NEW X, NEW XS, NEW YS, IsSplit(n, C, P, X, XS, YS), XS[n] = Zero
  PROVE  YS[n] = Zero
<1>1. /\ n \in Nat /\ YS \in [0..n -> Finite] /\ YS[0] = Zero
      /\ CS[0] = Zero /\ GS[0] = Zero /\ CS \in [0..n -> Finite] /\ GS \in [0..n -> Finite]
      /\ P \in [(1..n) \X Finite -> Finite]
  BY DEF IsMarket, IsSplit, IsSum
<1>2. Zero \in Finite /\ Minus(Zero, Zero) = Zero /\ Plus(Zero, Zero) = Zero /\ AtMost(Zero, Zero)
  BY ZeroIs, AmountTerms, ZeroPlus, MinusItself, OrderIsTotal
<1>3. ASSUME NEW k \in 1..n
      PROVE  /\ YS[k] = Plus(YS[k - 1], P[<<k, X[k]>>]) /\ P[<<k, X[k]>>] \in Finite
             /\ AtMost(Zero, P[<<k, X[k]>>])
  <2>1. X[k] \in Finite /\ AtMost(Zero, X[k]) /\ YS[k] = Plus(YS[k - 1], P[<<k, X[k]>>])
    BY DEF IsSplit
  <2>2. P[<<k, X[k]>>] \in Finite
    BY <1>1, <2>1
  <2>3. CASE X[k] = Zero
    <3>1. P[<<k, Zero>>] = Zero
      BY GainOfZero
    <3> QED BY <1>2, <2>1, <2>2, <2>3, <3>1
  <2>4. CASE X[k] # Zero
    <3>1. X[k] \in Amounts
      BY <2>1, <2>4, AmountIsPositive DEF AtMost
    <3>2. P[<<k, X[k]>>] \in Amounts
      BY <3>1 DEF IsMarket, IsGain
    <3> QED BY <2>1, <2>2, <3>2, AmountIsPositive DEF AtMost
  <2> QED BY <2>3, <2>4
<1>4. AtMost(Zero, YS[n])
  <2> DEFINE Bad == {k \in 0..n : ~AtMost(Zero, YS[k])}
  <2>1. Bad = {}
    <3> SUFFICES ASSUME Bad # {} PROVE FALSE
      OBVIOUS
    <3>1. PICK k \in Bad : \A l \in Bad : k <= l
      <4>1. Bad \subseteq Nat
        BY <1>1
      <4> HIDE DEF Bad
      <4> QED BY <4>1, LeastNat
    <3>2. k # 0
      BY <1>1, <1>2, <3>1
    <3>3. k \in 1..n /\ k - 1 \in 0..n /\ k - 1 \notin Bad
      BY <1>1, <3>1, <3>2
    <3>4. PICK y \in Finite, p \in Finite : y = YS[k - 1] /\ p = P[<<k, X[k]>>]
      BY <1>1, <1>3, <3>3
    <3>5. AtMost(Zero, y) /\ AtMost(Zero, p)
      BY <1>3, <3>3, <3>4
    <3>6. AtMost(Plus(Zero, Zero), Plus(y, p))
      BY <1>2, <3>5, PlusBoth
    <3>7. YS[k] = Plus(y, p)
      BY <1>3, <3>3, <3>4
    <3> QED BY <1>2, <3>1, <3>6, <3>7
  <2>2. n \in 0..n
    BY <1>1
  <2> HIDE DEF Bad
  <2>3. n \notin Bad
    BY <2>1
  <2> QED BY <2>2, <2>3 DEF Bad
<1>5. CASE n = 0
  BY <1>1, <1>5
<1>6. CASE n # 0
  <2>1. PICK one \in 1..n : one = 1 /\ one - 1 = 0
    BY <1>1, <1>6
  <2>2. AtMost(YS[n], TangentOf(CS, GS, P, Zero, one))
    BY <2>1, SplitBelowTangents
  <2>3. P[<<one, Zero>>] = Zero
    <3>1. \A k \in 1..n : P[<<k, Zero>>] = Zero
      BY GainOfZero
    <3> QED BY <3>1
  <2>4. TangentOf(CS, GS, P, Zero, one) = Plus(GS[0], P[<<one, Minus(Zero, CS[0])>>])
    BY <2>1 DEF TangentOf
  <2>5. TangentOf(CS, GS, P, Zero, one) = Zero
    BY <1>1, <1>2, <2>3, <2>4
  <2>6. YS[n] \in Finite
    BY <1>1
  <2> QED BY <1>2, <1>4, <2>2, <2>5, <2>6, OrderIsTotal
<1> QED BY <1>5, <1>6

\* An order that the side can take ends on some level.
LEMMA LevelOfOrder ==
  ASSUME NEW n, NEW C, NEW G, NEW CS, NEW GS, NEW P, IsMarket(n, C, G, CS, GS, P),
         n # 0, NEW a \in Finite, AtMost(Zero, a), AtMost(a, CS[n])
  PROVE  \E j \in 1..n : AtMost(CS[j - 1], a) /\ AtMost(a, CS[j])
<1>1. n \in Nat /\ CS \in [0..n -> Finite] /\ CS[0] = Zero
  BY DEF IsMarket, IsSum
<1> DEFINE Takes == {k \in 1..n : AtMost(a, CS[k])}
<1>2. n \in Takes /\ Takes \subseteq Nat
  BY <1>1
<1>3. PICK j \in Takes : \A k \in Takes : j <= k
  <2> HIDE DEF Takes
  <2> QED BY <1>2, LeastNat
<1>4. CASE j = 1
  BY <1>1, <1>3, <1>4
<1>5. CASE j # 1
  <2>1. j \in 1..n /\ j - 1 \in 1..n /\ j - 1 \notin Takes
    BY <1>1, <1>3, <1>5
  <2>2. CS[j - 1] \in Finite /\ ~AtMost(a, CS[j - 1])
    BY <1>1, <2>1
  <2>3. AtMost(CS[j - 1], a)
    BY <2>2, OrderIsTotal DEF AtMost
  <2> QED BY <1>3, <2>1, <2>3
<1> QED BY <1>4, <1>5

\* The split that uses up the levels before the j-th and puts the rest there
\* brings what is the tangent of level j.
LEMMA FillingSplit ==
  ASSUME NEW n, NEW C, NEW G, NEW CS, NEW GS, NEW P, IsMarket(n, C, G, CS, GS, P),
         NEW a \in Finite, NEW j \in 1..n,
         NEW X, NEW XS, NEW YS, IsSplit(n, C, P, X, XS, YS),
         \A k \in 1..n : X[k] = IF k < j THEN C[k] ELSE IF k = j THEN Minus(a, CS[j - 1]) ELSE Zero
  PROVE  XS[n] = a /\ YS[n] = TangentOf(CS, GS, P, a, j)
<1>0. n \in Nat /\ j \in Nat
  BY DEF IsMarket
<1> USE <1>0
<1>1. /\ \A k \in 1..n : k - 1 \in 0..n /\ k \in 0..n
      /\ C \in [1..n -> Amounts] /\ G \in [1..n -> Amounts]
      /\ CS \in [0..n -> Finite] /\ GS \in [0..n -> Finite]
      /\ XS \in [0..n -> Finite] /\ YS \in [0..n -> Finite]
      /\ CS[0] = Zero /\ GS[0] = Zero /\ XS[0] = Zero /\ YS[0] = Zero
      /\ P \in [(1..n) \X Finite -> Finite]
  BY DEF IsMarket, IsSplit, IsSum
<1>2. Zero \in Finite
  BY ZeroIs, AmountTerms, ZeroPlus
<1>3. ASSUME NEW k \in 1..n
      PROVE  /\ CS[k] = Plus(CS[k - 1], C[k]) /\ GS[k] = Plus(GS[k - 1], G[k])
             /\ XS[k] = Plus(XS[k - 1], X[k]) /\ YS[k] = Plus(YS[k - 1], P[<<k, X[k]>>])
             /\ P[<<k, C[k]>>] = G[k]
  BY <1>1 DEF IsMarket, IsSplit, IsSum, IsGain
<1>4. PICK t \in Finite : t = TangentOf(CS, GS, P, a, j)
  <2>1. j - 1 \in 0..n
    OBVIOUS
  <2>2. CS[j - 1] \in Finite /\ GS[j - 1] \in Finite
    BY <1>1, <2>1
  <2>3. Minus(a, CS[j - 1]) \in Finite
    BY <2>2, FiniteClosed
  <2>4. P[<<j, Minus(a, CS[j - 1])>>] \in Finite
    BY <1>1, <2>3
  <2> QED BY <2>2, <2>4, FiniteClosed DEF TangentOf
<1> DEFINE Filled(k) == IF k < j THEN XS[k] = CS[k] /\ YS[k] = GS[k]
                        ELSE XS[k] = a /\ YS[k] = t
           Bad == {k \in 0..n : ~Filled(k)}
<1>5. Filled(0)
  BY <1>1
<1>6. ASSUME NEW k \in 1..n, Filled(k - 1) PROVE Filled(k)
  <2>1. CASE k < j
    <3>1. XS[k - 1] = CS[k - 1] /\ YS[k - 1] = GS[k - 1]
      BY <1>6, <2>1
    <3>2. X[k] = C[k]
      BY <2>1
    <3>3. XS[k] = CS[k] /\ YS[k] = GS[k]
      BY <1>3, <3>1, <3>2, ZenonT(40)
    <3> QED BY <2>1, <3>3
  <2>2. CASE k = j
    <3>1. XS[k - 1] = CS[k - 1] /\ YS[k - 1] = GS[k - 1]
      BY <1>6, <2>2
    <3>2. X[k] = Minus(a, CS[k - 1])
      BY <2>2
    <3>3. XS[k] = Plus(CS[k - 1], Minus(a, CS[k - 1])) /\ CS[k - 1] \in Finite
      BY <1>1, <1>3, <3>1, <3>2
    <3>4. XS[k] = a
      BY <3>3, MinusThenPlus
    <3>5. YS[k] = Plus(GS[k - 1], P[<<k, Minus(a, CS[k - 1])>>])
      BY <1>3, <3>1, <3>2
    <3>6. YS[k] = t
      BY <1>4, <2>2, <3>5 DEF TangentOf
    <3> QED BY <2>2, <3>4, <3>6
  <2>3. CASE k > j
    <3>1. XS[k - 1] = a /\ YS[k - 1] = t /\ X[k] = Zero
      BY <1>6, <2>3
    <3>2. P[<<k, Zero>>] = Zero
      BY GainOfZero
    <3>3. XS[k] = Plus(a, Zero) /\ YS[k] = Plus(t, Zero)
      BY <1>3, <3>1, <3>2
    <3>4. Plus(a, Zero) = a /\ Plus(t, Zero) = t
      BY <1>2, PlusCommutes, ZeroPlus
    <3> QED BY <2>3, <3>3, <3>4
  <2> QED BY <2>1, <2>2, <2>3
<1> HIDE DEF Filled
<1>7. Bad = {}
  <2> SUFFICES ASSUME Bad # {} PROVE FALSE
    OBVIOUS
  <2>1. PICK k \in Bad : \A l \in Bad : k <= l
    <3>1. Bad \subseteq Nat
      OBVIOUS
    <3> HIDE DEF Bad
    <3> QED BY <3>1, LeastNat
  <2>2. k # 0
    BY <1>5, <2>1
  <2>3. k \in 1..n /\ k - 1 \in 0..n /\ k - 1 \notin Bad
    BY <2>1, <2>2
  <2> QED BY <1>6, <2>1, <2>3
<1>8. Filled(n) /\ ~(n < j)
  <2>1. n \in 0..n /\ ~(n < j)
    OBVIOUS
  <2> QED BY <1>7, <2>1
<1> QED BY <1>4, <1>8 DEF Filled

\* The filling split gives no level more than it takes.
LEMMA FillingFits ==
  ASSUME NEW n, NEW C, NEW G, NEW CS, NEW GS, NEW P, IsMarket(n, C, G, CS, GS, P),
         NEW a \in Finite, NEW j \in 1..n, AtMost(CS[j - 1], a), AtMost(a, CS[j])
  PROVE  /\ \A k \in 1..(j - 1) : AtMost(C[k], a)
         /\ AtMost(Zero, Minus(a, CS[j - 1])) /\ AtMost(Minus(a, CS[j - 1]), C[j])
<1>1. /\ n \in Nat /\ C \in [1..n -> Amounts] /\ CS \in [0..n -> Finite] /\ IsSum(CS, n, C)
      /\ CS[0] = Zero
  BY DEF IsMarket, IsSum
<1>2. ASSUME NEW k \in 1..n
      PROVE  /\ C[k] \in Finite /\ AtMost(Zero, C[k]) /\ CS[k] \in Finite /\ CS[k - 1] \in Finite
             /\ CS[k] = Plus(CS[k - 1], C[k])
  <2>1. k \in 0..n /\ k - 1 \in 0..n /\ C[k] \in Amounts
    BY <1>1
  <2> QED BY <1>1, <2>1, AmountTerms, AmountIsPositive DEF AtMost, IsSum
<1>3. ASSUME NEW k \in 1..(j - 1) PROVE AtMost(C[k], a)
  <2>1. k \in 1..n /\ k - 1 \in 0..n /\ 0 \in 0..n /\ k - 1 \in 0..n /\ k \in 0..n
        /\ j - 1 \in k..n /\ j - 1 \in 0..n /\ n \in Nat
    BY <1>1
  <2>2. PICK u \in Finite, c \in Finite, w \in Finite, z \in Finite :
          u = CS[k - 1] /\ c = C[k] /\ w = CS[j - 1] /\ z = Zero
    BY <1>1, <1>2, <2>1, ZeroPlus
  <2>3. AtMost(z, u)
    BY <1>1, <2>1, <2>2, SumRises
  <2>4. AtMost(Plus(c, z), Plus(c, u)) /\ Plus(c, z) = c /\ Plus(c, u) = Plus(u, c)
    BY <2>2, <2>3, PlusMonotone, PlusCommutes, ZeroPlus
  <2>5. CS[k] = Plus(u, c)
    BY <1>2, <2>1, <2>2
  <2>6. AtMost(CS[k], w)
    BY <1>1, <2>1, <2>2, SumRises
  <2>7. AtMost(c, w)
    BY <1>2, <2>1, <2>4, <2>5, <2>6, AtMostTransitive
  <2> QED BY <2>2, <2>7, AtMostTransitive
<1>4. PICK u \in Finite, c \in Finite, l \in Finite :
        u = CS[j - 1] /\ c = C[j] /\ l = Minus(a, u)
  BY <1>2, FiniteClosed
<1>5. AtMost(Zero, l)
  BY <1>4, SignOfMinus
<1>6. AtMost(l, c)
  <2>1. Minus(l, c) = Minus(a, Plus(u, c)) /\ Plus(u, c) = CS[j] /\ CS[j] \in Finite
    BY <1>2, <1>4, MinusTwice
  <2>2. AtMost(Minus(l, c), Zero)
    BY <2>1, SignOfMinus
  <2> QED BY <2>2, SignOfMinus
<1> QED BY <1>3, <1>4, <1>5, <1>6
=============================================================================
