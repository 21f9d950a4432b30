----------------------- MODULE ArbitrageServerProofs -----------------------
(***************************************************************************)
(* What is proved of the server for every set of symbols, order books,     *)
(* paths and configurations: which symbols are known, when a trade is      *)
(* sized, what may be read when (the amounts stay opaque), what a size of  *)
(* zero means, and that a recorded trade can be executed.                  *)
(***************************************************************************)
EXTENDS ArbitrageServer, ArbitrageCalculatorProofs, FiniteSetTheorems

\* Before the first sizing the counter is zero.  Afterwards every symbol of
\* the path is known, at least three are, and the counter and the age of the
\* sizing add up to the interval.
SizingState ==
  status = "running" =>
    /\ age = -1 => ticksRemaining = 0
    /\ age >= 0 => /\ PathPresent(pairToPriceMap)
                   /\ Cardinality(DOMAIN pairToPriceMap) >= 3
                   /\ 2 * age + ticksRemaining = config.interval

\* The inductive invariant.
IInv == TypeOK /\ SizingState /\ NoUndefinedBehaviour

PriceMaps == UNION {[D -> Ticks] : D \in SUBSET Symbols}

\* insert_or_assign forgets no symbol and adds at most the updated one.
LEMMA PutGrows ==
  ASSUME NEW f \in PriceMaps, NEW s \in Symbols, NEW tick \in Ticks
  PROVE  /\ Put(f, s, tick) \in PriceMaps
         /\ DOMAIN f \subseteq DOMAIN Put(f, s, tick)
         /\ IsFiniteSet(DOMAIN Put(f, s, tick))
         /\ Cardinality(DOMAIN f) \in Nat
         /\ Cardinality(DOMAIN Put(f, s, tick)) \in Nat
         /\ Cardinality(DOMAIN f) <= Cardinality(DOMAIN Put(f, s, tick))
<1>1. PICK D \in SUBSET Symbols : f \in [D -> Ticks]
  BY DEF PriceMaps
<1>2. D \cup {s} \in SUBSET Symbols
  BY <1>1
<1>3. Put(f, s, tick) \in [D \cup {s} -> Ticks]
  BY <1>1 DEF Put
<1>4. Put(f, s, tick) \in PriceMaps
  BY <1>2, <1>3 DEF PriceMaps
<1>5. DOMAIN f = D /\ DOMAIN Put(f, s, tick) = D \cup {s}
  BY <1>1 DEF Put
<1>6. IsFiniteSet(D) /\ IsFiniteSet(D \cup {s})
  <2>1. IsFiniteSet(D)
    BY <1>1, SymbolsAssumption, FS_Subset
  <2> QED BY <2>1, FS_AddElement
<1>7. /\ Cardinality(D) \in Nat /\ Cardinality(D \cup {s}) \in Nat
      /\ Cardinality(D) <= Cardinality(D \cup {s})
  <2>1. Cardinality(D) \in Nat
    BY <1>6, FS_CardinalityType
  <2>2. Cardinality(D \cup {s}) \in Nat
    BY <1>6, FS_CardinalityType
  <2>3. D \in SUBSET (D \cup {s})
    OBVIOUS
  <2>4. Cardinality(D) <= Cardinality(D \cup {s})
    BY <1>6, <2>3, FS_Subset
  <2> QED BY <2>1, <2>2, <2>4
<1> QED BY <1>4, <1>5, <1>6, <1>7

LEMMA PathStaysPresent ==
  ASSUME NEW f \in PriceMaps, NEW s \in Symbols, NEW tick \in Ticks, PathPresent(f)
  PROVE  PathPresent(Put(f, s, tick))
BY PutGrows DEF PathPresent

\* Whatever a traded path comes to, it is one of the two kinds.
LEMMA EvaluationKinds ==
  ASSUME NEW books, NEW sizing
  PROVE  Evaluation(books, sizing).kind \in {"dropped", "recorded"}
BY DEF Evaluation, Outcome, Dropped

LEMMA InitIInv == Init => IInv
<1> SUFFICES ASSUME Init PROVE IInv
  OBVIOUS
<1>1. pairToPriceMap \in [{} -> Ticks] /\ {} \in SUBSET Symbols
  BY DEF Init
<1>2. age \in -1..MaxAge
  BY AgeAssumption DEF Init
<1>3. TypeOK
  <2>1. pairToPriceMap \in PriceMaps
    BY <1>1 DEF PriceMaps
  <2>2. result.kind = "waiting"
    BY DEF Init, Waiting
  <2>3. ticksRemaining \in Int /\ ~(ticksRemaining > 0)
    BY DEF Init
  <2>4. path \in Paths /\ config \in Configs /\ status = "running"
    BY DEF Init
  <2> QED BY <1>2, <2>1, <2>2, <2>3, <2>4 DEF TypeOK, PriceMaps
<1>4. SizingState /\ NoUndefinedBehaviour
  BY DEF Init, SizingState, NoUndefinedBehaviour
<1> QED BY <1>3, <1>4 DEF IInv

\* What every update does before it decides anything.
LEMMA UpdateKeeps ==
  ASSUME IInv, NEW s \in Symbols, NEW tick \in Ticks, on_update(s, tick)
  PROVE  /\ pairToPriceMap' = Put(pairToPriceMap, s, tick)
         /\ pairToPriceMap' \in PriceMaps
         /\ path' = path /\ config' = config /\ config.interval \in Int
         /\ age \in -1..MaxAge /\ age < MaxAge /\ ticksRemaining \in Int
         /\ age >= 0 => /\ PathPresent(pairToPriceMap')
                        /\ Cardinality(DOMAIN pairToPriceMap') \in Nat
                        /\ Cardinality(DOMAIN pairToPriceMap') >= 3
                        /\ 2 * age + ticksRemaining = config.interval
         /\ age = -1 => ticksRemaining = 0
         /\ status = "running"
<1>1. pairToPriceMap' = Put(pairToPriceMap, s, tick) /\ pairToPriceMap \in PriceMaps
  BY DEF on_update, IInv, TypeOK, PriceMaps
<1>2. path' = path /\ config' = config /\ config.interval \in Int
  BY IntervalAssumption DEF on_update, IInv, TypeOK
<1>3. /\ age \in -1..MaxAge /\ age < MaxAge /\ ticksRemaining \in Int
      /\ status = "running"
  BY DEF on_update, IInv, TypeOK
<1>4. ASSUME age >= 0
      PROVE  /\ PathPresent(pairToPriceMap')
             /\ Cardinality(DOMAIN pairToPriceMap') \in Nat
             /\ Cardinality(DOMAIN pairToPriceMap') >= 3
             /\ 2 * age + ticksRemaining = config.interval
  <2>1. /\ PathPresent(pairToPriceMap) /\ Cardinality(DOMAIN pairToPriceMap) >= 3
        /\ 2 * age + ticksRemaining = config.interval
    BY <1>3, <1>4 DEF IInv, SizingState
  <2>2. PathPresent(pairToPriceMap')
    BY <1>1, <2>1, PathStaysPresent
  <2>3. /\ Cardinality(DOMAIN pairToPriceMap) \in Nat
        /\ Cardinality(DOMAIN pairToPriceMap') \in Nat
        /\ Cardinality(DOMAIN pairToPriceMap) <= Cardinality(DOMAIN pairToPriceMap')
    BY <1>1, PutGrows
  <2> QED BY <2>1, <2>2, <2>3
<1>5. age = -1 => ticksRemaining = 0
  BY <1>3 DEF IInv, SizingState
<1> QED BY <1>1, <1>2, <1>3, <1>4, <1>5, PutGrows

\* The sizing, when it does not throw: due, it starts a new interval; not
\* due, it counts down.
LEMMA SizingStep ==
  ASSUME IInv, NEW s \in Symbols, NEW tick \in Ticks, on_update(s, tick),
         recalcStartingNotional(Put(pairToPriceMap, s, tick)),
         ~Throws(Put(pairToPriceMap, s, tick))
  PROVE  /\ age' \in 0..MaxAge /\ ticksRemaining' \in Int
         /\ ticksRemaining' > 0 => ticksRemaining' <= config.interval
         /\ 2 * age' + ticksRemaining' = config.interval
         /\ PathPresent(pairToPriceMap')
         /\ age' = 0 <=> age = -1 \/ 2 * age = config.interval
<1> DEFINE books == Put(pairToPriceMap, s, tick)
<1>1. pairToPriceMap' = books
  BY UpdateKeeps
<1>2. CASE ticksRemaining = 0
  <2>1. PathPresent(books)
    BY <1>2 DEF Throws
  <2>2. age' = 0 /\ ticksRemaining' = config.interval
    BY <1>2, <2>1 DEF recalcStartingNotional
  <2>3. age = -1 \/ 2 * age = config.interval
    BY <1>2, UpdateKeeps
  <2>4. PathPresent(pairToPriceMap')
    BY <1>1, <2>1
  <2> QED BY <2>2, <2>3, <2>4, UpdateKeeps, AgeAssumption
<1>3. CASE ticksRemaining # 0
  <2>1. age' = age + 1 /\ ticksRemaining' = ticksRemaining - 2
    BY <1>3 DEF recalcStartingNotional
  <2>2. age >= 0 /\ age \in Int
    BY <1>3, UpdateKeeps, AgeAssumption
  <2>3. PathPresent(pairToPriceMap') /\ 2 * age + ticksRemaining = config.interval
    BY <2>2, UpdateKeeps
  <2>4. ticksRemaining > 0 => ticksRemaining <= config.interval
    BY DEF IInv, TypeOK
  <2> QED BY <1>3, <2>1, <2>2, <2>3, <2>4, UpdateKeeps, AgeAssumption
<1> QED BY <1>2, <1>3

\* The three ways an update can go, with what each leaves behind.
LEMMA OnUpdateCases ==
  ASSUME IInv, NEW s \in Symbols, NEW tick \in Ticks, on_update(s, tick)
  PROVE  \/ /\ age = -1 /\ result' = Waiting
            /\ UNCHANGED <<ticksRemaining, status, age>>
         \/ /\ age = -1 /\ age' = age /\ ticksRemaining' = config.interval
            /\ status' = "terminated" /\ result' = result
         \/ /\ age' \in 0..MaxAge /\ ticksRemaining' \in Int
            /\ ticksRemaining' > 0 => ticksRemaining' <= config.interval
            /\ 2 * age' + ticksRemaining' = config.interval
            /\ PathPresent(pairToPriceMap')
            /\ Cardinality(DOMAIN pairToPriceMap') >= 3
            /\ age' = 0 <=> age = -1 \/ 2 * age = config.interval
            /\ status' = "running"
            /\ result'.kind \in {"dropped", "recorded"}
<1> DEFINE books == Put(pairToPriceMap, s, tick)
<1>1. /\ pairToPriceMap' = books /\ status = "running"
      /\ age \in -1..MaxAge /\ Cardinality(DOMAIN books) \in Nat
  BY UpdateKeeps, PutGrows DEF IInv, TypeOK, PriceMaps
<1> HIDE DEF books
<1>2. CASE /\ Cardinality(DOMAIN books) < 3 /\ result' = Waiting
           /\ UNCHANGED <<ticksRemaining, startingNotional, currentNotional, status, age>>
  <2>1. age = -1
    BY <1>1, <1>2, UpdateKeeps, AgeAssumption
  <2> QED BY <1>2, <2>1
<1>3. CASE /\ Cardinality(DOMAIN books) >= 3 /\ Throws(books)
           /\ recalcStartingNotional(books) /\ status' = "terminated"
           /\ UNCHANGED <<currentNotional, result>>
  <2>1. age = -1
    BY <1>1, <1>3, UpdateKeeps, AgeAssumption DEF Throws
  <2>2. ticksRemaining' = config.interval /\ age' = age
    BY <1>3 DEF recalcStartingNotional, Throws
  <2> QED BY <1>3, <2>1, <2>2
<1>4. CASE /\ Cardinality(DOMAIN books) >= 3 /\ ~Throws(books)
           /\ recalcStartingNotional(books)
           /\ evaluate(books, startingNotional', age' >= 0)
  <2>1. /\ age' \in 0..MaxAge /\ ticksRemaining' \in Int
        /\ ticksRemaining' > 0 => ticksRemaining' <= config.interval
        /\ 2 * age' + ticksRemaining' = config.interval
        /\ PathPresent(pairToPriceMap')
        /\ age' = 0 <=> age = -1 \/ 2 * age = config.interval
    BY <1>4, SizingStep DEF books
  <2>2. PathPresent(books) /\ age' >= 0
    BY <1>1, <2>1, AgeAssumption
  <2>3. status' = "running" /\ result' = Evaluation(books, startingNotional')
    BY <1>1, <1>4, <2>2 DEF evaluate
  <2> QED BY <1>1, <1>4, <2>1, <2>3, EvaluationKinds
<1> QED BY <1>2, <1>3, <1>4 DEF on_update, books

LEMMA OnUpdateIInv ==
  ASSUME IInv, NEW s \in Symbols, NEW tick \in Ticks, on_update(s, tick)
  PROVE  IInv'
<1>1. /\ path' \in Paths /\ config' \in Configs /\ config' = config
      /\ pairToPriceMap' \in PriceMaps /\ config.interval \in Int
      /\ age \in -1..MaxAge /\ ticksRemaining \in Int
      /\ ticksRemaining > 0 => ticksRemaining <= config.interval
      /\ result.kind \in {"waiting", "dropped", "recorded"}
      /\ age = -1 => ticksRemaining = 0
      /\ status = "running"
  BY UpdateKeeps DEF IInv, TypeOK
<1>2. TypeOK' /\ NoUndefinedBehaviour'
  <2>1. /\ ticksRemaining' \in Int
        /\ ticksRemaining' > 0 => ticksRemaining' <= config.interval
        /\ age' \in -1..MaxAge
    BY <1>1, OnUpdateCases, AgeAssumption
  <2>2. status' \in {"running", "terminated"}
    BY <1>1, OnUpdateCases
  <2>3. result'.kind \in {"waiting", "dropped", "recorded"}
    BY <1>1, OnUpdateCases DEF Waiting
  <2> QED BY <1>1, <2>1, <2>2, <2>3 DEF TypeOK, PriceMaps, NoUndefinedBehaviour
<1>3. SizingState'
  <2>1. CASE age' = -1 /\ status' = "running"
    BY <1>1, <2>1, OnUpdateCases, AgeAssumption DEF SizingState
  <2>2. CASE age' >= 0 /\ status' = "running"
    <3>1. path' = path
      BY UpdateKeeps
    <3>2. /\ PathPresent(pairToPriceMap') /\ Cardinality(DOMAIN pairToPriceMap') >= 3
          /\ 2 * age' + ticksRemaining' = config.interval
      BY <1>1, <2>2, OnUpdateCases
    <3>3. PathPresent(pairToPriceMap)'
      BY <3>1, <3>2 DEF PathPresent
    <3> QED BY <1>1, <2>2, <3>2, <3>3 DEF SizingState
  <2>3. CASE status' # "running"
    BY <2>3 DEF SizingState
  <2>4. age' = -1 \/ age' >= 0
    BY <1>2, AgeAssumption DEF TypeOK
  <2> QED BY <2>1, <2>2, <2>3, <2>4
<1> QED BY <1>2, <1>3 DEF IInv

LEMMA NextIInv == IInv /\ [Next]_vars => IInv'
<1> SUFFICES ASSUME IInv, [Next]_vars PROVE IInv'
  OBVIOUS
<1>1. CASE Next
  BY <1>1, OnUpdateIInv DEF Next
<1>2. CASE UNCHANGED vars
  <2>1. TypeOK' /\ NoUndefinedBehaviour'
    BY <1>2 DEF vars, IInv, TypeOK, NoUndefinedBehaviour
  <2>2. SizingState'
    BY <1>2 DEF vars, IInv, SizingState, PathPresent
  <2> QED BY <2>1, <2>2 DEF IInv
<1> QED BY <1>1, <1>2

-----------------------------------------------------------------------------
(* The theorems.                                                           *)

\* The strengthening is an invariant of the server.
THEOREM Invariance == Spec => []IInv
BY InitIInv, NextIInv, PTL DEF Spec

\* Every variable keeps its type, and the counter never exceeds the interval.
THEOREM TypeCorrect == Spec => []TypeOK
<1>1. IInv => TypeOK
  BY DEF IInv
<1> QED BY <1>1, Invariance, PTL

\* The server reads neither an unassigned notional nor a missing tick.
THEOREM ReadsOnlyWhatIsThere == Spec => []NoUndefinedBehaviour
<1>1. IInv => NoUndefinedBehaviour
  BY DEF IInv
<1> QED BY <1>1, Invariance, PTL

\* Once a trade was sized, the age of the sizing and the counter add up to
\* the interval: with a whole interval of n evaluations (2n halves) no sizing
\* is used more than n evaluations after it was computed.
SizingAge == age >= 0 /\ status = "running" => 2 * age + ticksRemaining = config.interval

THEOREM AgeAndCounter == Spec => []SizingAge
<1>1. IInv => SizingAge
  BY DEF IInv, SizingState, SizingAge
<1> QED BY <1>1, Invariance, PTL

\* A trade is sized at the first evaluation and when the age of the sizing
\* reaches the interval, and at no other time.
THEOREM SizingSchedule == Spec => SizedOnSchedule
<1> DEFINE Scheduled == age' >= 0 =>
                          (age' = 0 <=> age = -1 \/ 2 * age = config.interval)
<1>1. IInv /\ [Next]_vars => [Scheduled]_vars
  <2> SUFFICES ASSUME IInv, NEW s \in Symbols, NEW tick \in Ticks, on_update(s, tick)
               PROVE  Scheduled
    BY DEF Next
  <2>1. age \in -1..MaxAge
    BY DEF IInv, TypeOK
  <2> QED BY <2>1, OnUpdateCases, AgeAssumption
<1>2. Spec => [][Scheduled]_vars
  BY <1>1, Invariance, PTL DEF Spec
<1> QED BY <1>2 DEF SizedOnSchedule

-----------------------------------------------------------------------------
(* The size of a trade.                                                    *)

\* The sides that a path trades on, in the books of its symbols.
LEMMA SidesOfBooks ==
  ASSUME NEW books \in PriceMaps, PathPresent(books), path \in Paths, NEW i \in Legs
  PROVE  /\ path[i].requiresInversion \in BOOLEAN
         /\ Levels(path[i], books[path[i].symbol]) \in Seq(PriceLevels)
<1>1. path[i].requiresInversion \in BOOLEAN
  BY PathAssumption
<1>2. books[path[i].symbol] \in Ticks
  BY DEF PriceMaps, PathPresent
<1> QED BY <1>1, <1>2, LevelsAssumption DEF Levels

\* Sized on whole sides.
LEMMA SizeOfSides ==
  ASSUME NEW books \in PriceMaps, PathPresent(books), path \in Paths
  PROVE  LET notional == calculateStartingNotional(path, books).notional
         IN  /\ notional \in Fractions
             /\ notional = Zero <=>
                  \E i \in Legs : Levels(path[i], books[path[i].symbol]) = <<>>
<1> DEFINE side(i) == Levels(path[i], books[path[i].symbol])
           value(i, base) == calculateBookSideValue(side(i), base)
<1>1. ASSUME NEW i \in Legs
      PROVE  side(i) \in Seq(PriceLevels) /\ path[i].requiresInversion \in BOOLEAN
  BY SidesOfBooks
<1>2. ASSUME NEW i \in Legs, NEW base \in BOOLEAN
      PROVE  value(i, base) \in Fractions /\ (value(i, base) = Zero <=> side(i) = <<>>)
  <2> HIDE DEF side
  <2> QED BY <1>1, SideValue
<1> HIDE DEF side
<1>3. PICK first, second, third, price1 :
        /\ first = value(1, ~path[1].requiresInversion)
        /\ second = value(2, ~path[2].requiresInversion)
        /\ third = value(3, path[3].requiresInversion)
        /\ price1 = Over(value(1, FALSE), value(1, TRUE))
  OBVIOUS
<1>4. 1 \in Legs /\ 2 \in Legs /\ 3 \in Legs /\ Legs = 1..3
  BY DEF Legs
<1>5. /\ first \in Fractions /\ (first = Zero <=> side(1) = <<>>)
      /\ second \in Fractions /\ (second = Zero <=> side(2) = <<>>)
      /\ third \in Fractions /\ (third = Zero <=> side(3) = <<>>)
  <2> HIDE DEF value
  <2> QED BY <1>1, <1>2, <1>3, <1>4
<1>6. price1 \in Nat \X Nat /\ (first # Zero => price1 \in Fractions \ {Zero})
  <2>1. PICK x \in Fractions, y \in Fractions :
          /\ price1 = Over(x, y)
          /\ x = Zero <=> side(1) = <<>>
          /\ y = Zero <=> side(1) = <<>>
    <3> HIDE DEF value
    <3> QED BY <1>2, <1>3, <1>4
  <2>2. price1 \in Nat \X Nat
    <3>1. /\ x[1] \in Nat /\ x[2] \in Nat /\ y[1] \in Nat /\ y[2] \in Nat
      BY FractionTerms
    <3>2. x[1] * y[2] \in Nat /\ x[2] * y[1] \in Nat
      BY <3>1
    <3> QED BY <2>1, <3>2, ReducedType DEF Over
  <2>3. ASSUME first # Zero PROVE price1 \in Fractions \ {Zero}
    BY <1>5, <2>1, <2>3, OverType
  <2> QED BY <2>2, <2>3
<1>7. calculateStartingNotional(path, books) = Least(Bounds(path, first, price1, second, third))
  BY <1>3 DEF calculateStartingNotional, side
<1>8. LET notional == Least(Bounds(path, first, price1, second, third)).notional
      IN  /\ notional \in Fractions
          /\ notional = Zero <=> first = Zero \/ second = Zero \/ third = Zero
  <2>1. \A i \in 1..3 : path[i].requiresInversion \in BOOLEAN
    BY <1>1, <1>4
  <2> HIDE DEF value
  <2> QED BY <1>5, <1>6, <2>1, LeastBound
<1>9. (\E i \in Legs : side(i) = <<>>) <=> side(1) = <<>> \/ side(2) = <<>> \/ side(3) = <<>>
  BY <1>4
<1> QED BY <1>5, <1>7, <1>8, <1>9 DEF side

\* Sized on first levels.
LEMMA SizeOfFirstLevels ==
  ASSUME NEW books \in PriceMaps, PathPresent(books), path \in Paths
  PROVE  LET notional == calculateStartingNotionalWithFirstLevelOnly(path, books).notional
         IN  /\ notional \in Fractions
             /\ notional = Zero <=>
                  \E i \in Legs : Levels(path[i], books[path[i].symbol]) = <<>>
<1> DEFINE side(i)  == Levels(path[i], books[path[i].symbol])
           base(i)  == getBestQty(side(i))
           price(i) == getBestPrice(side(i))
           quote(i) == Times(base(i), price(i))
<1>1. ASSUME NEW i \in Legs
      PROVE  side(i) \in Seq(PriceLevels) /\ path[i].requiresInversion \in BOOLEAN
  BY SidesOfBooks
<1> HIDE DEF side
<1>2. ASSUME NEW i \in Legs
      PROVE  /\ base(i) \in Fractions /\ (base(i) = Zero <=> side(i) = <<>>)
             /\ price(i) \in Fractions /\ (price(i) = Zero <=> side(i) = <<>>)
  <2>1. CASE side(i) = <<>>
    BY <2>1, IsZero DEF getBestQty, getBestPrice
  <2>2. CASE side(i) # <<>>
    <3>1. side(i)[1] \in PriceLevels
      BY <1>1, <2>2
    <3>2. side(i)[1].price \in Amounts /\ side(i)[1].quantity \in Amounts
      BY <3>1 DEF PriceLevels
    <3> QED BY <2>2, <3>2, AmountsAreFractions DEF getBestQty, getBestPrice
  <2> QED BY <2>1, <2>2
<1> HIDE DEF base, price
<1>3. ASSUME NEW i \in Legs
      PROVE  quote(i) \in Fractions /\ (quote(i) = Zero <=> side(i) = <<>>)
  BY <1>2, TimesType
<1> HIDE DEF quote
<1>4. PICK first, second, third :
        /\ first = IF path[1].requiresInversion THEN quote(1) ELSE base(1)
        /\ second = IF path[2].requiresInversion THEN quote(2) ELSE base(2)
        /\ third = IF path[3].requiresInversion THEN base(3) ELSE quote(3)
  OBVIOUS
<1>5. 1 \in Legs /\ 2 \in Legs /\ 3 \in Legs /\ Legs = 1..3
  BY DEF Legs
<1>6. /\ first \in Fractions /\ (first = Zero <=> side(1) = <<>>)
      /\ second \in Fractions /\ (second = Zero <=> side(2) = <<>>)
      /\ third \in Fractions /\ (third = Zero <=> side(3) = <<>>)
  BY <1>2, <1>3, <1>4, <1>5
<1>7. price(1) \in Nat \X Nat /\ (first # Zero => price(1) \in Fractions \ {Zero})
  <2>1. price(1) \in Fractions /\ (price(1) = Zero <=> side(1) = <<>>)
    BY <1>2, <1>5
  <2>2. Fractions \subseteq Nat \X Nat
    BY DEF Fractions, Positive
  <2> QED BY <1>6, <2>1, <2>2
<1>8. calculateStartingNotionalWithFirstLevelOnly(path, books)
        = Least(Bounds(path, first, price(1), second, third))
  BY <1>4 DEF calculateStartingNotionalWithFirstLevelOnly, side, base, price, quote
<1>9. LET notional == Least(Bounds(path, first, price(1), second, third)).notional
      IN  /\ notional \in Fractions
          /\ notional = Zero <=> first = Zero \/ second = Zero \/ third = Zero
  <2>1. \A i \in 1..3 : path[i].requiresInversion \in BOOLEAN
    BY <1>1, <1>5
  <2> QED BY <1>6, <1>7, <2>1, LeastBound
<1>10. (\E i \in Legs : side(i) = <<>>) <=> side(1) = <<>> \/ side(2) = <<>> \/ side(3) = <<>>
  BY <1>5
<1> QED BY <1>6, <1>8, <1>9, <1>10 DEF side

\* At age zero the sizing is that of the books the server has.
SizedOnBooks ==
  status = "running" /\ age = 0 => startingNotional = Size(pairToPriceMap)

LEMMA InitSizedOnBooks == Init => SizedOnBooks
BY DEF Init, SizedOnBooks

LEMMA NextSizedOnBooks == IInv /\ SizedOnBooks /\ [Next]_vars => SizedOnBooks'
<1>1. ASSUME IInv, SizedOnBooks, UNCHANGED vars PROVE SizedOnBooks'
  <2>1. /\ path' = path /\ config' = config /\ pairToPriceMap' = pairToPriceMap
        /\ status' = status /\ age' = age /\ startingNotional' = startingNotional
    BY <1>1 DEF vars
  <2> QED BY <1>1, <2>1 DEF SizedOnBooks, Size
<1>2. ASSUME IInv, SizedOnBooks, NEW s \in Symbols, NEW tick \in Ticks, on_update(s, tick)
      PROVE  SizedOnBooks'
  <2> DEFINE books == Put(pairToPriceMap, s, tick)
  <2> SUFFICES ASSUME status' = "running", age' = 0
               PROVE  startingNotional' = Size(books)
    <3>1. /\ path' = path /\ config' = config /\ pairToPriceMap' = books
      BY <1>2, UpdateKeeps
    <3>2. Size(pairToPriceMap)' = Size(books)
      BY <3>1 DEF Size
    <3> QED BY <3>2 DEF SizedOnBooks
  <2>1. /\ status = "running" /\ age \in -1..MaxAge /\ (age = -1 => ticksRemaining = 0)
    BY <1>2, UpdateKeeps
  <2> HIDE DEF books
  <2>2. CASE /\ Cardinality(DOMAIN books) < 3 /\ result' = Waiting
             /\ UNCHANGED <<ticksRemaining, startingNotional, currentNotional, status, age>>
    <3>1. age = 0
      BY <2>2
    <3>2. Cardinality(DOMAIN books) >= 3 /\ Cardinality(DOMAIN books) \in Nat
      BY <1>2, <3>1, UpdateKeeps DEF books
    <3> QED BY <2>2, <3>2
  <2>3. CASE status' = "terminated"
    BY <2>3
  <2>4. CASE ~Throws(books) /\ recalcStartingNotional(books)
    <3>1. CASE ticksRemaining = 0
      BY <2>4, <3>1 DEF Throws, recalcStartingNotional
    <3>2. CASE ticksRemaining # 0
      BY <2>1, <2>4, <3>2, AgeAssumption DEF recalcStartingNotional
    <3> QED BY <3>1, <3>2
  <2> QED BY <1>2, <2>2, <2>3, <2>4 DEF on_update, books
<1> QED BY <1>1, <1>2 DEF Next

\* A sizing for the books that are there is a number, and it is zero only
\* when a side the path trades on is empty.
THEOREM SizedZero == Spec => []SizedZeroIffSideEmpty
<1>1. IInv /\ SizedOnBooks => SizedZeroIffSideEmpty
  <2> SUFFICES ASSUME IInv, SizedOnBooks, Fresh
               PROVE  /\ IsFinite(startingNotional.notional)
                      /\ (startingNotional.notional = Zero) <=>
                           \E i \in Legs : Side(i) = <<>>
    BY DEF SizedZeroIffSideEmpty
  <2>1. /\ PathPresent(pairToPriceMap) /\ path \in Paths
        /\ pairToPriceMap \in PriceMaps
        /\ startingNotional = Size(pairToPriceMap)
    BY DEF Fresh, IInv, TypeOK, SizingState, SizedOnBooks, PriceMaps
  <2>2. /\ startingNotional.notional \in Fractions
        /\ startingNotional.notional = Zero <=>
             \E i \in Legs : Levels(path[i], pairToPriceMap[path[i].symbol]) = <<>>
    BY <2>1, SizeOfSides, SizeOfFirstLevels DEF Size
  <2>3. IsFinite(startingNotional.notional)
    BY <2>2, FractionTerms DEF IsFinite
  <2> QED BY <2>2, <2>3 DEF Side
<1>2. Spec => []SizedOnBooks
  BY InitSizedOnBooks, NextSizedOnBooks, Invariance, PTL DEF Spec
<1> QED BY <1>1, <1>2, Invariance, PTL

-----------------------------------------------------------------------------
(* Recorded trades.                                                        *)

\* The state of the loop over the legs.
Walks == [notional : Finite, rates : Seq(Finite), dropped : 0..3]

LegOn(books, s, i) ==
  TradeLeg(s, i, getEffectiveRate(path[i], books[path[i].symbol], s.notional))

LegTick(books, i) == books[path[i].symbol]

\* Leg i converts s into t at the last of t's rates, as a market order.
Trades(books, s, i, t, rate) ==
  /\ t = [notional |-> Times(Times(s.notional, rate), config.takerFee),
          rates |-> Append(s.rates, rate), dropped |-> 0]
  /\ IsMarketRate(path[i], LegTick(books, i), s.notional, rate)

\* Leg i drops the update.
Drops(books, s, i, t) ==
  /\ t = [s EXCEPT !.dropped = i]
  /\ CannotTrade(path[i], LegTick(books, i), s.notional)

LEMMA LegOnType ==
  ASSUME path \in Paths, config \in Configs, NEW books \in PriceMaps, PathPresent(books),
         NEW s \in Walks, NEW i \in Legs
  PROVE  /\ LegOn(books, s, i) \in Walks
         /\ s.dropped # 0 => LegOn(books, s, i) = s
         /\ s.dropped = 0 => \/ Drops(books, s, i, LegOn(books, s, i))
                             \/ \E rate \in Amounts :
                                  Trades(books, s, i, LegOn(books, s, i), rate)
<1>1. PICK tick \in Ticks : tick = LegTick(books, i)
  BY DEF PriceMaps, PathPresent, LegTick
<1>2. /\ path[i].requiresInversion \in BOOLEAN /\ i \in 0..3 /\ i # 0
      /\ IsBook(tick) /\ config.takerFee \in Finite
  <2>1. path[i].requiresInversion \in BOOLEAN
    BY PathAssumption
  <2>2. i \in 0..3 /\ i # 0
    BY DEF Legs
  <2>3. IsBook(tick)
    BY LevelsAssumption, OrderAssumption DEF IsBook
  <2>4. config.takerFee \in Finite
    BY FiniteAssumption
  <2> QED BY <2>1, <2>2, <2>3, <2>4
<1>3. PICK notional \in Finite, rates \in Seq(Finite), dropped \in 0..3 :
        s = [notional |-> notional, rates |-> rates, dropped |-> dropped]
  BY DEF Walks
<1>4. PICK leg : leg = path[i]
  OBVIOUS
<1>5. PICK rate : rate = getEffectiveRate(leg, tick, notional)
  OBVIOUS
<1>6. LegOn(books, s, i) = TradeLeg(s, i, rate)
  BY <1>1, <1>3, <1>4, <1>5 DEF LegOn, LegTick
<1>7. CASE dropped # 0
  BY <1>3, <1>6, <1>7 DEF TradeLeg
<1>8. CASE dropped = 0 /\ rate = Zero /\ CannotTrade(leg, tick, notional)
  <2>1. AtMost(rate, Zero)
    BY <1>8, ZeroPlus, OrderIsTotal
  <2>2. LegOn(books, s, i) = [s EXCEPT !.dropped = i]
    BY <1>3, <1>6, <1>8, <2>1 DEF TradeLeg
  <2>3. LegOn(books, s, i) \in Walks
    BY <1>2, <1>3, <2>2 DEF Walks
  <2> QED BY <1>1, <1>3, <1>4, <1>8, <2>2, <2>3 DEF Drops
<1>9. CASE dropped = 0 /\ IsMarketRate(leg, tick, notional, rate)
  <2>1. rate \in Amounts /\ rate \in Finite /\ ~AtMost(rate, Zero)
    <3>1. rate \in Amounts
      BY <1>9 DEF IsMarketRate
    <3> QED BY <3>1, AmountTerms, AmountIsPositive, ZeroPlus, OrderIsTotal
  <2>2. LegOn(books, s, i) = [notional |-> Times(Times(notional, rate), config.takerFee),
                              rates |-> Append(rates, rate), dropped |-> 0]
    BY <1>3, <1>6, <1>9, <2>1 DEF TradeLeg
  <2>3. Times(Times(notional, rate), config.takerFee) \in Finite
    BY <1>2, <2>1, FiniteClosed
  <2>4. Append(rates, rate) \in Seq(Finite)
    BY <2>1
  <2>5. LegOn(books, s, i) \in Walks
    BY <2>2, <2>3, <2>4 DEF Walks
  <2>6. Trades(books, s, i, LegOn(books, s, i), rate)
    BY <1>1, <1>3, <1>4, <1>9, <2>2 DEF Trades
  <2> QED BY <1>3, <1>9, <2>1, <2>5, <2>6
<1>10. \/ rate = Zero /\ CannotTrade(leg, tick, notional)
       \/ IsMarketRate(leg, tick, notional, rate)
  BY <1>2, <1>4, <1>5, RateOfMarketOrder
<1> QED BY <1>7, <1>8, <1>9, <1>10

LEMMA LegsInTurn ==
  ASSUME path \in Paths, config \in Configs, NEW books \in PriceMaps, PathPresent(books),
         NEW a \in Finite
  PROVE  \E s0, s1, s2 \in Walks :
           /\ s0 = [notional |-> a, rates |-> <<>>, dropped |-> 0]
           /\ s1 = LegOn(books, s0, 1) /\ s2 = LegOn(books, s1, 2)
           /\ TradeLegs(books, a) = LegOn(books, s2, 3)
           /\ TradeLegs(books, a) \in Walks
<1> DEFINE legs == <<1, 2, 3>>
           step(iter, s) == IF s = {} THEN [notional |-> a, rates |-> <<>>, dropped |-> 0]
                            ELSE LegOn(books, iter[s \ {Max(s)}], legs[Max(s)])
           it == CHOOSE iter : iter = [s \in SUBSET (DOMAIN legs) |-> step(iter, s)]
           F == [p \in Walks \X (1..3) |-> LegOn(books, p[1], p[2])]
<1>1. TradeLegs(books, a) = it[DOMAIN legs]
  BY DEF TradeLegs, FoldLeft, MapThenFoldSet, LegOn
<1>2. DOMAIN legs = 1..3 /\ \A i \in 1..3 : legs[i] = i
  <2>1. legs[1] = 1 /\ legs[2] = 2 /\ legs[3] = 3
    OBVIOUS
  <2>2. legs \in Seq(Nat) /\ Len(legs) = 3
    OBVIOUS
  <2>3. DOMAIN legs = 1..Len(legs)
    BY <2>2
  <2> HIDE DEF legs
  <2> QED BY <2>1, <2>2, <2>3
<1> HIDE DEF legs
<1>3. PICK base \in Walks : base = [notional |-> a, rates |-> <<>>, dropped |-> 0]
  <2>1. <<>> \in Seq(Finite) /\ 0 \in 0..3
    OBVIOUS
  <2> QED BY <2>1 DEF Walks
<1>4. F \in [Walks \X (1..3) -> Walks] /\ 3 \in Nat
  BY LegOnType DEF Legs
<1>5. \A s \in SUBSET (1..3) : it[s] = step(it, s)
  <2>1. PICK g \in [SUBSET (1..3) -> Walks] : IsFold(g, 3, base, F)
    <3> HIDE DEF F, it, step
    <3> QED BY <1>3, <1>4, FoldExists
  <2>2. ASSUME NEW s \in SUBSET (1..3) PROVE g[s] = step(g, s)
    <3>1. CASE s = {}
      BY <1>3, <2>1, <3>1 DEF IsFold
    <3>2. CASE s # {}
      <4>1. Max(s) \in 1..3 /\ s \ {Max(s)} \in SUBSET (1..3)
        BY <1>4, <3>2, MaxOfInterval
      <4>2. g[s] = F[<<g[s \ {Max(s)}], Max(s)>>] /\ g[s \ {Max(s)}] \in Walks
        BY <2>1, <3>2, <4>1 DEF IsFold
      <4> QED BY <1>2, <3>2, <4>1, <4>2
    <3> QED BY <3>1, <3>2
  <2>3. g = [s \in SUBSET (DOMAIN legs) |-> step(g, s)]
    <3> HIDE DEF step
    <3> QED BY <1>2, <2>1, <2>2
  <2>4. it = [s \in SUBSET (DOMAIN legs) |-> step(it, s)]
    <3> HIDE DEF step
    <3> QED BY <2>3
  <2> HIDE DEF step, it
  <2> QED BY <1>2, <2>4
<1> HIDE DEF it
<1>6. FoldsIn(it, 3, Walks, base, F)
  <2>1. it[{}] = base
    BY <1>3, <1>5
  <2>2. ASSUME NEW s \in SUBSET (1..3), s # {}, it[s \ {Max(s)}] \in Walks
        PROVE  it[s] = F[<<it[s \ {Max(s)}], Max(s)>>]
    <3>1. Max(s) \in 1..3
      BY <1>4, <2>2, MaxOfInterval
    <3> QED BY <1>2, <1>5, <2>2, <3>1
  <2> HIDE DEF F, step
  <2> QED BY <1>4, <2>1, <2>2 DEF FoldsIn
<1>7. PICK run \in [0..3 -> Walks] : IsFoldRun(run, 3, base, F) /\ run[3] = it[1..3]
  <2> HIDE DEF F
  <2>1. RunsIn(it, 3, Walks, base, F)
    BY <1>6, FoldRuns
  <2> QED BY <2>1 DEF RunsIn
<1>8. ASSUME NEW k \in 1..3 PROVE run[k] = LegOn(books, run[k - 1], k)
  <2>1. k - 1 \in 0..3
    OBVIOUS
  <2>2. run[k - 1] \in Walks
    BY <2>1
  <2>3. run[k] = F[<<run[k - 1], k>>]
    <3> HIDE DEF F
    <3> QED BY <1>7 DEF IsFoldRun
  <2> QED BY <2>2, <2>3
<1>9. /\ run[0] = base /\ run[1] = LegOn(books, run[0], 1)
      /\ run[2] = LegOn(books, run[1], 2) /\ run[3] = LegOn(books, run[2], 3)
  <2>1. run[0] = base
    BY <1>7 DEF IsFoldRun
  <2>2. 1 - 1 = 0 /\ 2 - 1 = 1 /\ 3 - 1 = 2
    OBVIOUS
  <2> QED BY <1>8, <2>1, <2>2
<1>10. /\ run[0] \in Walks /\ run[1] \in Walks /\ run[2] \in Walks /\ run[3] \in Walks
  OBVIOUS
<1> HIDE DEF F, step
<1> QED BY <1>1, <1>2, <1>3, <1>7, <1>9, <1>10

\* What an evaluation comes to, starting from a: every leg trades what the legs
\* before it brought, less a fee, until one of them cannot.
IsEvaluation(legs, c, books, a, ev) ==
  LET tick(i)   == books[legs[i].symbol]
      after(x, rate) == Times(Times(x, rate), c.takerFee)
      Drop(i, x)   == ev = Dropped(i, x) /\ CannotTrade(legs[i], tick(i), x)
      Trade(i, x, rate) == IsMarketRate(legs[i], tick(i), x, rate)
  IN  \/ Drop(1, a)
      \/ \E r1 \in Amounts, b \in Finite :
           /\ Trade(1, a, r1) /\ b = after(a, r1)
           /\ \/ Drop(2, b)
              \/ \E r2 \in Amounts, d \in Finite :
                   /\ Trade(2, b, r2) /\ d = after(b, r2)
                   /\ \/ Drop(3, d)
                      \/ \E r3 \in Amounts :
                           /\ Trade(3, d, r3)
                           /\ ev.kind = "recorded" /\ ev.tradedNotional = a
                           /\ ev.rates[1] = r1 /\ ev.rates[2] = r2 /\ ev.rates[3] = r3
                           /\ ev.arbitrageOpportunity <=>
                                ~Less(after(d, r3), Times(a, c.profitThreshold))

LEMMA EvaluationIs ==
  ASSUME path \in Paths, config \in Configs, NEW books \in PriceMaps, PathPresent(books),
         NEW sizing, sizing.notional \in Finite,
         NEW ev, ev = Evaluation(books, sizing)
  PROVE  IsEvaluation(path, config, books,
                      Times(sizing.notional, config.maxStartingNotionalFraction), ev)
<1>1. /\ config.takerFee \in Finite /\ config.profitThreshold \in Finite
      /\ config.maxStartingNotionalFraction \in Finite
  BY FiniteAssumption
<1>2. PICK a \in Finite : a = Times(sizing.notional, config.maxStartingNotionalFraction)
  BY <1>1, FiniteClosed
<1>3. PICK s0 \in Walks, s1 \in Walks, s2 \in Walks, s3 \in Walks :
        /\ s0 = [notional |-> a, rates |-> <<>>, dropped |-> 0]
        /\ s1 = LegOn(books, s0, 1) /\ s2 = LegOn(books, s1, 2)
        /\ s3 = LegOn(books, s2, 3) /\ s3 = TradeLegs(books, a)
  BY LegsInTurn
<1>4. ev = Outcome(a, sizing.bottleneckLeg, s3)
  BY <1>2, <1>3 DEF Evaluation
<1>5. 1 \in Legs /\ 2 \in Legs /\ 3 \in Legs
  BY DEF Legs
<1>6. s0.notional = a /\ s0.dropped = 0 /\ s0.rates = <<>>
  BY <1>3
<1>7. \A s \in Walks : s.notional \in Finite /\ s.rates \in Seq(Finite) /\ s.dropped \in 0..3
  BY DEF Walks
<1>8. ASSUME NEW s \in Walks, NEW t \in Walks, NEW i \in Legs, Drops(books, s, i, t), t = s3
      PROVE  ev = Dropped(i, s.notional) /\ CannotTrade(path[i], books[path[i].symbol], s.notional)
  <2>1. t.dropped = i /\ t.notional = s.notional /\ i # 0
    BY <1>8 DEF Drops, Walks, Legs
  <2>2. ev = Dropped(i, s.notional)
    BY <1>4, <1>8, <2>1 DEF Outcome
  <2> QED BY <1>8, <2>2 DEF Drops, LegTick
<1>9. ASSUME NEW s \in Walks, NEW t \in Walks, NEW i \in Legs, NEW rate, Trades(books, s, i, t, rate)
      PROVE  /\ t.notional = Times(Times(s.notional, rate), config.takerFee)
             /\ t.rates = Append(s.rates, rate) /\ t.dropped = 0
             /\ IsMarketRate(path[i], books[path[i].symbol], s.notional, rate)
  BY <1>9 DEF Trades, LegTick
<1>10. CASE Drops(books, s0, 1, s1)
  <2>1. s1.dropped = 1
    BY <1>10 DEF Drops, Walks
  <2>2. s2 = s1 /\ s3 = s1
    BY <1>3, <1>5, <2>1, LegOnType
  <2> QED BY <1>2, <1>5, <1>6, <1>8, <1>10, <2>2 DEF IsEvaluation
<1>11. ASSUME NEW r1 \in Amounts, Trades(books, s0, 1, s1, r1), Drops(books, s1, 2, s2)
       PROVE  IsEvaluation(path, config, books, a, ev)
  <2>1. s2.dropped = 2
    BY <1>11 DEF Drops, Walks
  <2>2. s3 = s2
    BY <1>3, <1>5, <2>1, LegOnType
  <2>3. /\ ev = Dropped(2, s1.notional)
        /\ CannotTrade(path[2], books[path[2].symbol], s1.notional)
    BY <1>5, <1>8, <1>11, <2>2
  <2>4. /\ s1.notional = Times(Times(a, r1), config.takerFee) /\ s1.notional \in Finite
        /\ IsMarketRate(path[1], books[path[1].symbol], a, r1)
    BY <1>5, <1>6, <1>7, <1>9, <1>11
  <2> QED BY <2>3, <2>4 DEF IsEvaluation
<1>12. ASSUME NEW r1 \in Amounts, Trades(books, s0, 1, s1, r1),
              NEW r2 \in Amounts, Trades(books, s1, 2, s2, r2), Drops(books, s2, 3, s3)
       PROVE  IsEvaluation(path, config, books, a, ev)
  <2>1. /\ ev = Dropped(3, s2.notional)
        /\ CannotTrade(path[3], books[path[3].symbol], s2.notional)
    BY <1>5, <1>8, <1>12
  <2>2. /\ s1.notional = Times(Times(a, r1), config.takerFee) /\ s1.notional \in Finite
        /\ IsMarketRate(path[1], books[path[1].symbol], a, r1)
    BY <1>5, <1>6, <1>7, <1>9, <1>12
  <2>3. /\ s2.notional = Times(Times(s1.notional, r2), config.takerFee) /\ s2.notional \in Finite
        /\ IsMarketRate(path[2], books[path[2].symbol], s1.notional, r2)
    BY <1>5, <1>7, <1>9, <1>12
  <2> QED BY <2>1, <2>2, <2>3 DEF IsEvaluation
<1>13. ASSUME NEW r1 \in Amounts, Trades(books, s0, 1, s1, r1),
              NEW r2 \in Amounts, Trades(books, s1, 2, s2, r2),
              NEW r3 \in Amounts, Trades(books, s2, 3, s3, r3)
       PROVE  IsEvaluation(path, config, books, a, ev)
  <2>1. /\ s1.notional = Times(Times(a, r1), config.takerFee) /\ s1.notional \in Finite
        /\ IsMarketRate(path[1], books[path[1].symbol], a, r1)
        /\ s1.rates = Append(<<>>, r1)
    BY <1>5, <1>6, <1>7, <1>9, <1>13
  <2>2. /\ s2.notional = Times(Times(s1.notional, r2), config.takerFee) /\ s2.notional \in Finite
        /\ IsMarketRate(path[2], books[path[2].symbol], s1.notional, r2)
        /\ s2.rates = Append(s1.rates, r2)
    BY <1>5, <1>7, <1>9, <1>13
  <2>3. /\ s3.notional = Times(Times(s2.notional, r3), config.takerFee) /\ s3.notional \in Finite
        /\ IsMarketRate(path[3], books[path[3].symbol], s2.notional, r3)
        /\ s3.rates = Append(s2.rates, r3) /\ s3.dropped = 0
    BY <1>5, <1>7, <1>9, <1>13
  <2>4. s3.rates[1] = r1 /\ s3.rates[2] = r2 /\ s3.rates[3] = r3
    <3>1. s1.rates \in Seq(Finite) /\ Len(s1.rates) = 1 /\ s1.rates[1] = r1
      BY <1>7, <2>1, AmountTerms
    <3>2. /\ s2.rates \in Seq(Finite) /\ Len(s2.rates) = 2
          /\ s2.rates[1] = r1 /\ s2.rates[2] = r2
      BY <1>7, <2>2, <3>1, AmountTerms
    <3> QED BY <2>3, <3>2, AmountTerms
  <2>5. /\ ev.kind = "recorded" /\ ev.tradedNotional = a /\ ev.rates = s3.rates
        /\ ev.arbitrageOpportunity = AtMost(Times(a, config.profitThreshold), s3.notional)
    BY <1>4, <2>3 DEF Outcome
  <2>6. AtMost(Times(a, config.profitThreshold), s3.notional) <=>
          ~Less(s3.notional, Times(a, config.profitThreshold))
    BY <1>1, <2>3, FiniteClosed, OrderIsTotal
  <2> QED BY <2>1, <2>2, <2>3, <2>4, <2>5, <2>6 DEF IsEvaluation
<1>14. Drops(books, s0, 1, s1) \/ \E r1 \in Amounts : Trades(books, s0, 1, s1, r1)
  BY <1>3, <1>5, <1>6, LegOnType
<1>15. ASSUME NEW r1 \in Amounts, Trades(books, s0, 1, s1, r1)
       PROVE  Drops(books, s1, 2, s2) \/ \E r2 \in Amounts : Trades(books, s1, 2, s2, r2)
  BY <1>3, <1>5, <1>9, <1>15, LegOnType
<1>16. ASSUME NEW r2 \in Amounts, Trades(books, s1, 2, s2, r2)
       PROVE  Drops(books, s2, 3, s3) \/ \E r3 \in Amounts : Trades(books, s2, 3, s3, r3)
  BY <1>3, <1>5, <1>9, <1>16, LegOnType
<1> QED BY <1>2, <1>10, <1>11, <1>12, <1>13, <1>14, <1>15, <1>16

\* Once assigned, the sizing is a number.
SizedNumber == status = "running" /\ age >= 0 => startingNotional.notional \in Fractions

\* What the third kind of update does.
LEMMA EvaluatingUpdate ==
  ASSUME IInv, NEW s \in Symbols, NEW tick \in Ticks, on_update(s, tick),
         status' = "running", age' >= 0
  PROVE  /\ PathPresent(pairToPriceMap') /\ pairToPriceMap' \in PriceMaps
         /\ path \in Paths /\ config \in Configs /\ path' = path /\ config' = config
         /\ \/ startingNotional' = Size(pairToPriceMap')
            \/ age >= 0 /\ startingNotional' = startingNotional
         /\ result'.kind # "waiting" => result' = Evaluation(pairToPriceMap', startingNotional')
<1> DEFINE books == Put(pairToPriceMap, s, tick)
<1>1. /\ status = "running" /\ age \in -1..MaxAge /\ (age = -1 => ticksRemaining = 0)
      /\ path' = path /\ config' = config
      /\ pairToPriceMap' = books /\ pairToPriceMap' \in PriceMaps
  BY UpdateKeeps
<1>2. path \in Paths /\ config \in Configs
  BY DEF IInv, TypeOK
<1>3. CASE result' = Waiting /\ UNCHANGED <<startingNotional, age>>
  BY <1>1, <1>2, <1>3, UpdateKeeps DEF Waiting
<1>4. CASE /\ ~Throws(books) /\ recalcStartingNotional(books)
           /\ evaluate(books, startingNotional', age' >= 0)
  <2>1. PathPresent(books)
    BY <1>1, <1>4, SizingStep
  <2>2. result' = Evaluation(books, startingNotional')
    BY <1>4, <2>1 DEF evaluate
  <2>3. \/ startingNotional' = Size(books)
        \/ age >= 0 /\ startingNotional' = startingNotional
    <3>1. CASE ticksRemaining = 0
      BY <1>4, <2>1, <3>1 DEF recalcStartingNotional
    <3>2. CASE ticksRemaining # 0
      BY <1>1, <1>4, <3>2, AgeAssumption DEF recalcStartingNotional
    <3> QED BY <3>1, <3>2
  <2> QED BY <1>1, <1>2, <2>1, <2>2, <2>3
<1> QED BY <1>3, <1>4 DEF on_update

LEMMA InitSizedNumber == Init => SizedNumber
BY DEF Init, SizedNumber

LEMMA UpdateSizedNumber ==
  ASSUME IInv, SizedNumber, NEW s \in Symbols, NEW tick \in Ticks, on_update(s, tick)
  PROVE  SizedNumber'
<1> SUFFICES ASSUME status' = "running", age' >= 0 PROVE startingNotional'.notional \in Fractions
  BY DEF SizedNumber
<1>1. CASE startingNotional' = Size(pairToPriceMap')
  BY <1>1, EvaluatingUpdate, SizeOfSides, SizeOfFirstLevels DEF Size
<1>2. CASE age >= 0 /\ startingNotional' = startingNotional
  BY <1>2, UpdateKeeps DEF SizedNumber
<1> QED BY <1>1, <1>2, EvaluatingUpdate

\* The result is that of the books and the sizing the server has.
ResultOfBooks ==
  status = "running" /\ result.kind # "waiting" =>
    /\ age >= 0
    /\ IsEvaluation(path, config, pairToPriceMap,
                    Times(startingNotional.notional, config.maxStartingNotionalFraction), result)

LEMMA UpdateResults ==
  ASSUME IInv, SizedNumber, NEW s \in Symbols, NEW tick \in Ticks, on_update(s, tick)
  PROVE  ResultOfBooks'
<1> SUFFICES ASSUME status' = "running", result'.kind # "waiting"
             PROVE  /\ age' >= 0
                    /\ IsEvaluation(path', config', pairToPriceMap',
                                    Times(startingNotional'.notional,
                                          config'.maxStartingNotionalFraction), result')
  BY DEF ResultOfBooks
<1>1. age' >= 0
  BY OnUpdateCases, AgeAssumption DEF Waiting
<1>2. startingNotional'.notional \in Finite
  BY <1>1, UpdateSizedNumber, FractionsAreFinite DEF SizedNumber
<1>3. /\ result' = Evaluation(pairToPriceMap', startingNotional')
      /\ PathPresent(pairToPriceMap') /\ pairToPriceMap' \in PriceMaps
      /\ path \in Paths /\ config \in Configs /\ path' = path /\ config' = config
  BY <1>1, EvaluatingUpdate
<1> QED BY <1>1, <1>2, <1>3, EvaluationIs

LEMMA NextResults ==
  IInv /\ SizedNumber /\ ResultOfBooks /\ [Next]_vars => SizedNumber' /\ ResultOfBooks'
<1>1. ASSUME SizedNumber, ResultOfBooks, UNCHANGED vars
      PROVE  SizedNumber' /\ ResultOfBooks'
  BY <1>1 DEF vars, SizedNumber, ResultOfBooks
<1> QED BY <1>1, UpdateSizedNumber, UpdateResults DEF Next

\* A result is what the legs make, in turn, of the fraction of the sizing that
\* is traded.
THEOREM Evaluated == Spec => [](SizedNumber /\ ResultOfBooks)
<1>1. Init => SizedNumber /\ ResultOfBooks
  BY InitSizedNumber DEF Init, Waiting, ResultOfBooks
<1> QED BY <1>1, NextResults, Invariance, PTL DEF Spec

\* Whatever the age of the sizing, the three conversions of a recorded trade
\* are market orders that the books of the server fill at the recorded rates,
\* and its flag compares what it returns with what was asked for.
THEOREM RecordedExecutable == Spec => []RecordedTradeIsExecutable
<1>1. ResultOfBooks => RecordedTradeIsExecutable
  <2> SUFFICES ASSUME ResultOfBooks, status = "running", result.kind = "recorded"
               PROVE  RecordedTradeIsExecutable
    BY DEF RecordedTradeIsExecutable
  <2>1. PICK a : a = Times(startingNotional.notional, config.maxStartingNotionalFraction)
    OBVIOUS
  <2>2. IsEvaluation(path, config, pairToPriceMap, a, result)
    BY <2>1 DEF ResultOfBooks
  <2>3. PICK r1 \in Amounts, b \in Finite, r2 \in Amounts, d \in Finite, r3 \in Amounts :
          /\ IsMarketRate(path[1], pairToPriceMap[path[1].symbol], a, r1)
          /\ b = Times(Times(a, r1), config.takerFee)
          /\ IsMarketRate(path[2], pairToPriceMap[path[2].symbol], b, r2)
          /\ d = Times(Times(b, r2), config.takerFee)
          /\ IsMarketRate(path[3], pairToPriceMap[path[3].symbol], d, r3)
          /\ result.tradedNotional = a
          /\ result.rates[1] = r1 /\ result.rates[2] = r2 /\ result.rates[3] = r3
          /\ result.arbitrageOpportunity <=>
               ~Less(Times(Times(d, r3), config.takerFee), Times(a, config.profitThreshold))
    BY <2>2 DEF IsEvaluation, Dropped
  <2>4. ASSUME NEW i \in Legs, NEW x, NEW rate,
               IsMarketRate(path[i], pairToPriceMap[path[i].symbol], x, rate)
        PROVE  MarketOrder(i, x, Times(x, rate))
    BY <2>4 DEF IsMarketRate, IsMarketOrder, MarketOrder, Tangent, Side, LineOf
  <2>5. /\ MarketOrder(1, a, Times(a, r1)) /\ MarketOrder(2, b, Times(b, r2))
        /\ MarketOrder(3, d, Times(d, r3))
    BY <2>3, <2>4 DEF Legs
  <2> HIDE DEF MarketOrder
  <2> QED BY <2>3, <2>5 DEF RecordedTradeIsExecutable
<1> QED BY <1>1, Evaluated, PTL

-----------------------------------------------------------------------------
(* Trades of a fresh sizing.                                               *)

\* The levels that the sizing looked at, and how much leg i can put into them.
Sized(i) == IF config.useFirstLevelOnly THEN SubSeq(Side(i), 1, 1) ELSE Side(i)
Takes(i) == calculateBookSideValue(Sized(i), ~path[i].requiresInversion)

LEMMA SizedLevels ==
  ASSUME IInv, Fresh, NEW i \in Legs, Side(i) # <<>>
  PROVE  /\ path[i].requiresInversion \in BOOLEAN
         /\ Side(i) \in Seq(PriceLevels)
         /\ \A base \in BOOLEAN :
              LET worth == calculateBookSideValue(Sized(i), base)
              IN  /\ worth \in Amounts
                  /\ AtMost(worth, calculateBookSideValue(Side(i), base))
                  /\ config.useFirstLevelOnly => worth = Worth(Side(i)[1], base)
<1>1. path[i].requiresInversion \in BOOLEAN /\ Side(i) \in Seq(PriceLevels)
  <2>1. PathPresent(pairToPriceMap) /\ path \in Paths /\ pairToPriceMap \in PriceMaps
    BY DEF Fresh, IInv, TypeOK, SizingState, PriceMaps
  <2> QED BY <2>1, SidesOfBooks DEF Side
<1>2. PICK levels \in Seq(PriceLevels) : levels = Side(i) /\ levels # <<>>
  BY <1>1
<1>3. ASSUME NEW base \in BOOLEAN, config.useFirstLevelOnly
      PROVE  LET worth == calculateBookSideValue(SubSeq(levels, 1, 1), base)
             IN  /\ worth \in Amounts
                 /\ AtMost(worth, calculateBookSideValue(levels, base))
                 /\ worth = Worth(levels[1], base)
  <2>1. levels[1] \in PriceLevels
    BY <1>2
  <2> QED BY <1>2, <2>1, FirstLevelWorth, WorthIsAmount
<1>4. ASSUME NEW base \in BOOLEAN
      PROVE  LET worth == calculateBookSideValue(levels, base)
             IN  worth \in Amounts /\ AtMost(worth, worth)
  <2>1. calculateBookSideValue(levels, base) \in Amounts
    BY <1>2, SideValue, AmountsAreFractions
  <2> QED BY <2>1, AmountTerms, OrderIsTotal
<1> QED BY <1>1, <1>2, <1>3, <1>4 DEF Sized

\* The price that the sizing works with.
LEMMA SizingPrice ==
  ASSUME IInv, Fresh, NEW i \in Legs, Side(i) # <<>>
  PROVE  LET price == Over(calculateBookSideValue(Sized(i), FALSE),
                           calculateBookSideValue(Sized(i), TRUE))
         IN  /\ price \in Amounts
             /\ SizingRate(i) = AtPrice(path[i].requiresInversion, price)
             /\ SizingRate(i) \in Amounts
             /\ config.useFirstLevelOnly => price = Side(i)[1].price
<1>1. PICK quote \in Amounts, base \in Amounts :
        /\ quote = calculateBookSideValue(Sized(i), FALSE)
        /\ base = calculateBookSideValue(Sized(i), TRUE)
        /\ config.useFirstLevelOnly => /\ quote = Worth(Side(i)[1], FALSE)
                                       /\ base = Worth(Side(i)[1], TRUE)
  BY SizedLevels
<1>2. PICK price \in Amounts : price = Over(quote, base)
  BY AmountsClosed
<1>3. SizingRate(i) = AtPrice(path[i].requiresInversion, price)
  BY <1>1, <1>2 DEF SizingRate, Sized, AtPrice
<1>4. AtPrice(path[i].requiresInversion, price) \in Amounts
  BY ZeroIs, AmountsClosed DEF AtPrice
<1>5. ASSUME config.useFirstLevelOnly PROVE price = Side(i)[1].price
  <2>1. Side(i)[1] \in PriceLevels
    BY SizedLevels
  <2>2. PICK p \in Amounts, q \in Amounts : p = Side(i)[1].price /\ q = Side(i)[1].quantity
    BY <2>1 DEF PriceLevels
  <2>3. quote = Times(p, q) /\ base = q
    BY <1>1, <1>5, <2>2 DEF Worth
  <2>4. Times(p, q) = Times(q, p) /\ p \in Finite
    BY AmountTerms, TimesCommutes
  <2> QED BY <1>2, <2>2, <2>3, <2>4, TimesThenOver
<1> QED BY <1>1, <1>2, <1>3, <1>4, <1>5

\* What the sizing computes, in terms of these.
LEMMA SizingBounds ==
  ASSUME IInv, SizedOnBooks, Fresh, \A i \in Legs : Side(i) # <<>>
  PROVE  startingNotional =
           Least(Bounds(path, Takes(1),
                        Over(calculateBookSideValue(Sized(1), FALSE),
                             calculateBookSideValue(Sized(1), TRUE)),
                        Takes(2),
                        calculateBookSideValue(Sized(3), path[3].requiresInversion)))
<1>1. startingNotional = Size(pairToPriceMap) /\ 1 \in Legs /\ 2 \in Legs /\ 3 \in Legs
  BY DEF Fresh, SizedOnBooks, Legs
<1>2. CASE ~config.useFirstLevelOnly
  <2>1. startingNotional = calculateStartingNotional(path, pairToPriceMap)
    BY <1>1, <1>2 DEF Size
  <2>2. Sized(1) = Side(1) /\ Sized(2) = Side(2) /\ Sized(3) = Side(3)
    BY <1>2 DEF Sized
  <2> QED BY <2>1, <2>2 DEF calculateStartingNotional, Takes, Side
<1>3. CASE config.useFirstLevelOnly
  <2>1. startingNotional = calculateStartingNotionalWithFirstLevelOnly(path, pairToPriceMap)
    BY <1>1, <1>3 DEF Size
  <2>2. ASSUME NEW i \in Legs
        PROVE  /\ getBestQty(Side(i)) = calculateBookSideValue(Sized(i), TRUE)
               /\ Times(getBestQty(Side(i)), getBestPrice(Side(i)))
                    = calculateBookSideValue(Sized(i), FALSE)
               /\ getBestPrice(Side(i)) = Over(calculateBookSideValue(Sized(i), FALSE),
                                              calculateBookSideValue(Sized(i), TRUE))
    <3>1. Side(i)[1] \in PriceLevels
      BY SizedLevels
    <3>2. PICK p \in Amounts, q \in Amounts : p = Side(i)[1].price /\ q = Side(i)[1].quantity
      BY <3>1 DEF PriceLevels
    <3>3. getBestQty(Side(i)) = q /\ getBestPrice(Side(i)) = p
      BY <3>2 DEF getBestQty, getBestPrice
    <3>4. /\ calculateBookSideValue(Sized(i), TRUE) = q
          /\ calculateBookSideValue(Sized(i), FALSE) = Times(p, q)
      BY <1>3, <3>2, SizedLevels DEF Worth
    <3>5. Times(q, p) = Times(p, q)
      BY AmountTerms, TimesCommutes
    <3>6. p = Over(calculateBookSideValue(Sized(i), FALSE), calculateBookSideValue(Sized(i), TRUE))
      BY <1>3, <3>2, SizingPrice
    <3> QED BY <3>3, <3>4, <3>5, <3>6
  <2>3. ASSUME NEW i \in Legs
        PROVE  /\ (IF path[i].requiresInversion
                   THEN Times(getBestQty(Side(i)), getBestPrice(Side(i)))
                   ELSE getBestQty(Side(i))) = Takes(i)
               /\ (IF path[i].requiresInversion
                   THEN getBestQty(Side(i))
                   ELSE Times(getBestQty(Side(i)), getBestPrice(Side(i))))
                    = calculateBookSideValue(Sized(i), path[i].requiresInversion)
    <3>1. path[i].requiresInversion \in BOOLEAN
      BY SizedLevels
    <3>2. CASE path[i].requiresInversion
      <4>1. path[i].requiresInversion = TRUE /\ ~path[i].requiresInversion = FALSE
        BY <3>1, <3>2
      <4> QED BY <2>2, <4>1 DEF Takes
    <3>3. CASE ~path[i].requiresInversion
      <4>1. path[i].requiresInversion = FALSE /\ ~path[i].requiresInversion = TRUE
        BY <3>1, <3>3
      <4> QED BY <2>2, <4>1 DEF Takes
    <3> QED BY <3>2, <3>3
  <2>4. startingNotional =
          Least(Bounds(path,
                       IF path[1].requiresInversion
                       THEN Times(getBestQty(Side(1)), getBestPrice(Side(1)))
                       ELSE getBestQty(Side(1)),
                       getBestPrice(Side(1)),
                       IF path[2].requiresInversion
                       THEN Times(getBestQty(Side(2)), getBestPrice(Side(2)))
                       ELSE getBestQty(Side(2)),
                       IF path[3].requiresInversion
                       THEN getBestQty(Side(3))
                       ELSE Times(getBestQty(Side(3)), getBestPrice(Side(3)))))
    BY <2>1 DEF calculateStartingNotionalWithFirstLevelOnly, Side
  <2> QED BY <1>1, <2>2, <2>3, <2>4
<1> QED BY <1>2, <1>3

\* No leg is given more than it takes, at the prices of the sizing.
LEMMA SizingFits ==
  ASSUME IInv, SizedOnBooks, Fresh, \A i \in Legs : Side(i) # <<>>
  PROVE  LET notional == startingNotional.notional
         IN  /\ notional \in Amounts
             /\ AtMost(notional, Takes(1))
             /\ AtMost(Times(notional, SizingRate(1)), Takes(2))
             /\ AtMost(notional, Times(Takes(3), SizingRate(3)))
<1>1. 1 \in Legs /\ 2 \in Legs /\ 3 \in Legs /\ Legs = 1..3
  BY DEF Legs
<1>2. PICK price \in Amounts :
        /\ price = Over(calculateBookSideValue(Sized(1), FALSE),
                        calculateBookSideValue(Sized(1), TRUE))
        /\ SizingRate(1) = AtPrice(path[1].requiresInversion, price)
  BY <1>1, SizingPrice
<1>3. PICK first \in Amounts, second \in Amounts, third \in Amounts :
        /\ first = Takes(1) /\ second = Takes(2)
        /\ third = calculateBookSideValue(Sized(3), path[3].requiresInversion)
  <2>1. ASSUME NEW i \in Legs, NEW base \in BOOLEAN
        PROVE  calculateBookSideValue(Sized(i), base) \in Amounts
    BY SizedLevels
  <2>2. ASSUME NEW i \in Legs
        PROVE  path[i].requiresInversion \in BOOLEAN /\ (~path[i].requiresInversion) \in BOOLEAN
    BY SizedLevels
  <2> QED BY <1>1, <2>1, <2>2 DEF Takes
<1>4. PICK notional : notional = startingNotional.notional
  OBVIOUS
<1>5. PICK middle \in Amounts :
        /\ middle = IF path[1].requiresInversion THEN Times(second, price) ELSE Over(second, price)
        /\ notional \in Amounts
        /\ AtMost(notional, first) /\ AtMost(notional, middle) /\ AtMost(notional, third)
  <2>1. \A i \in 1..3 : path[i].requiresInversion \in BOOLEAN
    BY <1>1, SizedLevels
  <2>2. startingNotional = Least(Bounds(path, first, price, second, third))
    BY <1>2, <1>3, SizingBounds
  <2> QED BY <1>4, <2>1, <2>2, WithinBounds
<1>6. AtMost(Times(notional, SizingRate(1)), second)
  <2>1. Times(middle, SizingRate(1)) = second
    <3>1. second \in Finite
      BY AmountTerms
    <3>2. CASE path[1].requiresInversion
      <4>1. Times(second, price) = Times(price, second) /\ Times(second, price) \in Finite
        BY <3>1, AmountTerms, TimesCommutes, FiniteClosed
      <4>2. Times(Times(second, price), Over(One, price)) = second
        BY <3>1, <4>1, TimesInverse, TimesThenOver
      <4> QED BY <1>2, <1>5, <3>2, <4>2 DEF AtPrice
    <3>3. CASE ~path[1].requiresInversion
      <4>1. Times(Over(second, price), price) = Times(price, Over(second, price))
        BY <3>1, AmountTerms, FiniteClosed, TimesCommutes
      <4>2. Times(Over(second, price), price) = second
        BY <3>1, <4>1, OverThenTimes
      <4> QED BY <1>2, <1>5, <3>3, <4>2 DEF AtPrice
    <3> QED BY <3>2, <3>3
  <2>2. SizingRate(1) \in Amounts
    BY <1>1, SizingPrice
  <2>3. notional \in Finite /\ middle \in Finite
    BY <1>5, AmountTerms
  <2> QED BY <1>5, <2>1, <2>2, <2>3, TimesCancels
<1>7. Times(Takes(3), SizingRate(3)) = third
  <2>1. PICK quote \in Amounts, base \in Amounts :
          /\ quote = calculateBookSideValue(Sized(3), FALSE)
          /\ base = calculateBookSideValue(Sized(3), TRUE)
    BY <1>1, SizedLevels
  <2>2. SizingRate(3) = AtPrice(path[3].requiresInversion, Over(quote, base))
    BY <1>1, <2>1, SizingPrice
  <2>3. path[3].requiresInversion \in BOOLEAN
    BY <1>1, SizedLevels
  <2>4. CASE path[3].requiresInversion
    <3>1. Takes(3) = quote /\ third = base
      <4>1. path[3].requiresInversion = TRUE /\ ~path[3].requiresInversion = FALSE
        BY <2>3, <2>4
      <4> QED BY <1>3, <2>1, <4>1 DEF Takes
    <3> QED BY <2>2, <2>4, <3>1, PaidBack DEF AtPrice
  <2>5. CASE ~path[3].requiresInversion
    <3>1. Takes(3) = base /\ third = quote
      <4>1. path[3].requiresInversion = FALSE /\ ~path[3].requiresInversion = TRUE
        BY <2>3, <2>5
      <4> QED BY <1>3, <2>1, <4>1 DEF Takes
    <3>2. quote \in Finite
      BY AmountTerms
    <3> QED BY <2>2, <2>5, <3>1, <3>2, OverThenTimes DEF AtPrice
  <2> QED BY <2>4, <2>5
<1> QED BY <1>3, <1>4, <1>5, <1>6, <1>7

\* So does the fraction of it that is traded.
LEMMA TradedFits ==
  ASSUME IInv, SizedOnBooks, Fresh, WithinSizing, \A i \in Legs : Side(i) # <<>>,
         NEW a, a = Times(startingNotional.notional, config.maxStartingNotionalFraction)
  PROVE  /\ a \in Amounts
         /\ AtMost(a, Takes(1))
         /\ AtMost(Times(a, SizingRate(1)), Takes(2))
         /\ AtMost(a, Times(Takes(3), SizingRate(3)))
<1>1. PICK notional \in Amounts :
        /\ notional = startingNotional.notional
        /\ AtMost(notional, Takes(1))
        /\ AtMost(Times(notional, SizingRate(1)), Takes(2))
        /\ AtMost(notional, Times(Takes(3), SizingRate(3)))
  BY SizingFits
<1>2. /\ config.maxStartingNotionalFraction \in Finite
      /\ Less(Zero, config.maxStartingNotionalFraction)
      /\ AtMost(config.maxStartingNotionalFraction, One)
  BY FiniteAssumption DEF IInv, TypeOK, WithinSizing
<1>3. a \in Amounts /\ AtMost(a, notional)
  BY <1>1, <1>2, ScaledDown
<1>4. ASSUME NEW i \in Legs PROVE Takes(i) \in Amounts /\ SizingRate(i) \in Amounts
  <2>1. Takes(i) \in Amounts
    <3>1. path[i].requiresInversion \in BOOLEAN /\ (~path[i].requiresInversion) \in BOOLEAN
      BY SizedLevels
    <3> QED BY <3>1, SizedLevels DEF Takes
  <2> QED BY <2>1, SizingPrice
<1>5. PICK t1 \in Finite, t2 \in Finite, t3 \in Finite, r1 \in Amounts :
        /\ t1 = Takes(1) /\ t2 = Takes(2) /\ t3 = Times(Takes(3), SizingRate(3))
        /\ r1 = SizingRate(1)
  <2>1. 1 \in Legs /\ 2 \in Legs /\ 3 \in Legs
    BY DEF Legs
  <2> QED BY <1>4, <2>1, AmountsClosed, AmountTerms
<1>6. /\ a \in Finite /\ notional \in Finite
      /\ Times(a, r1) \in Finite /\ Times(notional, r1) \in Finite
  BY <1>3, AmountTerms, FiniteClosed
<1>7. AtMost(Times(a, r1), Times(notional, r1))
  BY <1>3, <1>6, TimesCancels
<1> QED BY <1>1, <1>3, <1>5, <1>6, <1>7, AtMostTransitive

\* A leg with a full book cannot trade an amount only if it is more than the
\* leg was sized for.
LEMMA TooMuch ==
  ASSUME IInv, Fresh, NEW i \in Legs, Side(i) # <<>>, NEW x \in Amounts,
         pairToPriceMap[path[i].symbol].bids # <<>>, pairToPriceMap[path[i].symbol].asks # <<>>,
         CannotTrade(path[i], pairToPriceMap[path[i].symbol], x)
  PROVE  Takes(i) \in Amounts /\ Less(Takes(i), x)
<1>1. PICK worth \in Amounts, whole \in Finite :
        /\ worth = Takes(i)
        /\ whole = calculateBookSideValue(Side(i), ~path[i].requiresInversion)
        /\ AtMost(worth, whole)
  <2>1. (~path[i].requiresInversion) \in BOOLEAN /\ Side(i) \in Seq(PriceLevels)
    BY SizedLevels
  <2>2. calculateBookSideValue(Side(i), ~path[i].requiresInversion) \in Finite
    BY <2>1, SideValue, FractionsAreFinite
  <2> QED BY <2>1, <2>2, SizedLevels DEF Takes
<1>2. x \in Finite /\ worth \in Finite /\ Zero \in Finite /\ ~AtMost(x, Zero)
  <2>1. x \in Finite /\ worth \in Finite /\ Zero \in Finite
    BY AmountTerms, ZeroPlus
  <2> QED BY <2>1, AmountIsPositive, OrderIsTotal
<1>3. ~AtMost(x, whole)
  BY <1>1, <1>2 DEF CannotTrade, Side
<1> QED BY <1>1, <1>2, <1>3, OrderIsTotal, LessTransitive

\* With a fresh sizing and full books, the update that is dropped is one that
\* the sizing had no room for because the market is better than it assumed.
THEOREM DropsFavourable == Spec => []FreshDropIsFavourable
<1>1. IInv /\ SizedOnBooks /\ ResultOfBooks => FreshDropIsFavourable
  <2> SUFFICES ASSUME IInv, SizedOnBooks, ResultOfBooks,
                      Fresh, BooksFull, WithinSizing, result.kind = "dropped",
                      NEW a, a = Times(startingNotional.notional,
                                       config.maxStartingNotionalFraction)
               PROVE  \/ result.leg = 2 /\ Less(Times(a, SizingRate(1)), result.amount)
                      \/ result.leg = 3 /\ Less(a, Times(result.amount, SizingRate(3)))
    BY DEF FreshDropIsFavourable
  <2>1. 1 \in Legs /\ 2 \in Legs /\ 3 \in Legs
    BY DEF Legs
  <2>2. ASSUME NEW i \in Legs
        PROVE  /\ pairToPriceMap[path[i].symbol].bids # <<>>
               /\ pairToPriceMap[path[i].symbol].asks # <<>>
               /\ Side(i) # <<>>
    BY DEF BooksFull, Side, Levels
  <2>3. /\ a \in Amounts /\ AtMost(a, Takes(1))
        /\ AtMost(Times(a, SizingRate(1)), Takes(2))
        /\ AtMost(a, Times(Takes(3), SizingRate(3)))
    BY <2>2, TradedFits
  <2>4. IsEvaluation(path, config, pairToPriceMap, a, result)
    BY DEF Fresh, ResultOfBooks
  <2>5. /\ config.takerFee \in Finite
        /\ Less(Zero, config.takerFee) /\ AtMost(config.takerFee, One)
    BY FiniteAssumption DEF IInv, TypeOK, WithinSizing
  <2>6. ASSUME NEW x \in Amounts, NEW rate \in Amounts
        PROVE  Times(Times(x, rate), config.takerFee) \in Amounts
    <3>1. Times(x, rate) \in Amounts
      BY AmountsClosed
    <3> QED BY <2>5, <3>1, ScaledDown
  <2>7. ASSUME NEW i \in Legs, NEW x \in Amounts, result = Dropped(i, x),
               CannotTrade(path[i], pairToPriceMap[path[i].symbol], x)
        PROVE  /\ result.leg = i /\ result.amount = x
               /\ Takes(i) \in Amounts /\ Less(Takes(i), x)
    <3>1. result.leg = i /\ result.amount = x
      BY <2>7 DEF Dropped
    <3>2. Takes(i) \in Amounts /\ Less(Takes(i), x)
      BY <2>2, <2>7, TooMuch
    <3> QED BY <3>1, <3>2
  <2>8. CASE result = Dropped(1, a) /\ CannotTrade(path[1], pairToPriceMap[path[1].symbol], a)
    <3>1. Takes(1) \in Finite /\ a \in Finite /\ Less(Takes(1), a)
      BY <2>1, <2>3, <2>7, <2>8, AmountTerms
    <3> QED BY <2>3, <3>1, OrderIsTotal
  <2>9. ASSUME NEW b \in Amounts, result = Dropped(2, b),
               CannotTrade(path[2], pairToPriceMap[path[2].symbol], b)
        PROVE  result.leg = 2 /\ Less(Times(a, SizingRate(1)), result.amount)
    <3>1. /\ result.leg = 2 /\ result.amount = b
          /\ Takes(2) \in Amounts /\ Less(Takes(2), b)
      BY <2>1, <2>7, <2>9
    <3>2. Takes(2) \in Finite /\ b \in Finite /\ Times(a, SizingRate(1)) \in Finite
      <4>1. SizingRate(1) \in Amounts
        BY <2>1, <2>2, SizingPrice
      <4> QED BY <2>3, <3>1, <4>1, AmountTerms, AmountsClosed
    <3> QED BY <2>3, <3>1, <3>2, LessTransitive
  <2>10. ASSUME NEW d \in Amounts, result = Dropped(3, d),
                CannotTrade(path[3], pairToPriceMap[path[3].symbol], d)
         PROVE  result.leg = 3 /\ Less(a, Times(result.amount, SizingRate(3)))
    <3>1. /\ result.leg = 3 /\ result.amount = d
          /\ Takes(3) \in Amounts /\ Less(Takes(3), d)
      BY <2>1, <2>7, <2>10
    <3>2. PICK r3 \in Amounts : r3 = SizingRate(3)
      BY <2>1, <2>2, SizingPrice
    <3>3. /\ a \in Finite /\ Takes(3) \in Finite /\ d \in Finite
          /\ Times(Takes(3), r3) \in Finite /\ Times(d, r3) \in Finite
      BY <2>3, <3>1, AmountTerms, AmountsClosed
    <3>4. Less(Times(Takes(3), r3), Times(d, r3))
      BY <3>1, <3>3, TimesCancels
    <3> QED BY <2>3, <3>1, <3>2, <3>3, <3>4, LessTransitive
  <2>11. \/ result = Dropped(1, a) /\ CannotTrade(path[1], pairToPriceMap[path[1].symbol], a)
         \/ \E r1 \in Amounts, b \in Finite :
              /\ b = Times(Times(a, r1), config.takerFee)
              /\ \/ /\ result = Dropped(2, b)
                    /\ CannotTrade(path[2], pairToPriceMap[path[2].symbol], b)
                 \/ \E r2 \in Amounts, d \in Finite :
                      /\ d = Times(Times(b, r2), config.takerFee)
                      /\ result = Dropped(3, d)
                      /\ CannotTrade(path[3], pairToPriceMap[path[3].symbol], d)
    BY <2>4 DEF IsEvaluation
  <2>12. CASE \E r1 \in Amounts, b \in Finite :
                /\ b = Times(Times(a, r1), config.takerFee)
                /\ \/ /\ result = Dropped(2, b)
                      /\ CannotTrade(path[2], pairToPriceMap[path[2].symbol], b)
                   \/ \E r2 \in Amounts, d \in Finite :
                        /\ d = Times(Times(b, r2), config.takerFee)
                        /\ result = Dropped(3, d)
                        /\ CannotTrade(path[3], pairToPriceMap[path[3].symbol], d)
    <3>1. PICK r1 \in Amounts, b \in Amounts :
            \/ /\ result = Dropped(2, b)
               /\ CannotTrade(path[2], pairToPriceMap[path[2].symbol], b)
            \/ \E r2 \in Amounts, d \in Finite :
                 /\ d = Times(Times(b, r2), config.takerFee)
                 /\ result = Dropped(3, d)
                 /\ CannotTrade(path[3], pairToPriceMap[path[3].symbol], d)
      BY <2>3, <2>6, <2>12
    <3>2. CASE /\ result = Dropped(2, b)
               /\ CannotTrade(path[2], pairToPriceMap[path[2].symbol], b)
      BY <2>9, <3>2
    <3>3. CASE \E r2 \in Amounts, d \in Finite :
                 /\ d = Times(Times(b, r2), config.takerFee)
                 /\ result = Dropped(3, d)
                 /\ CannotTrade(path[3], pairToPriceMap[path[3].symbol], d)
      <4>1. PICK d \in Amounts : /\ result = Dropped(3, d)
                                 /\ CannotTrade(path[3], pairToPriceMap[path[3].symbol], d)
        BY <2>6, <3>3
      <4> QED BY <2>10, <4>1
    <3> QED BY <3>1, <3>2, <3>3
  <2> QED BY <2>8, <2>11, <2>12
<1>2. Spec => []SizedOnBooks
  BY InitSizedOnBooks, NextSizedOnBooks, Invariance, PTL DEF Spec
<1> QED BY <1>1, <1>2, Evaluated, Invariance, PTL

\* What comes back when an amount goes through three rates and two fees.
LEMMA RoundTrip ==
  ASSUME NEW a \in Finite, NEW r1 \in Finite, NEW r2 \in Finite, NEW s \in Finite, NEW f \in Finite
  PROVE  Times(Times(Times(Times(Times(a, r1), f), r2), f), s)
           = Times(Times(Times(Times(r1, r2), s), Times(f, f)), a)
<1>1. PICK x \in Finite, ff \in Finite, r12 \in Finite, r \in Finite :
        x = Times(a, r1) /\ ff = Times(f, f) /\ r12 = Times(r1, r2) /\ r = Times(r12, s)
  BY FiniteClosed
<1>2. PICK y \in Finite : y = Times(x, r2)
  BY FiniteClosed
<1>3. Times(Times(x, f), r2) = Times(y, f)
  BY <1>2, TimesSwaps
<1>4. Times(Times(y, f), f) = Times(y, ff)
  BY <1>1, TimesAssociates
<1>5. Times(Times(y, ff), s) = Times(Times(y, s), ff)
  BY TimesSwaps
<1>6. y = Times(a, r12)
  BY <1>1, <1>2, TimesAssociates
<1>7. Times(y, s) = Times(a, r)
  BY <1>1, <1>6, TimesAssociates
<1>8. Times(Times(a, r), ff) = Times(a, Times(r, ff))
  BY TimesAssociates
<1>9. Times(a, Times(r, ff)) = Times(Times(r, ff), a) /\ Times(r, ff) \in Finite
  <2>1. Times(r, ff) \in Finite
    BY FiniteClosed
  <2> QED BY <2>1, TimesCommutes
<1> QED BY <1>1, <1>3, <1>4, <1>5, <1>7, <1>8, <1>9

\* Sized on the first level, the first two legs do not leave it, and the third
\* does only when the round trip at the best prices gains.
THEOREM FirstLevelFits == Spec => []FirstLevelSizingFits
<1>1. IInv /\ SizedOnBooks /\ ResultOfBooks => FirstLevelSizingFits
  <2> SUFFICES ASSUME IInv, SizedOnBooks, ResultOfBooks,
                      Fresh, config.useFirstLevelOnly, WithinSizing, result.kind = "recorded",
                      NEW a, a = Times(startingNotional.notional,
                                       config.maxStartingNotionalFraction)
               PROVE  /\ result.rates[1] = SizingRate(1)
                      /\ result.rates[2] = SizingRate(2)
                      /\ \/ result.rates[3] = SizingRate(3)
                         \/ Less(One, Times(Times(Times(SizingRate(1), SizingRate(2)),
                                                  SizingRate(3)),
                                            Times(config.takerFee, config.takerFee)))
    BY DEF FirstLevelSizingFits
  <2>1. 1 \in Legs /\ 2 \in Legs /\ 3 \in Legs /\ Legs = 1..3
    BY DEF Legs
  <2>2. IsEvaluation(path, config, pairToPriceMap, a, result)
    BY DEF Fresh, ResultOfBooks
  <2>3. PICK r1 \in Amounts, b \in Finite, r2 \in Amounts, d \in Finite, r3 \in Amounts :
          /\ IsMarketRate(path[1], pairToPriceMap[path[1].symbol], a, r1)
          /\ b = Times(Times(a, r1), config.takerFee)
          /\ IsMarketRate(path[2], pairToPriceMap[path[2].symbol], b, r2)
          /\ d = Times(Times(b, r2), config.takerFee)
          /\ IsMarketRate(path[3], pairToPriceMap[path[3].symbol], d, r3)
          /\ result.rates[1] = r1 /\ result.rates[2] = r2 /\ result.rates[3] = r3
    BY <2>2 DEF IsEvaluation, Dropped
  <2>4. \A i \in Legs : Side(i) # <<>>
    <3>1. ASSUME NEW i \in Legs, NEW x, NEW rate,
                 IsMarketRate(path[i], pairToPriceMap[path[i].symbol], x, rate)
          PROVE  Side(i) # <<>>
      BY <3>1 DEF IsMarketRate, Side, Levels
    <3> QED BY <2>1, <2>3, <3>1
  <2>5. /\ a \in Amounts /\ AtMost(a, Takes(1))
        /\ AtMost(Times(a, SizingRate(1)), Takes(2))
        /\ AtMost(a, Times(Takes(3), SizingRate(3)))
    BY <2>4, TradedFits
  <2>6. ASSUME NEW i \in Legs, NEW x \in Amounts, NEW rate \in Amounts, AtMost(x, Takes(i)),
               IsMarketRate(path[i], pairToPriceMap[path[i].symbol], x, rate)
        PROVE  rate = SizingRate(i)
    <3>1. PICK levels \in Seq(PriceLevels), buying \in BOOLEAN :
            /\ levels = Side(i) /\ buying = path[i].requiresInversion /\ levels # <<>>
            /\ (~buying) \in BOOLEAN
      BY <2>4, SizedLevels
    <3>2. InOrder(levels, buying)
      <4>1. pairToPriceMap[path[i].symbol] \in Ticks
        BY DEF Fresh, IInv, TypeOK, SizingState, PathPresent
      <4>2. CASE buying
        <5>1. levels = pairToPriceMap[path[i].symbol].asks /\ buying = TRUE
          BY <3>1, <4>2 DEF Side, Levels
        <5> QED BY <4>1, <5>1, OrderAssumption
      <4>3. CASE ~buying
        <5>1. levels = pairToPriceMap[path[i].symbol].bids /\ buying = FALSE
          BY <3>1, <4>3 DEF Side, Levels
        <5> QED BY <4>1, <5>1, OrderAssumption
      <4> QED BY <4>2, <4>3
    <3>3. AtMost(x, Worth(levels[1], ~buying))
      BY <2>4, <2>6, <3>1, SizedLevels DEF Takes
    <3>4. IsMarketOrder(levels, buying, x, Times(x, rate))
      BY <2>6, <3>1 DEF IsMarketRate, Side
    <3>5. rate = AtPrice(buying, levels[1].price)
      BY <3>1, <3>2, <3>3, <3>4, FilledOnFirstLevel
    <3> QED BY <2>4, <3>1, <3>5, SizingPrice
  <2>7. r1 = SizingRate(1)
    BY <2>1, <2>3, <2>5, <2>6
  <2>8. PICK f \in Finite : f = config.takerFee /\ Less(Zero, f) /\ AtMost(f, One) /\ f \in Amounts
    BY FiniteAssumption, AmountIsPositive DEF IInv, TypeOK, WithinSizing
  <2>9. ASSUME NEW i \in Legs
        PROVE  /\ Takes(i) \in Amounts /\ Takes(i) \in Finite
               /\ SizingRate(i) \in Amounts /\ SizingRate(i) \in Finite
    <3>1. Takes(i) \in Amounts
      <4>1. path[i].requiresInversion \in BOOLEAN /\ (~path[i].requiresInversion) \in BOOLEAN
        BY <2>4, SizedLevels
      <4> QED BY <2>4, <4>1, SizedLevels DEF Takes
    <3> QED BY <2>4, <3>1, SizingPrice, AmountTerms
  <2>10. r2 = SizingRate(2)
    <3>1. Times(a, r1) \in Amounts /\ Times(a, r1) \in Finite
      BY <2>5, AmountsClosed, AmountTerms
    <3>2. b \in Amounts /\ AtMost(b, Times(a, r1))
      BY <2>3, <2>8, <3>1, ScaledDown
    <3>3. AtMost(b, Takes(2))
      BY <2>1, <2>3, <2>5, <2>7, <2>9, <3>1, <3>2, AtMostTransitive
    <3> QED BY <2>1, <2>3, <2>6, <3>2, <3>3
  <2>11. d \in Amounts
    BY <2>3 DEF IsMarketRate
  <2>12. CASE AtMost(d, Takes(3))
    BY <2>1, <2>3, <2>6, <2>7, <2>10, <2>11, <2>12
  <2>13. CASE ~AtMost(d, Takes(3))
    <3>1. PICK s \in Amounts : s = SizingRate(3) /\ s \in Finite
      BY <2>1, <2>9
    <3>2. Less(a, Times(d, s))
      <4>1. Less(Takes(3), d)
        BY <2>1, <2>3, <2>9, <2>13, OrderIsTotal
      <4>2. Less(Times(Takes(3), s), Times(d, s))
        BY <2>1, <2>3, <2>9, <4>1, TimesCancels
      <4>3. a \in Finite /\ Times(Takes(3), s) \in Finite /\ Times(d, s) \in Finite
        BY <2>1, <2>3, <2>5, <2>9, <3>1, AmountTerms, FiniteClosed
      <4> QED BY <2>5, <3>1, <4>2, <4>3, LessTransitive
    <3>3. Times(d, s) = Times(Times(Times(Times(r1, r2), s), Times(f, f)), a)
      BY <2>3, <2>5, <2>8, <3>1, AmountTerms, RoundTrip
    <3>4. PICK gain \in Finite : gain = Times(Times(Times(r1, r2), s), Times(f, f))
      <4>1. r1 \in Finite /\ r2 \in Finite
        BY AmountTerms
      <4>2. Times(Times(r1, r2), s) \in Finite /\ Times(f, f) \in Finite
        BY <2>8, <3>1, <4>1, FiniteClosed
      <4> QED BY <4>2, FiniteClosed
    <3>5. Times(One, a) = a /\ One \in Finite /\ a \in Finite
      BY <2>5, AmountTerms, ZeroIs, TimesOne
    <3>6. Less(One, gain)
      BY <2>5, <3>2, <3>3, <3>4, <3>5, TimesCancels
    <3> QED BY <2>3, <2>7, <2>8, <2>10, <3>1, <3>4, <3>6
  <2> QED BY <2>12, <2>13
<1>2. Spec => []SizedOnBooks
  BY InitSizedOnBooks, NextSizedOnBooks, Invariance, PTL DEF Spec
<1> QED BY <1>1, <1>2, Evaluated, Invariance, PTL
=============================================================================
