-------------------------- MODULE ArbitrageServer --------------------------
(***************************************************************************)
(* The server: it keeps the latest order book of every symbol it hears of, *)
(* sizes a trade along the configured triangular path every so many        *)
(* updates, and walks through the three legs on every update.              *)
(*                                                                         *)
(* Ticks are counted in halves (the code's counter is a double that is     *)
(* decremented by one and compared with zero, and the interval it starts   *)
(* from may be any double).                                                *)
(*                                                                         *)
(* A definition whose name starts with Slip is a plausible mistake in the  *)
(* definition that follows it and is used nowhere else.                    *)
(***************************************************************************)
EXTENDS ArbitrageCalculator, FiniteSets

CONSTANTS
  Symbols,  \* the streams the client subscribed to
  Ticks,    \* order books [bids, asks] that an update may bring
  Paths,    \* the paths an operator may configure
  Configs,  \* the ServerConfigs an operator may choose
  MaxAge    \* bound: updates evaluated with one sizing

Legs == 1..3

ASSUME PathAssumption ==
  Paths \subseteq [Legs -> [symbol : STRING, requiresInversion : BOOLEAN]]

ASSUME SymbolsAssumption == IsFiniteSet(Symbols)

ASSUME LevelsAssumption ==
  \A tick \in Ticks : tick.bids \in Seq(PriceLevels) /\ tick.asks \in Seq(PriceLevels)

\* order_book.h: bids are "sorted from highest bid price to lowest", asks
\* "from lowest ask price to highest".
ASSUME OrderAssumption ==
  \A tick \in Ticks : InOrder(tick.bids, FALSE) /\ InOrder(tick.asks, TRUE)

\* What an operator configures are numbers, of any sign.
ASSUME FiniteAssumption ==
  \A c \in Configs : {c.takerFee, c.profitThreshold, c.maxStartingNotionalFraction} \subseteq Finite

ASSUME IntervalAssumption == \A c \in Configs : c.interval \in Int

ASSUME AgeAssumption == MaxAge \in Nat

\* startingNotional.notional before its first assignment: the constructors
\* do not initialise it.
Indeterminate == [notional |-> NaN, bottleneckLeg |-> "indeterminate"]

VARIABLES
  path,              \* the configured path
  config,            \* the configuration
  pairToPriceMap,    \* the latest tick of every symbol heard of
  ticksRemaining,    \* ticksRemainingBeforeRecalc, in halves
  startingNotional,  \* the sizing: a notional and the leg that bounds it
  currentNotional,   \* what the last opportunity would have returned
  status,            \* "running", "terminated" (an exception left main) or
                     \* "undefined" (undefined behaviour)
  result,            \* history: what the last on_update came to
  age                \* history: evaluations since startingNotional was
                     \* assigned, -1 while it never was

vars == <<path, config, pairToPriceMap, ticksRemaining, startingNotional,
          currentNotional, status, result, age>>

\* What an on_update comes to: it waits for more symbols, drops the update at
\* a leg that cannot take the amount left for it, or records a result.
Waiting == [kind |-> "waiting"]
Dropped(i, amount) == [kind |-> "dropped", leg |-> i, amount |-> amount]

Init ==
  /\ path \in Paths
  /\ config \in Configs
  /\ pairToPriceMap = [s \in {} |-> {}]
  /\ ticksRemaining = 0
  /\ startingNotional = Indeterminate
  /\ currentNotional = Zero
  /\ status = "running"
  /\ result = Waiting
  /\ age = -1

-----------------------------------------------------------------------------
(* The parts of on_update.                                                 *)

SlipPut(f, s, tick) == [x \in DOMAIN f \cup {s} |-> IF x \in DOMAIN f THEN f[x] ELSE tick]

SlipPutThree(f, s, tick) ==
  LET others == DOMAIN f \ {s}
      kept   == IF Cardinality(others) < 3 THEN others
                ELSE others \ {CHOOSE x \in others : TRUE}
  IN  [x \in kept \cup {s} |-> IF x = s THEN tick ELSE f[x]]

\* insert_or_assign
Put(f, s, tick) == [x \in DOMAIN f \cup {s} |-> IF x = s THEN tick ELSE f[x]]

PathPresent(books) == \A i \in Legs : path[i].symbol \in DOMAIN books

Size(books) == IF config.useFirstLevelOnly
               THEN calculateStartingNotionalWithFirstLevelOnly(path, books)
               ELSE calculateStartingNotional(path, books)

SlipThrows(books) == FALSE

\* at() throws when a symbol of the path is missing.
Throws(books) == ticksRemaining = 0 /\ ~PathPresent(books)

SlipCountUp(books) ==
  IF ticksRemaining = 0
  THEN /\ ticksRemaining' = config.interval
       /\ IF PathPresent(books)
          THEN startingNotional' = Size(books) /\ age' = 0
          ELSE UNCHANGED <<startingNotional, age>>
  ELSE ticksRemaining' = ticksRemaining + 2 /\ age' = age + 1 /\ UNCHANGED startingNotional

SlipDueWhenPassed(books) ==
  IF ticksRemaining <= 0
  THEN /\ ticksRemaining' = config.interval
       /\ IF PathPresent(books)
          THEN startingNotional' = Size(books) /\ age' = 0
          ELSE UNCHANGED <<startingNotional, age>>
  ELSE ticksRemaining' = ticksRemaining - 2 /\ age' = age + 1 /\ UNCHANGED startingNotional

\* The counter is set before the sizing can throw.
recalcStartingNotional(books) ==
  IF ticksRemaining = 0
  THEN /\ ticksRemaining' = config.interval
       /\ IF PathPresent(books)
          THEN startingNotional' = Size(books) /\ age' = 0
          ELSE UNCHANGED <<startingNotional, age>>
  ELSE ticksRemaining' = ticksRemaining - 2 /\ age' = age + 1 /\ UNCHANGED startingNotional

\* One iteration of the loop over the legs: leg i trades what the legs before
\* it left at this rate, unless one of them was dropped (0: none was).
TradeLeg(s, i, rate) ==
  IF s.dropped # 0 THEN s
  ELSE IF AtMost(rate, Zero) THEN [s EXCEPT !.dropped = i]
  ELSE [s EXCEPT !.rates = Append(@, rate),
                 !.notional = Times(Times(@, rate), config.takerFee)]

TradeLegs(books, initialNotional) ==
  FoldLeft(LAMBDA s, i : TradeLeg(s, i, getEffectiveRate(path[i], books[path[i].symbol],
                                                         s.notional)),
           [notional |-> initialNotional, rates |-> <<>>, dropped |-> 0],
           <<1, 2, 3>>)

\* Nothing that cannot be traded along the whole path is recorded.
Outcome(initialNotional, bottleneckLeg, s) ==
  IF s.dropped # 0 THEN Dropped(s.dropped, s.notional)
  ELSE [kind |-> "recorded", rates |-> s.rates,
        tradedNotional |-> initialNotional, newNotional |-> s.notional,
        bottleneckLeg |-> bottleneckLeg,
        arbitrageOpportunity |->
          AtMost(Times(initialNotional, config.profitThreshold), s.notional)]

Evaluation(books, sizing) ==
  LET initialNotional == Times(sizing.notional, config.maxStartingNotionalFraction)
  IN  Outcome(initialNotional, sizing.bottleneckLeg, TradeLegs(books, initialNotional))

\* Reading an indeterminate notional, or the tick behind the end iterator of a
\* find() that found nothing, is undefined behaviour.
evaluate(books, sizing, assigned) ==
  IF ~assigned \/ ~PathPresent(books)
  THEN status' = "undefined" /\ UNCHANGED <<currentNotional, result>>
  ELSE /\ result' = Evaluation(books, sizing)
       /\ currentNotional' =
            IF result'.kind = "recorded" /\ result'.arbitrageOpportunity
            THEN result'.newNotional ELSE currentNotional
       /\ UNCHANGED status

-----------------------------------------------------------------------------
\* The exception that Throws announces leaves on_update, the client's handler
\* and main.
on_update(symbol, tick) ==
  LET books == Put(pairToPriceMap, symbol, tick) IN
  /\ status = "running" /\ age < MaxAge
  /\ pairToPriceMap' = books
  /\ \/ /\ Cardinality(DOMAIN books) < 3
        /\ result' = Waiting
        /\ UNCHANGED <<ticksRemaining, startingNotional, currentNotional, status, age>>
     \/ /\ Cardinality(DOMAIN books) >= 3 /\ Throws(books)
        /\ recalcStartingNotional(books)
        /\ status' = "terminated"
        /\ UNCHANGED <<currentNotional, result>>
     \/ /\ Cardinality(DOMAIN books) >= 3 /\ ~Throws(books)
        /\ recalcStartingNotional(books)
        /\ evaluate(books, startingNotional', age' >= 0)
  /\ UNCHANGED <<path, config>>

Next == \E symbol \in Symbols, tick \in Ticks : on_update(symbol, tick)

Spec == Init /\ [][Next]_vars

TypeOK ==
  /\ path \in Paths
  /\ config \in Configs
  /\ pairToPriceMap \in UNION {[D -> Ticks] : D \in SUBSET Symbols}
  /\ ticksRemaining \in Int /\ (ticksRemaining > 0 => ticksRemaining <= config.interval)
  /\ status \in {"running", "terminated", "undefined"}
  /\ result.kind \in {"waiting", "dropped", "recorded"}
  /\ age \in -1..MaxAge

-----------------------------------------------------------------------------
(* Properties.                                                             *)

\* The server never reads a notional that was not computed, nor the tick of
\* a symbol it never heard of: until the three symbols of the path are there
\* it either waits or dies of the exception in the sizing.
NoUndefinedBehaviour == status # "undefined"

\* A trade is sized on the first evaluation and then again after exactly the
\* configured number of evaluations; with an interval that is not a whole
\* number, or is negative, it is never sized again.
SizedOnSchedule ==
  [][age' >= 0 => (age' = 0 <=> age = -1 \/ 2 * age = config.interval)]_vars

\* The book side that leg i trades on.
Side(i) == Levels(path[i], pairToPriceMap[path[i].symbol])

\* What trading amount would bring if level k's price held beyond the levels
\* before it.  The smallest over all k is the proceeds of a market order.
Tangent(i, k, amount) ==
  LET better == SubSeq(Side(i), 1, k - 1)
      base   == calculateBookSideValue(better, TRUE)
      quote  == calculateBookSideValue(better, FALSE)
  IN  IF path[i].requiresInversion
      THEN Plus(base, Over(Minus(amount, quote), Side(i)[k].price))
      ELSE Plus(quote, Times(Minus(amount, base), Side(i)[k].price))

MarketOrder(i, amount, proceeds) ==
  /\ AtMost(amount, calculateBookSideValue(Side(i), ~path[i].requiresInversion))
  /\ \E k \in DOMAIN Side(i) : proceeds = Tangent(i, k, amount)
  /\ \A k \in DOMAIN Side(i) : AtMost(proceeds, Tangent(i, k, amount))

\* Whatever the age of the sizing, a recorded trade can be executed on the
\* books the server has now, at the recorded rates, and it is flagged as an
\* opportunity exactly when it returns the profit asked for.
RecordedTradeIsExecutable ==
  status = "running" /\ result.kind = "recorded" =>
    LET amount1   == result.tradedNotional
        proceeds1 == Times(amount1, result.rates[1])
        amount2   == Times(proceeds1, config.takerFee)
        proceeds2 == Times(amount2, result.rates[2])
        amount3   == Times(proceeds2, config.takerFee)
        proceeds3 == Times(amount3, result.rates[3])
    IN  /\ MarketOrder(1, amount1, proceeds1)
        /\ MarketOrder(2, amount2, proceeds2)
        /\ MarketOrder(3, amount3, proceeds3)
        /\ result.arbitrageOpportunity <=>
             ~Less(Times(proceeds3, config.takerFee),
                   Times(amount1, config.profitThreshold))

\* The sizing was computed by the last on_update.
Fresh == status = "running" /\ age = 0 /\ result.kind # "waiting"

\* A fresh sizing is a number even when book sides are empty, and it is zero
\* exactly when a side that the path trades on is empty.
SizedZeroIffSideEmpty ==
  Fresh => /\ IsFinite(startingNotional.notional)
           /\ (startingNotional.notional = Zero) <=> \E i \in Legs : Side(i) = <<>>

BooksFull ==
  \A i \in Legs : LET tick == pairToPriceMap[path[i].symbol]
                  IN  tick.bids # <<>> /\ tick.asks # <<>>

\* Leg i's conversion rate at the price the sizing works with: the best
\* price, or the average over the whole side.
SizingRate(i) ==
  LET levels == IF config.useFirstLevelOnly THEN SubSeq(Side(i), 1, 1) ELSE Side(i)
      price  == Over(calculateBookSideValue(levels, FALSE),
                     calculateBookSideValue(levels, TRUE))
  IN  IF path[i].requiresInversion THEN Over(One, price) ELSE price

\* What is traded stays within the sizing: at most all of it is asked for, and
\* a leg pays a fee or nothing.  The code checks neither.
WithinSizing ==
  \A factor \in {config.maxStartingNotionalFraction, config.takerFee} :
    Less(Zero, factor) /\ AtMost(factor, One)

\* With a fresh sizing and no empty side, an update is dropped only because
\* the market is better than the sizing assumed: the second leg cannot take
\* what the first leg pays out above its average, or the third cannot take
\* what a profitable round trip brings.  In the second case the update that
\* goes unrecorded is an opportunity (before the last fee).
FreshDropIsFavourable ==
  Fresh /\ BooksFull /\ WithinSizing /\ result.kind = "dropped" =>
    LET initial == Times(startingNotional.notional, config.maxStartingNotionalFraction)
    IN  \/ result.leg = 2 /\ Less(Times(initial, SizingRate(1)), result.amount)
        \/ result.leg = 3 /\ Less(initial, Times(result.amount, SizingRate(3)))

\* Sized on the first level, the first two legs fill at the best price, and
\* the third leaves it only when the round trip at best prices gains.
FirstLevelSizingFits ==
  Fresh /\ config.useFirstLevelOnly /\ WithinSizing /\ result.kind = "recorded" =>
    /\ result.rates[1] = SizingRate(1)
    /\ result.rates[2] = SizingRate(2)
    /\ \/ result.rates[3] = SizingRate(3)
       \/ Less(One, Times(Times(Times(SizingRate(1), SizingRate(2)), SizingRate(3)),
                          Times(config.takerFee, config.takerFee)))
=============================================================================
