------------------------ MODULE ArbitrageCalculator ------------------------
(***************************************************************************)
(* The pure part of the server: what an amount fetches on one side of an   *)
(* order book, and how much of the start currency a triangular path can    *)
(* take.                                                                   *)
(*                                                                         *)
(* A level is a record [price, quantity] of doubles, a book side a         *)
(* sequence of levels with the best price first, a tick a record           *)
(* [bids, asks], a leg a record [symbol, requiresInversion], and a path a  *)
(* sequence of three legs.  A leg that requires inversion pays in quote    *)
(* currency and buys from the asks; any other leg sells base currency to   *)
(* the bids.                                                               *)
(*                                                                         *)
(* Without rounding the tolerances called EPSILON in the code are zero.    *)
(* A definition whose name starts with Slip is a plausible mistake in the  *)
(* definition that follows it and is used nowhere else.                    *)
(***************************************************************************)
EXTENDS Doubles, Sequences, SequencesExt

\* An exchange lists a price at which there is something to trade.
PriceLevels == [price : Amounts, quantity : Amounts]

\* The best price comes first: the lowest to buy at, the highest to sell at.
InOrder(levels, buying) ==
  \A k \in 1..(Len(levels) - 1) :
    IF buying THEN AtMost(levels[k].price, levels[k + 1].price)
              ELSE AtMost(levels[k + 1].price, levels[k].price)

-----------------------------------------------------------------------------
(* Volume weighted average prices.                                         *)

smaller(x, y) == IF Less(y, x) THEN y ELSE x

SlipCalculateVwapBid(levels, desired_quantity) ==
  LET Fill(s, level) ==
        IF AtMost(s.remaining, Zero) THEN s
        ELSE LET fill == smaller(level.quantity, s.remaining)
             IN  [value     |-> Plus(s.value, Times(level.price, fill)),
                  remaining |-> Minus(s.remaining, fill)]
      sold == FoldLeft(Fill, [value |-> Zero, remaining |-> desired_quantity], levels)
  IN  IF AtMost(desired_quantity, Zero) THEN Zero
      ELSE Over(sold.value, Minus(desired_quantity, sold.remaining))

\* The average price for selling desired_quantity to the bids, 0 if they do
\* not take all of it.
calculateVwapBid(levels, desired_quantity) ==
  LET Fill(s, level) ==
        IF AtMost(s.remaining, Zero) THEN s
        ELSE LET fill == smaller(level.quantity, s.remaining)
             IN  [value     |-> Plus(s.value, Times(level.price, fill)),
                  filled    |-> Plus(s.filled, fill),
                  remaining |-> Minus(s.remaining, fill)]
      sold == FoldLeft(Fill, [value |-> Zero, filled |-> Zero,
                              remaining |-> desired_quantity], levels)
  IN  IF \/ AtMost(desired_quantity, Zero)
         \/ Less(sold.filled, desired_quantity)
         \/ AtMost(sold.filled, Zero)
      THEN Zero
      ELSE Over(sold.value, sold.filled)

SlipCalculateVwapAsk(levels, old_currency) ==
  LET Buy(s, level) ==
        LET cost == Times(level.price, level.quantity)
        IN  IF AtMost(cost, s.remaining)
            THEN [acquired |-> Plus(s.acquired, level.quantity),
                  spent    |-> Plus(s.spent, cost), remaining |-> s.remaining]
            ELSE [acquired |-> Plus(s.acquired, Over(s.remaining, level.price)),
                  spent    |-> Plus(s.spent, s.remaining), remaining |-> Zero]
      bought == FoldLeft(Buy, [acquired |-> Zero, spent |-> Zero,
                               remaining |-> old_currency], levels)
  IN  IF Less(Zero, bought.acquired) /\ AtMost(bought.remaining, Zero)
      THEN Over(bought.spent, bought.acquired)
      ELSE Zero

\* The average price for spending old_currency on the asks, 0 if they do not
\* take all of it.
calculateVwapAsk(levels, old_currency) ==
  LET Buy(s, level) ==
        LET cost == Times(level.price, level.quantity)
        IN  IF AtMost(s.remaining, Zero) THEN s
            ELSE IF AtMost(cost, s.remaining)
            THEN [acquired  |-> Plus(s.acquired, level.quantity),
                  spent     |-> Plus(s.spent, cost),
                  remaining |-> Minus(s.remaining, cost)]
            ELSE [acquired  |-> Plus(s.acquired, Over(s.remaining, level.price)),
                  spent     |-> Plus(s.spent, s.remaining),
                  remaining |-> Zero]
      bought == FoldLeft(Buy, [acquired |-> Zero, spent |-> Zero,
                               remaining |-> old_currency], levels)
  IN  IF \/ AtMost(old_currency, Zero)
         \/ ~Less(Zero, bought.acquired)
         \/ ~AtMost(bought.remaining, Zero)
      THEN Zero
      ELSE Over(bought.spent, bought.acquired)

SlipGetEffectiveRate(leg, tick, notional) ==
  IF leg.requiresInversion
  THEN IF tick.asks = <<>> THEN Zero ELSE Over(One, tick.asks[1].price)
  ELSE IF tick.bids = <<>> THEN Zero ELSE tick.bids[1].price

\* A leg converts at its price, or at the inverse; without a price it cannot
\* be traded.
Conversion(leg, price) ==
  IF ~Less(Zero, price) THEN Zero
  ELSE IF leg.requiresInversion THEN Over(One, price) ELSE price

\* Units of the next currency per unit of the previous one; 0 if the leg
\* cannot be traded.
getEffectiveRate(leg, tick, notional) ==
  IF AtMost(notional, Zero) \/ tick.bids = <<>> \/ tick.asks = <<>> THEN Zero
  ELSE Conversion(leg, IF leg.requiresInversion THEN calculateVwapAsk(tick.asks, notional)
                                                ELSE calculateVwapBid(tick.bids, notional))

-----------------------------------------------------------------------------
(* The starting notional: what each leg can take, in the start currency.   *)

getBestPrice(levels) == IF levels = <<>> THEN Zero ELSE levels[1].price
getBestQty(levels)   == IF levels = <<>> THEN Zero ELSE levels[1].quantity

\* The side of the book that the leg trades on.
Levels(leg, tick) == IF leg.requiresInversion THEN tick.asks ELSE tick.bids

calculateBookSideValue(levels, sumBaseQuantity) ==
  LET Add(sum, level) ==
        Plus(sum, IF sumBaseQuantity THEN level.quantity
                                     ELSE Times(level.price, level.quantity))
  IN  FoldLeft(Add, Zero, levels)

\* std::min of an initializer list: the first of the smallest; a NaN is
\* replaced by nothing and replaces nothing.
Least(bounds) ==
  LET Smaller(a, b) == IF Less(b.notional, a.notional) THEN b ELSE a
  IN  FoldLeft(Smaller, bounds[1], bounds)

SlipBoundsOrder(path, first, price1, second, third) ==
  << [notional |-> IF path[1].requiresInversion THEN Times(second, price1)
                                                ELSE Over(second, price1),
      bottleneckLeg |-> path[2].symbol],
     [notional |-> first, bottleneckLeg |-> path[1].symbol],
     [notional |-> third, bottleneckLeg |-> path[3].symbol] >>

SlipBoundsConversion(path, first, price1, second, third) ==
  << [notional |-> first, bottleneckLeg |-> path[1].symbol],
     [notional |-> Times(second, price1), bottleneckLeg |-> path[2].symbol],
     [notional |-> third, bottleneckLeg |-> path[3].symbol] >>

\* The first leg bounds the start currency by what its side takes, the second
\* by what its side takes at the first leg's price, the third by what its
\* side pays out.
Bounds(path, first, price1, second, third) ==
  << [notional |-> first, bottleneckLeg |-> path[1].symbol],
     [notional |-> IF path[1].requiresInversion THEN Times(second, price1)
                                                ELSE Over(second, price1),
      bottleneckLeg |-> path[2].symbol],
     [notional |-> third, bottleneckLeg |-> path[3].symbol] >>

calculateStartingNotional(path, pairToPriceMap) ==
  LET side(i)  == Levels(path[i], pairToPriceMap[path[i].symbol])
      value(i, base) == calculateBookSideValue(side(i), base)
  IN  Least(Bounds(path, value(1, ~path[1].requiresInversion),
                   Over(value(1, FALSE), value(1, TRUE)),
                   value(2, ~path[2].requiresInversion),
                   value(3, path[3].requiresInversion)))

calculateStartingNotionalWithFirstLevelOnly(path, pairToPriceMap) ==
  LET side(i)  == Levels(path[i], pairToPriceMap[path[i].symbol])
      base(i)  == getBestQty(side(i))
      quote(i) == Times(base(i), getBestPrice(side(i)))
      paid(i)  == IF path[i].requiresInversion THEN quote(i) ELSE base(i)
  IN  Least(Bounds(path, paid(1), getBestPrice(side(1)), paid(2),
                   IF path[3].requiresInversion THEN base(3) ELSE quote(3)))
=============================================================================
