----------------------- MODULE MCArbitrageCalculator -----------------------
(***************************************************************************)
(* The two average price computations against a definition that does not   *)
(* walk through the book: of all the ways to split an order over the       *)
(* levels, the best one.  One order is placed on every book of the bounds. *)
(***************************************************************************)
EXTENDS ArbitrageCalculator, FiniteSets, FiniteSetsExt

CONSTANTS
  Prices,      \* bound: whole prices of a level
  Quantities,  \* bound: whole quantities of a level
  MaxLevels,   \* bound: levels of a book side
  MaxAmount    \* bound: the amount to trade, whole

ASSUME BookAssumption ==
  /\ Prices \subseteq Nat \ {0} /\ Quantities \subseteq Nat \ {0}
  /\ MaxLevels \in Nat /\ MaxAmount \in Nat

VARIABLES
  book,    \* one side of an order book: whole [price, quantity], best first
  amount,  \* what the order sells or spends
  side,    \* "none" before the order, then the side it traded on
  vwap     \* the average price computed for it

vars == <<book, amount, side, vwap>>

Books == UNION {[1..n -> [price : Prices, quantity : Quantities]] : n \in 0..MaxLevels}

AsLevels == [i \in DOMAIN book |->
              [price |-> Double(book[i].price), quantity |-> Double(book[i].quantity)]]

Init ==
  /\ book \in Books
  /\ amount \in 0..MaxAmount
  /\ side = "none"
  /\ vwap = Zero

SellToBids ==
  /\ side = "none" /\ InOrder(AsLevels, FALSE)
  /\ side' = "bids"
  /\ vwap' = calculateVwapBid(AsLevels, Double(amount))
  /\ UNCHANGED <<book, amount>>

BuyFromAsks ==
  /\ side = "none" /\ InOrder(AsLevels, TRUE)
  /\ side' = "asks"
  /\ vwap' = calculateVwapAsk(AsLevels, Double(amount))
  /\ UNCHANGED <<book, amount>>

Next == SellToBids \/ BuyFromAsks

Spec == Init /\ [][Next]_vars

-----------------------------------------------------------------------------
TotalOf(f) == FoldSet(LAMBDA i, sum : sum + f[i], 0, DOMAIN f)

\* The ways to split the amount over the levels, at most capacity(i) each.
Splits(capacity(_)) ==
  {f \in [DOMAIN book -> 0..MaxAmount] :
     TotalOf(f) = amount /\ \A i \in DOMAIN book : f[i] <= capacity(i)}

Proceeds(f) == TotalOf([i \in DOMAIN book |-> f[i] * book[i].price])

\* Base currency bought by spending f[i] on level i.
Acquired(f) ==
  FoldSet(LAMBDA i, sum : Plus(sum, Over(Double(f[i]), Double(book[i].price))),
          Zero, DOMAIN f)

\* A sale to the bids fetches what the best split of it fetches, and nothing
\* (price 0) exactly when the bids cannot take it all.
SellsAtBestSplit ==
  side = "bids" =>
    LET splits == Splits(LAMBDA i : book[i].quantity)
        fetched == Times(vwap, Double(amount))
    IN  IF splits = {} THEN vwap = Zero
        ELSE /\ \E f \in splits : fetched = Double(Proceeds(f))
             /\ \A f \in splits : AtMost(Double(Proceeds(f)), fetched)

\* Money spent on the asks buys what the best split of it buys, and nothing
\* (price 0) exactly when the asks cannot take it all.
BuysAtBestSplit ==
  side = "asks" =>
    LET splits == Splits(LAMBDA i : book[i].price * book[i].quantity)
    IN  IF splits = {} \/ amount = 0 THEN vwap = Zero
        ELSE /\ Less(Zero, vwap)
             /\ \E f \in splits : Over(Double(amount), vwap) = Acquired(f)
             /\ \A f \in splits : AtMost(Acquired(f), Over(Double(amount), vwap))
=============================================================================
