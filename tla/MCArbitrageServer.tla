------------------------- MODULE MCArbitrageServer -------------------------
(***************************************************************************)
(* Instances of the server for TLC: symbols, paths, order books and        *)
(* configurations.  Prices and quantities are small whole numbers, chosen  *)
(* so that paths gain and lose, every leg can be the bottleneck, orders    *)
(* reach into a second level, and sides can be empty.                      *)
(***************************************************************************)
EXTENDS ArbitrageServer, Configuration

Level(price, quantity) == [price |-> Double(price), quantity |-> Double(quantity)]

Shallow == [bids |-> <<Level(2, 1)>>, asks |-> <<Level(3, 1)>>]
Deep    == [bids |-> <<Level(3, 1), Level(1, 2)>>, asks |-> <<Level(4, 1), Level(5, 3)>>]
Cheap   == [bids |-> <<Level(1, 3)>>, asks |-> <<Level(2, 1), Level(4, 1)>>]
NoBids  == [bids |-> <<>>, asks |-> <<Level(2, 2)>>]
NoAsks  == [bids |-> <<Level(2, 2)>>, asks |-> <<>>]

Books  == {Shallow, Deep, Cheap, NoBids, NoAsks}
OneBook  == {Shallow}

Triangle(symbols, inversions) ==
  [i \in Legs |-> [symbol |-> symbols[i], requiresInversion |-> inversions[i]]]

\* Every direction of the three legs.
AllTriangles == {Triangle(<<"a", "b", "c">>, inversions) : inversions \in [Legs -> BOOLEAN]}

\* A path along subscribed symbols, and one with a symbol never subscribed to.
SomeTriangles == {Triangle(<<"a", "b", "c">>, <<FALSE, TRUE, FALSE>>),
                  Triangle(<<"a", "b", "y">>, <<FALSE, TRUE, FALSE>>)}

Half == <<1, 2>>

\* The defaults of main, and a fee of one tenth with half the notional and a
\* threshold of one half.
FreshConfigs ==
  {ServerConfig(Zero, Zero, One, 0, firstLevelOnly) : firstLevelOnly \in BOOLEAN} \cup
  {ServerConfig(Half, <<1, 10>>, Half, 0, firstLevelOnly) : firstLevelOnly \in BOOLEAN}

\* Sized on every second evaluation.
StaleConfigs == {ServerConfig(Zero, Zero, One, 2, firstLevelOnly) : firstLevelOnly \in BOOLEAN}

SizingConfigs == FreshConfigs \cup StaleConfigs

\* Intervals of 0, 1, 2, a half and -1 evaluations.
Intervals == {ServerConfig(Zero, Zero, One, interval, TRUE) : interval \in {0, 2, 4, 1, -2}}
=============================================================================
