---------------------- MODULE MCTriangularArbitrageBot ----------------------
(***************************************************************************)
(* An instance of the bot for TLC: two order books, with which the path    *)
(* gains, loses and cannot be traded.                                      *)
(***************************************************************************)
EXTENDS TriangularArbitrageBot

Level(price, quantity) == [price |-> Double(price), quantity |-> Double(quantity)]

High == [bids |-> <<Level(3, 1)>>, asks |-> <<Level(4, 1)>>]
Low  == [bids |-> <<Level(1, 2)>>, asks |-> <<Level(2, 2)>>]

TwoBooks == {High, Low}

Triangle(symbols, inversions) ==
  [i \in 1..3 |-> [symbol |-> symbols[i], requiresInversion |-> inversions[i]]]

OneTriangle == {Triangle(<<"a", "b", "c">>, <<FALSE, TRUE, FALSE>>)}

NothingSet == {[name \in {} |-> Zero]}

-----------------------------------------------------------------------------
(* Bounds of the search.                                                   *)

\* The book of a symbol off the path is never read: one such update, with one
\* such book, is enough.
OffPath ==
  /\ Cardinality({u \in DOMAIN stream : stream[u] = "x"}) <= 1
  /\ "x" \in DOMAIN pairToPriceMap => pairToPriceMap["x"].bids = High.bids

\* One process is followed for five updates: three until the first result, one
\* missed between two connections or dropped, and one after it.  What is missed
\* before anything is heard is as if it were not published.
OneProcess ==
  /\ starts < 2 /\ published <= IF running THEN 5 ELSE 3
  /\ DOMAIN outcome = {} => subscribed = 0

\* A second one, after a first that had a result, is followed until it ends and
\* for three more updates, which is a result of its own.
SecondProcess ==
  /\ starts = 2 /\ running /\ rows # <<>> /\ subscribed <= 3
  /\ published - Cardinality(DOMAIN outcome) <= 1
  /\ \A u \in DOMAIN stream : stream[u] # "x"

Explored == OffPath /\ (OneProcess \/ SecondProcess)
=============================================================================
