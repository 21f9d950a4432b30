-------------------------- MODULE MCArbitragePath --------------------------
(***************************************************************************)
(* The parser on every text of a few segments.                             *)
(***************************************************************************)
EXTENDS ArbitragePath

CONSTANTS
  Segments,    \* the segments a text is made of
  MaxSegments  \* bound: segments of a text

ASSUME TextAssumption ==
  MaxSegments \in Nat /\ \A segment \in Segments : segment \in Seq(STRING) /\ segment # <<>>

VARIABLES
  str,     \* the text given to the parser
  outcome  \* what it returned

vars == <<str, outcome>>

Unparsed == [kind |-> "unparsed"]

GivenText ==
  /\ str \in UNION {[1..n -> Segments] : n \in 1..MaxSegments}
  /\ outcome = Unparsed

ParseText ==
  /\ outcome = Unparsed
  /\ outcome' = from_string(str)
  /\ UNCHANGED str

Parsing == GivenText /\ [][ParseText]_vars

\* Legs with and without a colon in the symbol, and everything that comes near.
SomeSegments ==
  { <<"">>, <<"btc">>, <<"BUY">>,
    <<"btcusdt", "BUY">>, <<"ethusdt", "SELL">>, <<"", "BUY">>, <<"btc", "">>,
    <<"eth", "btc", "BUY">>, <<"eth", "BUY", "btc">>, <<"", "eth", "SELL">>,
    <<"btc", "eth", "btc", "SELL">> }

-----------------------------------------------------------------------------
\* The text of a path, as in the example above from_string.
Text(base, legs) ==
  LET segment(leg) == Append(leg.symbol, IF leg.requiresInversion THEN "SELL" ELSE "BUY")
  IN  Front(base) \o << Last(base) \o segment(legs[1]), segment(legs[2]), segment(legs[3]) >>

NonEmpty(pieces) ==
  FlattenSeq([i \in DOMAIN pieces |-> IF pieces[i] = "" THEN <<>> ELSE <<pieces[i]>>])

Pieces(text) == FlattenSeq([i \in DOMAIN text |-> NonEmpty(text[i])])

WellFormed(text) ==
  LET IsLegText(segment) == /\ Len(segment) >= 2 /\ segment[1] # ""
                            /\ Last(segment) \in {"BUY", "SELL"}
  IN  /\ Len(text) = 3 /\ IsLegText(text[2]) /\ IsLegText(text[3])
      /\ Len(text[1]) >= 2 /\ IsLegText(Tail(text[1]))

\* Parsing inverts formatting: a text of the documented form is accepted, and
\* whatever is accepted begins with the text of the path returned, so that no
\* leg is skipped, reordered or turned around.
PathStandsInText ==
  /\ outcome.kind = "path" =>
       IsPrefix(Pieces(Text(outcome.startCurrency, outcome.legs)), Pieces(str))
  /\ WellFormed(str) /\ outcome # Unparsed => outcome.kind = "path"

\* The comment on from_string says "there must only be 3 legs": a text with
\* fewer is refused, and so is one with more.
OnlyThreeLegs ==
  /\ outcome.kind # "undefined"
  /\ outcome.kind = "path" =>
       Pieces(Text(outcome.startCurrency, outcome.legs)) = Pieces(str)
=============================================================================
