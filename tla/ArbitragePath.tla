--------------------------- MODULE ArbitragePath ---------------------------
(***************************************************************************)
(* The text of a path, such as btc:btcusdt:BUY,ethusdt:SELL,ethbtc:BUY, is *)
(* a sequence of segments (between commas), each a sequence of pieces      *)
(* (between colons).  An empty segment is << "" >>.                        *)
(*                                                                         *)
(* A definition whose name starts with Slip is a plausible mistake in the  *)
(* definition that follows it and is used nowhere else.                    *)
(***************************************************************************)
EXTENDS Subsequences, SequencesExt

Actions == {"BUY", "SELL"}

IsEmpty(segment) == segment = <<"">>

SlipIsLeg(segment) == Len(segment) >= 2 /\ segment[2] \in Actions

\* A segment splits at its last colon, which may not be its first character.
IsLeg(segment) ==
  /\ Len(segment) >= 2 /\ segment # <<"", Last(segment)>>
  /\ Last(segment) \in Actions

TradeLeg(segment) == [symbol |-> Front(segment), requiresInversion |-> Last(segment) = "SELL"]

\* The constructor takes the first three legs of a vector, whatever its size;
\* a leg behind its end is undefined behaviour.
Path(base, parsed_legs) ==
  IF Len(parsed_legs) < 3 THEN [kind |-> "undefined"]
  ELSE [kind |-> "path", startCurrency |-> base, legs |-> SubSeq(parsed_legs, 1, 3)]

Throws == [kind |-> "throws"]

\* Empty segments are skipped; any other that is not a leg throws.
Parse(base, segments) ==
  LET leg_segments == Selected(segments, {i \in DOMAIN segments : ~IsEmpty(segments[i])})
  IN  IF \E i \in DOMAIN leg_segments : ~IsLeg(leg_segments[i])
      THEN Throws
      ELSE Path(base, [i \in DOMAIN leg_segments |-> TradeLeg(leg_segments[i])])

\* The start currency is what precedes the first colon, commas included.
from_string(str) ==
  LET first_colon == SelectInSeq(str, LAMBDA segment : Len(segment) >= 2)
  IN  IF first_colon = 0 THEN Throws
      ELSE Parse(Append(SubSeq(str, 1, first_colon - 1), <<str[first_colon][1]>>),
                 <<Tail(str[first_colon])>> \o SubSeq(str, first_colon + 1, Len(str)))
=============================================================================
