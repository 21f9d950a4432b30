\* Every text of up to four segments.
CONSTANTS
  Segments <- SomeSegments
  MaxSegments = 4
SPECIFICATION Parsing
INVARIANT PathStandsInText
\* One text per behaviour.
CHECK_DEADLOCK FALSE
