\* What the comment on from_string demands.
CONSTANTS
  Segments <- SomeSegments
  MaxSegments = 4
SPECIFICATION Parsing
INVARIANT OnlyThreeLegs
\* One text per behaviour.
CHECK_DEADLOCK FALSE
