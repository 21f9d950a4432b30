\* Four streams, one of them off the path, and every kind of interval.
CONSTANTS
  Symbols = {"a", "b", "c", "x"}
  Ticks <- OneBook
  Paths <- SomeTriangles
  Configs <- Intervals
  MaxAge = 7
SPECIFICATION Spec
INVARIANT TypeOK
INVARIANT NoUndefinedBehaviour
PROPERTY SizedOnSchedule
\* A terminated server stops, and MaxAge stops one that never sizes again.
CHECK_DEADLOCK FALSE
