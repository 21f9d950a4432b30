\* What the analysis takes for consecutive.
CONSTANTS
  MaxPublished = 5
  MaxUnheard = 2
  MaxStarts = 1
  Symbols = {"a", "b", "c"}
  Ticks <- TwoBooks
  Paths <- OneTriangle
  Environments <- NothingSet
SPECIFICATION Spec
INVARIANT OpportunitiesAreConsecutive
\* The bounds stop it.
CHECK_DEADLOCK FALSE
