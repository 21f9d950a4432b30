\* Four streams, one of them off the path; two order books, with which the
\* path gains, loses and cannot be traded; two processes on one file.  An
\* update may be missed and others delivered after it.
CONSTANTS
  MaxPublished = 6
  MaxUnheard = 2
  MaxStarts = 2
  Symbols = {"a", "b", "c", "x"}
  Ticks <- TwoBooks
  Paths <- OneTriangle
  Environments <- NothingSet
SPECIFICATION Spec
\* Further bounds on what is explored (no temporal property is checked here).
CONSTRAINT Explored
INVARIANT BooksLagOnlyByOutage
INVARIANT DiesOnlyBeforeFirstResult
INVARIANT FileIsInOrder
INVARIANT GapsAreExplained
\* The bounds stop it.
CHECK_DEADLOCK FALSE
