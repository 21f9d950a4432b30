\* What the comment on write() promises.
CONSTANTS
  MaxResults = 2
  MaxFailures = 1
  MaxStarts = 1
SPECIFICATION Spec
INVARIANT EveryTickOnNewLine
CHECK_DEADLOCK FALSE
