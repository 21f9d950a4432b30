\* Files of up to five rows.
CONSTANTS
  MaxRows = 5
  Pnls <- SomePnls
  Notionals <- SomeNotionals
  Gaps = {1}
SPECIFICATION Spec
INVARIANT GroupsAreRuns
INVARIANT SummariesFit
INVARIANT TotalsAreCumulative
\* The file is complete at some point.
CHECK_DEADLOCK FALSE
