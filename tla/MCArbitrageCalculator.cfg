CONSTANTS
  Prices = {1, 2, 3}
  Quantities = {1, 2}
  MaxLevels = 3
  MaxAmount = 7
SPECIFICATION Spec
INVARIANT SellsAtBestSplit
INVARIANT BuysAtBestSplit
\* One order per behaviour.
CHECK_DEADLOCK FALSE
