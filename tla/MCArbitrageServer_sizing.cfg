\* Sized at every evaluation or at every second one, so that books change
\* under a sizing.
CONSTANTS
  Symbols = {"a", "b", "c"}
  Ticks <- Books
  Paths <- AllTriangles
  Configs <- SizingConfigs
  MaxAge = 3
SPECIFICATION Spec
INVARIANT SizedZeroIffSideEmpty
INVARIANT FirstLevelSizingFits
INVARIANT FreshDropIsFavourable
INVARIANT RecordedTradeIsExecutable
\* A server without its path stops.
CHECK_DEADLOCK FALSE
