\* Every interleaving of completions, failures and publications.
CONSTANT MaxPublished = 6
SPECIFICATION FairSpec
INVARIANT TypeOK
INVARIANT OneOperationOutstanding
INVARIANT HandshakesInOrder
INVARIANT CleanBuffer
INVARIANT NothingLostWhileOpen
PROPERTY ResetsOnlyIdleStream
PROPERTY NewsArrivesUnlessSilent
PROPERTY ImplementsFeed
PROPERTY BackoffSettlesUnlessStalled
\* A client whose chain of operations ended waits forever.
CHECK_DEADLOCK FALSE
