\* Four results, two failures of the disk, two processes.
CONSTANTS
  MaxResults = 4
  MaxFailures = 2
  MaxStarts = 2
SPECIFICATION Spec
INVARIANT TypeOK
INVARIANT OpenFileIsComplete
INVARIANT LossIsAnnounced
INVARIANT DamageIsBounded
\* The bounds stop it.
CHECK_DEADLOCK FALSE
