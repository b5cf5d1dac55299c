\* Liveness of the save: every flush returns, accepted entries are saved,
\* a close saves what is left.  Two flushers, so that one may be notified in
\* the other's place; one opening of the save.
SPECIFICATION FairSpec
CONSTANTS
  Flushers = {f1, f2}
  MaxSequence = 2
  MaxOpens = 1
  CheckpointInterval = 1
  MaxPendingBytes = 3
  CopiedSizes = {3}
INVARIANTS
  WakeupReachesWorker
PROPERTIES
  FlushReturns
  EventuallySaved
  CloseSavesAll
\* A save that is closed, or lost with its process, may rest.
CHECK_DEADLOCK FALSE
