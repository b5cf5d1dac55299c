\* Safety of the save: producer, worker, one flusher, failures,
\* uncertain commits, capacity failures, crash and reopening.
SPECIFICATION Spec
CONSTANTS
  Flushers = {f1}
  MaxSequence = 3
  MaxOpens = 2
  CheckpointInterval = 1
  MaxPendingBytes = 3
  CopiedSizes = {0, 3}
INVARIANTS
  TypeOK
  QueueInOrder
  PendingBytesExact
  FileLoads
  RetryReconciles
  PromiseKept
PROPERTIES
  FailureStopsAdmission
  ImplementsDurableLog
\* A save that is closed, or lost with its process, may rest.
CHECK_DEADLOCK FALSE
