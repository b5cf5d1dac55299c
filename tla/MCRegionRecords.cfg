\* Turns and rewinds over three regions, with failed commits and a restart.
SPECIFICATION Spec
CONSTANTS
  None = None
  NotBuilt = NotBuilt
  Loaded = Loaded
  Regions <- MCRegions
  Group <- MCGroup
  Horizons <- MCHorizons
  Start <- MCStart
  Window = 2
  CheckpointInterval = 2
  CachedRecords = 0
  MaxEntries = 4
  MaxOpenings = 2
INVARIANTS
  RecordsReachable
  SaveRestores
  InputsReadable
\* Entries and openings are bounded.
CHECK_DEADLOCK FALSE
