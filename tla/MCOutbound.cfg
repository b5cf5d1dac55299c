\* Two connections share a pool that cannot hold both of their budgets.
SPECIFICATION FairSpec
CONSTANTS
  Clients = {c1, c2}
  Slots = 2
  FrameBytes = 2
  ClientBytes = 4
  TotalBytes = 5
  MaxConnections = 3
  Sizes = {1, 3}
INVARIANTS
  AccountingExact
  GuaranteesBacked
PROPERTIES
  EndedReleases
\* The server may rest when every connection is gone.
CHECK_DEADLOCK FALSE
