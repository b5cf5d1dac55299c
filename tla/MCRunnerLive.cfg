\* Liveness of the owner loop.
SPECIFICATION FairSpec
CONSTANTS
  Clients = {c1}
  Capacity = 1
  Stall = 1
  Requests = {"query", "save"}
  MaxCommands = 1
PROPERTIES
  HeldAreReleased
  SavesAnswered
  PlayNotStarved
  FullIsDisconnected
  ShutdownStops
\* The loop ends at a shutdown.
CHECK_DEADLOCK FALSE
