\* The same instance: a save that recovery refuses, a violation.
SPECIFICATION Spec
CONSTANTS
  Humans = {h}
  Creatures = {c}
  MaxIntentions = 2
  None = None
INVARIANTS
  HistoryReadable
\* A save that can no longer be read ends the exploration.
CHECK_DEADLOCK FALSE
