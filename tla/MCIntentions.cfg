\* A player's actor and a creature.
SPECIFICATION Spec
CONSTANTS
  Humans = {h}
  Creatures = {c}
  MaxIntentions = 2
  None = None
INVARIANTS
  JournalAccepted
  GameMatchesPhases
\* A save that can no longer be read ends the exploration.
CHECK_DEADLOCK FALSE
