SPECIFICATION Spec
CONSTANTS
  None = None
  p1 = p1
  w1 = w1
  w2 = w2
  Players = {p1}
  Wizards = {w1, w2}
  Window = 2
  MaxEntries = 4
  MaxOpenings = 2
  MaxInFlight = 2
SYMMETRY Symmetry
INVARIANTS
  ExecutedOnce
  AuthorityMarked
  RecoveryReproduces
PROPERTIES
  SavedAnswerStands
CHECK_DEADLOCK FALSE
