\* The preloader: speculation, takes, demands and the drop.
SPECIFICATION FairSpec
CONSTANTS
  LastJob = 5
  LastGroup = 3
  TotalCost <- MCTotalCost
  Limit = 5
  MaxWants = 3
INVARIANTS
  BudgetHeld
  NoDuplicateWork
  DemandIsNext
PROPERTIES
  DemandReturns
  DropJoins
\* A preloader that was dropped rests.
CHECK_DEADLOCK FALSE
