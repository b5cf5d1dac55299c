\* Safety of the owner loop: two clients, a mailbox of one, so that a batch is
\* one message, and a stall of one tick.
SPECIFICATION Spec
CONSTANTS
  Clients = {c1, c2}
  Capacity = 1
  Stall = 1
  Requests = {"query"}
  MaxCommands = 2
SYMMETRY Symmetry
INVARIANTS
  CommandsInOrder
\* The loop ends at a shutdown.
CHECK_DEADLOCK FALSE
