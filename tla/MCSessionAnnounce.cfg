SPECIFICATION Spec
CONSTANTS
  None = None
  a1 = a1
  a2 = a2
  Clients <- MCClients
  Actors = {a1}
  Role <- MCRole
  Allowed <- MCAllowed
INVARIANT
  HealthyPeersContinue
