CONSTANTS
  NoClient = NoClient
  Clients = {c1, c2, c3}
  MaxMessages = 1
  MaxParts = 0
SPECIFICATION Spec
PROPERTY HealthyClientKept
