CONSTANTS
  NoClient = NoClient
  Clients = {c1}
  MaxMessages = 0
  MaxParts = 0
SPECIFICATION LiveSpec
PROPERTY StopReturns
