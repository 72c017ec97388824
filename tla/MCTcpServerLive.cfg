CONSTANTS
  NoClient = NoClient
  Clients = {c1, c2}
  MaxMessages = 2
  MaxParts = 0
SPECIFICATION LiveSpec
PROPERTIES
  StopsUnlessBlocked
  DeadClientNoticed
  CarrierSpec
