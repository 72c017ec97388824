CONSTANTS
  NoClient = NoClient
  Clients = {c1, c2}
  MaxMessages = 0
  MaxParts = 2
SPECIFICATION Spec
INVARIANT MessagesUntouched
