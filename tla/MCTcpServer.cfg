CONSTANTS
  NoClient = NoClient
  Clients = {c1, c2}
  MaxMessages = 2
  MaxParts = 2
SPECIFICATION Spec
SYMMETRY ClientSymmetry
INVARIANTS
  TypeOK
  DescriptorsOwned
  NoErrorMeansClient
  WritesInOrder
  PartsForwardedOnce
  MixedWithFirstOnly
