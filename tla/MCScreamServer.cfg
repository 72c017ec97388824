CONSTANTS
  MaxPackets = 3
  MaxWindow = 2
  MaxDiscards = 1
SPECIFICATION LiveSpec
CHECK_DEADLOCK FALSE
INVARIANTS
  TypeOK
  BufferOwnership
  StaleOncePerDiscard
  OvershootAtMostOne
PROPERTIES
  CarrierSpec
  StopReturns
  EveryPacketSent
