CONSTANTS
  MaxPackets = 2
  MaxRequests = 2
  MaxMessages = 3
  MaxDown = 1
  AckDiff = 2
  ClockSize = 5
  Interval = 1
  MaxRound = 1
SPECIFICATION LiveSpec
CHECK_DEADLOCK FALSE
INVARIANTS
  TypeOK
  NothingNewOnlyIfOvertaken
  ReportedInTime
  OnePlace
  FlowsApart
  NeverDropped
  OrderPerProducer
PROPERTIES
  CarrierSpec
  StopAborts
  EveryPacketReported
  EveryMessageArrives
  EveryRequestArrives
