CONSTANTS
  MaxPackets = 1
  MaxRequests = 0
  MaxMessages = 1
  MaxDown = 0
  AckDiff = 2
  ClockSize = 5
  Interval = 1
  MaxRound = 1
SPECIFICATION Spec
CHECK_DEADLOCK FALSE
INVARIANT RtcpForwarded
