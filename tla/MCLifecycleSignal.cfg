CONSTANTS
  N = 1
  TcpBlocks = {}
  ScreamClients = {}
  MaxSignals = 1
SPECIFICATION LiveSpec
CHECK_DEADLOCK FALSE
PROPERTY SignalEnds
