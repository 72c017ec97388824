CONSTANTS
  N = 2
  TcpBlocks = {2}
  ScreamClients = {1}
  MaxSignals = 2
SPECIFICATION LiveSpec
CHECK_DEADLOCK FALSE
INVARIANTS
  TypeOK
  LogExclusive
  NoThreadLeft
PROPERTY EndsUnlessWaiting
