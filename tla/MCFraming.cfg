CONSTANTS
  Base = 4
  BufferSize = 5
  Bodies <- ShortBodies
  MaxMessages = 3
  MaxStray = 1
SPECIFICATION LiveSpec
CHECK_DEADLOCK FALSE
INVARIANTS
  TypeOK
  InBounds
  ChunksDoNotMatter
PROPERTIES
  Untouched
  AllForwarded
