CONSTANTS
  Base = 4
  BufferSize = 8
  Bodies <- LongBodies
  MaxMessages = 2
  MaxStray = 0
SPECIFICATION Spec
CHECK_DEADLOCK FALSE
PROPERTY Untouched
