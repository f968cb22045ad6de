\* Four slots and two kinds of byte, more of them than user_task takes; the
\* threads do not run in the middle of each other's update.
CONSTANTS
  Byte = {0, 1}
  BufferLen = 4
  MayPreempt = FALSE
SPECIFICATION Spec
PROPERTIES
  IsQueue
