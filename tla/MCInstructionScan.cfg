\* A buffer of three bytes, shorter than a frame, and a time-out of three loops.
CONSTANTS
  Frames <- TwoFrames
  Noise <- TwoBytes
  BufferLen = 3
  Timeout = 3
SPECIFICATION FairSpec
INVARIANTS
  TypeOK
  InOrder
PROPERTIES
  NeverWedged
