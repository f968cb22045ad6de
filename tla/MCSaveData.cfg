\* A countdown of two loops and a time save every three; a queue of one
\* message and a flash that may fail.
CONSTANTS
  Values = {v1, v2}
  Default = v1
  Erased = erased
  CountFrom = 2
  SavePeriod = 3
  QueueMax = 1
  FlashFails = TRUE
SPECIFICATION FairSpec
INVARIANTS
  SaveIsPending
PROPERTIES
  Settles
