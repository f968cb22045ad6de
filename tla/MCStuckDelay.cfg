\* The power is cut while the flash holds a record of a running sequence.
CONSTANTS
  N = 1
  Delays = {1}
  Settings <- AnySetting
  CounterMod = 256
  TimerIds = {t1, t2}
  SerialCalls = TRUE
SPECIFICATION PSpec
SYMMETRY TimerSymmetry
INVARIANTS
  FlagMeansRunning
