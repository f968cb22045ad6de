\* Two relays, every delay one second.
CONSTANTS
  N = 2
  Delays = {1}
  Settings <- AnySetting
  CounterMod = 256
  TimerIds = {t1, t2}
  SerialCalls = TRUE
SPECIFICATION PSpec
SYMMETRY TimerSymmetry
INVARIANTS
  ChangeReachesFlash
  RestPins
