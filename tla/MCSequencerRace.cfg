\* Calls that start a sequence interleave as the scheduler lets them.
CONSTANTS
  N = 1
  Delays = {1}
  Settings <- AnySetting
  CounterMod = 256
  TimerIds = {t1, t2, t3, t4}
  SerialCalls = FALSE
SPECIFICATION Spec
SYMMETRY TimerSymmetry
INVARIANTS
  OneSequence
