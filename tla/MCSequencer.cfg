\* Three relays, one of them possibly slow, and a closing delay counted modulo
\* four; no symmetry, for the liveness.
CONSTANTS
  N = 3
  Delays = {1, 3, 5}
  Settings <- OneSlow
  CounterMod = 4
  TimerIds = {t1, t2}
  SerialCalls = TRUE
SPECIFICATION FairSpec
INVARIANTS
  DelayFlagIsTimers
  RestRecord
PROPERTIES
  SequenceOrder
  EndIsSaved
  OpenSpacing
  CloseSpacing
  PowerOnEnds
  PowerOffEnds
  ResetEnds
  ImplementsPower
