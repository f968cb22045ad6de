SPECIFICATION Spec
CONSTANTS
  Window = 5
  Every = 2
  Size = 3
  Mains <- MCMains
  MaxChanges = 2
INVARIANTS
  SteadyIsShown
PROPERTIES
  StillDisplay
